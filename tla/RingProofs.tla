------------------------------- MODULE RingProofs -------------------------------
(***************************************************************************)
(* The hash ring, for any servers and any hashes of their points.  Every   *)
(* insertion and every removal leaves a red-black tree of the keys it had, *)
(* with the key or without it; and lookup and lookupN, which go from point *)
(* to point with the iterator of the tree, answer as the abstract ring.    *)
(*                                                                         *)
(* IsRedBlack speaks of whole paths.  The proofs keep evidence of it that  *)
(* is local to a node and its children: the points that may be below each  *)
(* node (Spans), and the black nodes above it (Even).  The iterator needs  *)
(* the first half of it: where the points below a node can lie.            *)
(***************************************************************************)
EXTENDS HashRing, FiniteSetTheorems, WellFoundedInduction, TLAPS

(* The points on the side d of x; all of them are on a side of the fake root. *)
Beside(x, d) == IF x = Fake THEN Point ELSE {k \in Point : k # x /\ Toward(x, k) = d}

(* Everything that is not the fake root hangs in one place below it, and is *)
(* reached from it.                                                         *)
Shape(N, C) ==
  /\ Fake \in N /\ N \subseteq Point \cup {Fake} /\ IsFiniteSet(N)
  /\ C \in [N \X Dir -> (N \ {Fake}) \cup {Nil}] /\ C[<<Fake, "left">>] = Nil
  /\ \A x, y \in N : \A d, e \in Dir : C[<<x, d>>] = C[<<y, e>>] /\ C[<<x, d>>] # Nil => x = y /\ d = e
  /\ \A S \in SUBSET N :
       Fake \in S /\ (\A x \in S : \A d \in Dir : C[<<x, d>>] = Nil \/ C[<<x, d>>] \in S) => S = N

(* I[x] is the interval of the points that may be in x's place: what is on  *)
(* the side d of x and in I[x] is left to the child on that side.           *)
Spans(N, C, I) ==
  /\ I \in [N -> SUBSET Point] /\ I[Fake] = Point
  /\ \A x \in N : \A d \in Dir :
       C[<<x, d>>] # Nil => /\ C[<<x, d>>] \in I[x] \cap Beside(x, d)
                            /\ I[C[<<x, d>>]] = I[x] \cap Beside(x, d)

(* The children after a turn of x towards dir below p (singleRotate,        *)
(* 54-64).                                                                  *)
Turn(C, x, dir, p, pd) ==
  [C EXCEPT ![<<x, Other(dir)>>] = C[<<C[<<x, Other(dir)>>], dir>>], ![<<C[<<x, Other(dir)>>], dir>>] = x,
            ![<<p, pd>>] = C[<<x, Other(dir)>>]]
(* Two directions, each the other's other. *)
LEMMA Dirs == \A d \in Dir : /\ Other(d) \in Dir /\ Other(d) # d /\ Other(Other(d)) = d
                             /\ \A e \in Dir : e = d \/ e = Other(d)
  BY DEF Dir, Other

(* Less orders the points: a point is on one side of another, never of      *)
(* itself, and beside what is beside it.                                    *)
LEMMA Sides ==
  ASSUME NEW x \in Point, NEW y \in Point, NEW k \in Point, NEW d \in Dir
  PROVE  /\ x \notin Beside(x, d)
         /\ x # y => (y \in Beside(x, d) <=> Toward(x, y) = d)
         /\ x # y => (y \in Beside(x, d) <=> y \notin Beside(x, Other(d)))
         /\ y \in Beside(x, d) <=> x \in Beside(y, Other(d))
         /\ y \in Beside(x, d) /\ k \in Beside(y, d) => k \in Beside(x, d)
  <1>1. x # Fake /\ y # Fake BY RBTreeAssumption
  <1>2. /\ ~Less(x, x) /\ (Less(x, y) => ~Less(y, x)) /\ (x # y => Less(x, y) \/ Less(y, x))
        /\ (Less(x, y) /\ Less(y, k) => Less(x, k))
        /\ (Less(k, y) /\ Less(y, x) => Less(k, x)) /\ (y # k => Less(y, k) \/ Less(k, y))
        /\ (Less(k, x) => ~Less(x, k))
    BY DEF Less, Point
  <1>3. \A a \in Point : \A b \in Point :
          /\ b \in Beside(a, "left") <=> b # a /\ ~Less(a, b)
          /\ b \in Beside(a, "right") <=> b # a /\ Less(a, b)
    <2> SUFFICES ASSUME NEW a \in Point, NEW b \in Point
                 PROVE  /\ b \in Beside(a, "left") <=> b # a /\ ~Less(a, b)
                        /\ b \in Beside(a, "right") <=> b # a /\ Less(a, b)
      OBVIOUS
    <2>1. a # Fake BY RBTreeAssumption
    <2> QED BY <2>1 DEF Beside, Toward
  <1>4. Toward(x, y) = IF Less(x, y) THEN "right" ELSE "left" BY DEF Toward
  <1>5. Other("left") = "right" /\ Other("right") = "left" BY DEF Other
  <1>6. CASE d = "left" BY <1>2, <1>3, <1>4, <1>5, <1>6
  <1>7. CASE d = "right" BY <1>2, <1>3, <1>4, <1>5, <1>7
  <1> QED BY <1>6, <1>7 DEF Dir

(* Only points are on a side. *)
LEMMA BesideType == \A x : \A d \in Dir : Beside(x, d) \subseteq Point
  BY DEF Beside

(* D is C with x turned below its child s, away from dir. *)
IsTurn(N, C, D, x, s, dir, p, pd) ==
  /\ x \in N \ {Fake} /\ s \in N \ {Fake} /\ p \in N /\ dir \in Dir /\ pd \in Dir
  /\ s # x /\ p # x /\ p # s /\ C[<<p, pd>>] = x /\ C[<<x, Other(dir)>>] = s
  /\ D \in [N \X Dir -> (N \ {Fake}) \cup {Nil}]
  /\ D[<<p, pd>>] = s /\ D[<<s, dir>>] = x /\ D[<<x, Other(dir)>>] = C[<<s, dir>>]
  /\ D[<<x, dir>>] = C[<<x, dir>>] /\ D[<<s, Other(dir)>>] = C[<<s, Other(dir)>>]
  /\ \A y \in N : \A d \in Dir :
       y \notin {x, s} /\ (y # p \/ d # pd) => D[<<y, d>>] = C[<<y, d>>]

(* Turn is a turn when the child that goes up is there. *)
LEMMA TurnAt ==
  ASSUME NEW N, NEW C, Shape(N, C), NEW x \in N \ {Fake}, NEW dir \in Dir, NEW p \in N,
         NEW pd \in Dir, C[<<p, pd>>] = x, C[<<x, Other(dir)>>] # Nil
  PROVE  IsTurn(N, C, Turn(C, x, dir, p, pd), x, C[<<x, Other(dir)>>], dir, p, pd)
  <1> DEFINE o == Other(dir)
             s == C[<<x, o>>]
             D == Turn(C, x, dir, p, pd)
  <1>0. o \in Dir /\ o # dir /\ \A e \in Dir : e = dir \/ e = o BY Dirs
  <1>12. C[<<x, o>>] = s OBVIOUS
  <1>1. s \in N \ {Fake} BY <1>0 DEF Shape
  <1>2. N \ {x, s} # N /\ Fake \in N \ {x, s} BY <1>1 DEF Shape
  <1>3. \E y \in N \ {x, s} : \E d \in Dir : C[<<y, d>>] \in {x, s}
    <2> DEFINE S == N \ {x, s}
    <2>1. S \in SUBSET N /\ S # N /\ Fake \in S BY <1>2
    <2>2. PICK y \in S, d \in Dir : C[<<y, d>>] # Nil /\ C[<<y, d>>] \notin S
      BY <2>1 DEF Shape
    <2>3. C[<<y, d>>] \in N BY <2>1, <2>2 DEF Shape
    <2> QED BY <2>2, <2>3
  <1>4. p \notin {x, s}
    BY <1>3, <1>0, <1>1, RBTreeAssumption DEF Shape
  <1>5. s # x
    BY <1>4, <1>0, <1>1, RBTreeAssumption DEF Shape
  <1>6. D = [C EXCEPT ![<<x, o>>] = C[<<s, dir>>], ![<<s, dir>>] = x, ![<<p, pd>>] = s]
    BY DEF Turn
  <1>7. C[<<s, dir>>] \in (N \ {Fake}) \cup {Nil} BY <1>1 DEF Shape
  <1>8. C \in [N \X Dir -> (N \ {Fake}) \cup {Nil}] BY DEF Shape
  <1> HIDE DEF o, s, D
  <1>9. D \in [N \X Dir -> (N \ {Fake}) \cup {Nil}] BY <1>1, <1>6, <1>7, <1>8, <1>0
  <1>10. /\ D[<<p, pd>>] = s /\ D[<<s, dir>>] = x /\ D[<<x, o>>] = C[<<s, dir>>]
         /\ D[<<x, dir>>] = C[<<x, dir>>] /\ D[<<s, o>>] = C[<<s, o>>]
    BY <1>0, <1>1, <1>4, <1>5, <1>6, <1>8
  <1>11. \A y \in N : \A d \in Dir :
              y \notin {x, s} /\ (y # p \/ d # pd) => D[<<y, d>>] = C[<<y, d>>]
    BY <1>0, <1>1, <1>4, <1>5, <1>6, <1>8
  <1> QED BY <1>1, <1>4, <1>5, <1>9, <1>10, <1>11, <1>12 DEF o, s, D, IsTurn

(* A turn keeps everything hanging in one place below the fake root. *)
LEMMA TurnShape ==
  ASSUME NEW N, NEW C, Shape(N, C), NEW D, NEW x, NEW s, NEW dir, NEW p, NEW pd,
         IsTurn(N, C, D, x, s, dir, p, pd)
  PROVE  Shape(N, D)
  <1> DEFINE o == Other(dir)
  <1>1. /\ x \in N \ {Fake} /\ s \in N \ {Fake} /\ p \in N /\ dir \in Dir /\ pd \in Dir
        /\ s # x /\ p # x /\ p # s /\ C[<<p, pd>>] = x /\ C[<<x, o>>] = s
        /\ D \in [N \X Dir -> (N \ {Fake}) \cup {Nil}]
        /\ D[<<p, pd>>] = s /\ D[<<s, dir>>] = x /\ D[<<x, o>>] = C[<<s, dir>>]
        /\ D[<<x, dir>>] = C[<<x, dir>>] /\ D[<<s, o>>] = C[<<s, o>>]
        /\ \A y \in N : \A d \in Dir :
              y \notin {x, s} /\ (y # p \/ d # pd) => D[<<y, d>>] = C[<<y, d>>]
    BY DEF IsTurn
  <1>0. o \in Dir /\ o # dir /\ \A e \in Dir : e = dir \/ e = o BY <1>1, Dirs
  <1>2. x # Nil /\ s # Nil BY <1>1, RBTreeAssumption DEF Shape
  <1>6. \A y \in N : \A d \in Dir : C[<<y, d>>] = x => y = p /\ d = pd
    BY <1>0, <1>1, <1>2 DEF Shape
  <1> HIDE DEF o
  <1>3. D[<<Fake, "left">>] = Nil
    BY <1>1, <1>2 DEF Shape, Dir
  <1>4. ASSUME NEW y \in N, NEW z \in N, NEW d \in Dir, NEW e \in Dir,
               D[<<y, d>>] = D[<<z, e>>], D[<<y, d>>] # Nil
        PROVE  y = z /\ d = e
    <2> DEFINE From(a, c) == IF <<a, c>> = <<p, pd>> THEN <<x, o>>
                             ELSE IF <<a, c>> = <<s, dir>> THEN <<p, pd>>
                             ELSE IF <<a, c>> = <<x, o>> THEN <<s, dir>> ELSE <<a, c>>
    <2>1. \A a \in N : \A c \in Dir : D[<<a, c>>] = C[From(a, c)]
      BY <1>0, <1>1
    <2>2. \A a, b \in N : \A c, f \in Dir : From(a, c) = From(b, f) => a = b /\ c = f
      BY <1>0, <1>1
    <2>3. \A a \in N : \A c \in Dir : From(a, c) \in N \X Dir
      BY <1>0, <1>1
    <2>4. \A v, w \in N \X Dir : C[v] = C[w] /\ C[v] # Nil => v = w
      BY DEF Shape
    <2> HIDE DEF From
    <2>5. From(y, d) = From(z, e) BY <1>4, <2>1, <2>3, <2>4
    <2> QED BY <2>2, <2>5
  <1>5. ASSUME NEW S \in SUBSET N, Fake \in S,
               \A y \in S : \A d \in Dir : D[<<y, d>>] = Nil \/ D[<<y, d>>] \in S
        PROVE  S = N
    <2> DEFINE T == IF s \in S THEN S ELSE S \ {x}
    <2>1. /\ T \in SUBSET N /\ Fake \in T /\ T \subseteq S /\ S \ {x} \subseteq T
          /\ s \in S => T = S
          /\ s \notin S => x \notin T
      BY <1>1, <1>5
    <2> HIDE DEF T
    <2>2. ASSUME NEW y \in T, NEW d \in Dir, C[<<y, d>>] # Nil PROVE C[<<y, d>>] \in T
      <3>1. s \in S => x \in S BY <1>0, <1>1, <1>2, <1>5
      <3>2. p \in S => s \in S BY <1>0, <1>1, <1>2, <1>5
      <3>3. y \in S /\ y \in N BY <2>1
      <3>4. CASE y \notin {x, s} /\ (y # p \/ d # pd)
        <4>1. C[<<y, d>>] \in S BY <1>1, <1>5, <2>2, <3>3, <3>4
        <4>2. C[<<y, d>>] # x BY <1>6, <3>3, <3>4
        <4> QED BY <2>1, <4>1, <4>2
      <3>5. CASE y = p /\ d = pd
        BY <1>1, <2>1, <3>1, <3>2, <3>3, <3>5
      <3>6. CASE y = x
        <4>1. s \in S BY <2>1, <3>6
        <4>2. D[<<x, dir>>] \in S \cup {Nil} BY <1>1, <3>3, <3>6, <1>5
        <4> QED BY <1>0, <1>1, <2>1, <2>2, <3>1, <3>6, <4>1, <4>2
      <3>7. CASE y = s
        <4>1. s \in S /\ x \in S BY <3>1, <3>3, <3>7
        <4>2. D[<<x, o>>] \in S \cup {Nil} /\ D[<<s, o>>] \in S \cup {Nil} BY <1>0, <4>1, <1>5
        <4> QED BY <1>0, <1>1, <2>1, <2>2, <3>7, <4>1, <4>2
      <3> QED BY <3>4, <3>5, <3>6, <3>7
    <2>3. T = N
      <3>1. \A y \in T : \A d \in Dir : C[<<y, d>>] = Nil \/ C[<<y, d>>] \in T BY <2>2
      <3> QED BY <2>1, <3>1 DEF Shape
    <2> QED BY <2>1, <2>3
  <1> QED BY SMTT(30), <1>1, <1>3, <1>4, <1>5 DEF Shape

(* The intervals after a turn: s takes x's place, x keeps the side of s it  *)
(* is on.                                                                   *)
TurnSpans(I, x, s, dir) == [I EXCEPT ![s] = I[x], ![x] = I[x] \cap Beside(s, dir)]

(* A turn keeps the order of the keys. *)
LEMMA TurnOrder ==
  ASSUME NEW N, NEW C, Shape(N, C), NEW D, NEW x, NEW s, NEW dir, NEW p, NEW pd,
         IsTurn(N, C, D, x, s, dir, p, pd), NEW I, Spans(N, C, I)
  PROVE  Spans(N, D, TurnSpans(I, x, s, dir))
  <1> DEFINE o == Other(dir)
             J == TurnSpans(I, x, s, dir)
  <1>1. /\ x \in N \ {Fake} /\ s \in N \ {Fake} /\ p \in N /\ dir \in Dir /\ pd \in Dir
        /\ s # x /\ p # x /\ p # s /\ C[<<p, pd>>] = x /\ C[<<x, o>>] = s
        /\ D \in [N \X Dir -> (N \ {Fake}) \cup {Nil}]
        /\ D[<<p, pd>>] = s /\ D[<<s, dir>>] = x /\ D[<<x, o>>] = C[<<s, dir>>]
        /\ D[<<x, dir>>] = C[<<x, dir>>] /\ D[<<s, o>>] = C[<<s, o>>]
        /\ \A y \in N : \A d \in Dir :
              y \notin {x, s} /\ (y # p \/ d # pd) => D[<<y, d>>] = C[<<y, d>>]
    BY DEF IsTurn
  <1>0. o \in Dir /\ o # dir /\ Other(o) = dir /\ \A e \in Dir : e = dir \/ e = o BY <1>1, Dirs
  <1>2. x # Nil /\ s # Nil /\ x \in Point /\ s \in Point /\ N \subseteq Point \cup {Fake}
    BY <1>1, RBTreeAssumption DEF Shape
  <1>4. /\ I \in [N -> SUBSET Point] /\ I[Fake] = Point
        /\ \A y \in N : \A d \in Dir : C[<<y, d>>] # Nil =>
             C[<<y, d>>] \in I[y] \cap Beside(y, d) /\ I[C[<<y, d>>]] = I[y] \cap Beside(y, d)
    BY DEF Spans
  <1>5. /\ J \in [N -> SUBSET Point] /\ J[s] = I[x] /\ J[x] = I[x] \cap Beside(s, dir)
        /\ \A y \in N : y \notin {x, s} => J[y] = I[y]
    BY <1>1, <1>4 DEF TurnSpans
  <1> HIDE DEF o, J
  <1>3. /\ \A y \in N : \A d \in Dir : C[<<y, d>>] = x => y = p /\ d = pd
        /\ \A y \in N : \A d \in Dir : C[<<y, d>>] = s => y = x /\ d = o
    <2>1. \A v, w \in N : \A d, e \in Dir :
            C[<<v, d>>] = C[<<w, e>>] /\ C[<<v, d>>] # Nil => v = w /\ d = e
      BY DEF Shape
    <2>2. \A y \in N : \A d \in Dir : C[<<y, d>>] = C[<<p, pd>>] => y = p /\ d = pd
      BY <1>1, <1>2, <2>1
    <2>3. \A y \in N : \A d \in Dir : C[<<y, d>>] = C[<<x, o>>] => y = x /\ d = o
      BY <1>0, <1>1, <1>2, <2>1
    <2> QED BY <1>1, <2>2, <2>3
  <1>6. x \in I[x] /\ s \in I[x] /\ s \in Beside(x, o) /\ I[s] = I[x] \cap Beside(x, o)
        /\ I[x] = I[p] \cap Beside(p, pd)
    <2>1. C[<<p, pd>>] # Nil /\ C[<<x, o>>] # Nil BY <1>1, <1>2
    <2>2. x \in I[p] \cap Beside(p, pd) /\ I[x] = I[p] \cap Beside(p, pd) BY <1>1, <1>4, <2>1
    <2>3. s \in I[x] \cap Beside(x, o) /\ I[s] = I[x] \cap Beside(x, o)
      BY <1>0, <1>1, <1>4, <2>1
    <2> QED BY <2>2, <2>3
  <1>7. x \in Beside(s, dir) /\ x \in Beside(p, pd) /\ s \in Beside(p, pd)
    <2>1. x \in Beside(s, dir) BY <1>0, <1>1, <1>2, <1>6, Sides
    <2>2. x \in Beside(p, pd) BY <1>1, <1>2, <1>4
    <2> QED BY <1>6, <2>1, <2>2
  <1>8. /\ Beside(x, dir) \subseteq Beside(s, dir)
        /\ Beside(s, o) \subseteq Beside(x, o)
    <2>1. \A k \in Beside(x, dir) : k \in Beside(s, dir)
      BY <1>0, <1>1, <1>2, <1>7, Sides, BesideType
    <2>2. \A k \in Beside(s, o) : k \in Beside(x, o)
      BY <1>0, <1>1, <1>2, <1>6, Sides, BesideType
    <2> QED BY <2>1, <2>2
  <1>9. ASSUME NEW y \in N, NEW d \in Dir, D[<<y, d>>] # Nil
        PROVE  D[<<y, d>>] \in J[y] \cap Beside(y, d)
               /\ J[D[<<y, d>>]] = J[y] \cap Beside(y, d)
    <2>1. CASE y \notin {x, s} /\ (y # p \/ d # pd)
      <3>1. D[<<y, d>>] = C[<<y, d>>] /\ D[<<y, d>>] \in N \ {x, s} /\ J[y] = I[y]
        BY <1>1, <1>3, <1>5, <1>9, <2>1
      <3>2. J[D[<<y, d>>]] = I[C[<<y, d>>]] BY <3>1, <1>5
      <3> QED BY <3>1, <3>2, <1>4, <1>9
    <2>2. CASE y = p /\ d = pd
      BY <1>1, <1>5, <1>6, <1>7, <2>2
    <2>3. CASE y = s /\ d = dir
      BY <1>1, <1>5, <1>6, <1>7, <2>3
    <2>4. CASE y = s /\ d = o
      <3>1. D[<<y, d>>] = C[<<s, o>>] /\ C[<<s, o>>] \in N \ {x, s}
        BY <1>0, <1>1, <1>3, <1>9, <2>4
      <3>2. J[D[<<y, d>>]] = I[C[<<s, o>>]] /\ C[<<s, o>>] # Nil BY <3>1, <1>5, <1>9
      <3>3. C[<<s, o>>] \in I[s] \cap Beside(s, o) /\ I[C[<<s, o>>]] = I[s] \cap Beside(s, o)
        BY <1>0, <1>1, <1>4, <3>2
      <3>4. I[s] \cap Beside(s, o) = I[x] \cap Beside(s, o) BY <1>6, <1>8
      <3> QED BY <3>1, <3>2, <3>3, <3>4, <2>4, <1>5
    <2>5. CASE y = x /\ d = dir
      <3>1. D[<<y, d>>] = C[<<x, dir>>] /\ C[<<x, dir>>] \in N \ {x, s}
        BY <1>0, <1>1, <1>3, <1>9, <2>5
      <3>2. J[D[<<y, d>>]] = I[C[<<x, dir>>]] /\ C[<<x, dir>>] # Nil BY <3>1, <1>5, <1>9
      <3>3. C[<<x, dir>>] \in I[x] \cap Beside(x, dir) /\ I[C[<<x, dir>>]] = I[x] \cap Beside(x, dir)
        BY <1>0, <1>1, <1>4, <3>2
      <3>4. J[x] \cap Beside(x, dir) = I[x] \cap Beside(x, dir) BY <1>5, <1>8
      <3> QED BY <3>1, <3>2, <3>3, <3>4, <2>5, <1>5
    <2>6. CASE y = x /\ d = o
      <3>1. D[<<y, d>>] = C[<<s, dir>>] /\ C[<<s, dir>>] \in N \ {x, s}
        BY <1>0, <1>1, <1>3, <1>9, <2>6
      <3>2. J[D[<<y, d>>]] = I[C[<<s, dir>>]] /\ C[<<s, dir>>] # Nil BY <3>1, <1>5, <1>9
      <3>3. C[<<s, dir>>] \in I[s] \cap Beside(s, dir) /\ I[C[<<s, dir>>]] = I[s] \cap Beside(s, dir)
        BY <1>0, <1>1, <1>4, <3>2
      <3>4. I[s] \cap Beside(s, dir) = J[x] \cap Beside(x, o) BY <1>5, <1>6
      <3> QED BY <3>1, <3>2, <3>3, <3>4, <2>6, <1>5
    <2> QED BY <1>0, <2>1, <2>2, <2>3, <2>4, <2>5, <2>6
  <1>10. J[Fake] = Point BY <1>1, <1>4, <1>5 DEF Shape
  <1> QED BY <1>5, <1>9, <1>10 DEF Spans, J

(* b counts the black keys above every key, itself included, from some     *)
(* number on; h of them are above every place for a key.                   *)
Even(N, C, R, b, h) ==
  /\ b \in [N -> Int] /\ h \in Int
  /\ \A y \in N \ {Fake} : \A d \in Dir :
       /\ b[y] <= h
       /\ C[<<y, d>>] = Nil => b[y] = h
       /\ C[<<y, d>>] # Nil /\ C[<<y, d>>] \in R => b[C[<<y, d>>]] = b[y]
       /\ C[<<y, d>>] # Nil /\ C[<<y, d>>] \notin R => b[C[<<y, d>>]] = b[y] + 1

(* Where each child is after a turn. *)
LEMMA TurnFrame ==
  ASSUME NEW N, NEW C, Shape(N, C), NEW D, NEW x, NEW s, NEW dir, NEW p, NEW pd,
         IsTurn(N, C, D, x, s, dir, p, pd), NEW y \in N, NEW d \in Dir
  PROVE  \/ y = p /\ d = pd /\ D[<<y, d>>] = s /\ C[<<y, d>>] = x
         \/ y = s /\ d = dir /\ D[<<y, d>>] = x
         \/ /\ y = s /\ d = Other(dir)
            /\ D[<<y, d>>] = C[<<s, Other(dir)>>] /\ D[<<y, d>>] \notin {x, s}
         \/ y = x /\ d = dir /\ D[<<y, d>>] = C[<<x, dir>>] /\ D[<<y, d>>] \notin {x, s}
         \/ /\ y = x /\ d = Other(dir)
            /\ D[<<y, d>>] = C[<<s, dir>>] /\ D[<<y, d>>] \notin {x, s}
         \/ y \notin {x, s} /\ D[<<y, d>>] = C[<<y, d>>] /\ D[<<y, d>>] \notin {x, s}
  <1> DEFINE o == Other(dir)
  <1>1. /\ x \in N \ {Fake} /\ s \in N \ {Fake} /\ p \in N /\ dir \in Dir /\ pd \in Dir
        /\ s # x /\ p # x /\ p # s /\ C[<<p, pd>>] = x /\ C[<<x, o>>] = s
        /\ D[<<p, pd>>] = s /\ D[<<s, dir>>] = x /\ D[<<x, o>>] = C[<<s, dir>>]
        /\ D[<<x, dir>>] = C[<<x, dir>>] /\ D[<<s, o>>] = C[<<s, o>>]
        /\ \A z \in N : \A e \in Dir :
              z \notin {x, s} /\ (z # p \/ e # pd) => D[<<z, e>>] = C[<<z, e>>]
    BY DEF IsTurn
  <1>0. o \in Dir /\ o # dir /\ \A e \in Dir : e = dir \/ e = o BY <1>1, Dirs
  <1>2. x # Nil /\ s # Nil BY <1>1, RBTreeAssumption DEF Shape
  <1> HIDE DEF o
  <1>3. /\ \A z \in N : \A e \in Dir : C[<<z, e>>] = x => z = p /\ e = pd
        /\ \A z \in N : \A e \in Dir : C[<<z, e>>] = s => z = x /\ e = o
    <2>1. \A v, w \in N : \A f, e \in Dir :
            C[<<v, f>>] = C[<<w, e>>] /\ C[<<v, f>>] # Nil => v = w /\ f = e
      BY DEF Shape
    <2>2. \A z \in N : \A e \in Dir : C[<<z, e>>] = C[<<p, pd>>] => z = p /\ e = pd
      BY <1>1, <1>2, <2>1
    <2>3. \A z \in N : \A e \in Dir : C[<<z, e>>] = C[<<x, o>>] => z = x /\ e = o
      BY <1>0, <1>1, <1>2, <2>1
    <2> QED BY <1>1, <2>2, <2>3
  <1>4. CASE y = s BY <1>0, <1>1, <1>3, <1>4 DEF o
  <1>5. CASE y = x BY <1>0, <1>1, <1>3, <1>5 DEF o
  <1>6. CASE y = p /\ d = pd BY <1>1, <1>6
  <1>7. CASE y \notin {x, s} /\ (y # p \/ d # pd) BY <1>1, <1>3, <1>7
  <1> QED BY <1>4, <1>5, <1>6, <1>7

(* A red child that is turned above its parent takes its colour; the       *)
(* parent is red then.                                                     *)
LEMMA TurnEven ==
  ASSUME NEW N, NEW C, Shape(N, C), NEW D, NEW x, NEW s, NEW dir, NEW p, NEW pd,
         IsTurn(N, C, D, x, s, dir, p, pd), NEW R, NEW b, NEW h, Even(N, C, R, b, h), s \in R,
         NEW Q, Q = IF x \in R THEN R ELSE (R \cup {x}) \ {s}
  PROVE  Even(N, D, Q, b, h)
  <1>1. /\ x \in N \ {Fake} /\ s \in N \ {Fake} /\ p \in N /\ dir \in Dir /\ pd \in Dir
        /\ s # x /\ p # x /\ p # s /\ C[<<p, pd>>] = x /\ C[<<x, Other(dir)>>] = s
        /\ Other(dir) \in Dir
    BY Dirs DEF IsTurn
  <1>2. x # Nil /\ s # Nil BY <1>1, RBTreeAssumption DEF Shape
  <1>3. /\ x \in Q /\ (s \in Q <=> x \in R)
        /\ \A c : c \notin {x, s} => (c \in Q <=> c \in R)
    BY <1>1
  <1>4. /\ b \in [N -> Int] /\ h \in Int
        /\ \A y \in N \ {Fake} : \A d \in Dir :
             /\ b[y] <= h
             /\ C[<<y, d>>] = Nil => b[y] = h
             /\ C[<<y, d>>] # Nil /\ C[<<y, d>>] \in R => b[C[<<y, d>>]] = b[y]
             /\ C[<<y, d>>] # Nil /\ C[<<y, d>>] \notin R => b[C[<<y, d>>]] = b[y] + 1
    BY DEF Even
  <1>5. b[s] = b[x] BY <1>1, <1>2, <1>4
  <1>6. ASSUME NEW y \in N \ {Fake}, NEW d \in Dir
        PROVE  /\ b[y] <= h
               /\ D[<<y, d>>] = Nil => b[y] = h
               /\ D[<<y, d>>] # Nil /\ D[<<y, d>>] \in Q => b[D[<<y, d>>]] = b[y]
               /\ D[<<y, d>>] # Nil /\ D[<<y, d>>] \notin Q => b[D[<<y, d>>]] = b[y] + 1
    <2>1. CASE y = p /\ d = pd /\ D[<<y, d>>] = s BY <1>1, <1>2, <1>3, <1>4, <1>5, <2>1
    <2>2. CASE y = s /\ d = dir /\ D[<<y, d>>] = x BY <1>1, <1>2, <1>3, <1>4, <1>5, <2>2
    <2>3. CASE /\ y = s /\ d = Other(dir)
               /\ D[<<y, d>>] = C[<<s, Other(dir)>>] /\ D[<<y, d>>] \notin {x, s}
      BY <1>1, <1>3, <1>4, <2>3
    <2>4. CASE y = x /\ d = dir /\ D[<<y, d>>] = C[<<x, dir>>] /\ D[<<y, d>>] \notin {x, s}
      BY <1>1, <1>3, <1>4, <2>4
    <2>5. CASE /\ y = x /\ d = Other(dir)
               /\ D[<<y, d>>] = C[<<s, dir>>] /\ D[<<y, d>>] \notin {x, s}
      BY <1>1, <1>3, <1>4, <1>5, <2>5
    <2>6. CASE y \notin {x, s} /\ D[<<y, d>>] = C[<<y, d>>] /\ D[<<y, d>>] \notin {x, s}
      BY <1>3, <1>4, <2>6
    <2> QED BY TurnFrame, <2>1, <2>2, <2>3, <2>4, <2>5, <2>6
  <1> QED BY <1>4, <1>6 DEF Even

(* removal, a nephew w of the node away from it is red: s takes the place  *)
(* of p, the node and s are red then, p and w black.                       *)
LEMMA TurnPush ==
  ASSUME NEW N, NEW C, Shape(N, C), NEW D, NEW x, NEW s, NEW dir, NEW p, NEW pd,
         IsTurn(N, C, D, x, s, dir, p, pd), NEW R, NEW b, NEW h, Even(N, C, R, b, h),
         x \in R \/ p = Fake, s \notin R, NEW node, node = C[<<x, dir>>], node # Nil,
         node \notin R, NEW w, w = C[<<s, Other(dir)>>], w # Nil, w \in R
  PROVE  Even(N, D, (R \cup {s, node}) \ {x, w}, [b EXCEPT ![x] = b[s], ![s] = b[x]], h)
  <1> DEFINE Q == (R \cup {s, node}) \ {x, w}
             f == [b EXCEPT ![x] = b[s], ![s] = b[x]]
             o == Other(dir)
  <1>1. /\ x \in N \ {Fake} /\ s \in N \ {Fake} /\ p \in N /\ dir \in Dir /\ pd \in Dir
        /\ s # x /\ p # x /\ p # s /\ C[<<p, pd>>] = x /\ C[<<x, o>>] = s
        /\ o \in Dir /\ o # dir /\ C[<<s, o>>] = w /\ C[<<x, dir>>] = node
    BY Dirs DEF IsTurn
  <1>2. x # Nil /\ s # Nil BY <1>1, RBTreeAssumption DEF Shape
  <1>3. \A v, z \in N : \A d, e \in Dir :
          C[<<v, d>>] = C[<<z, e>>] /\ C[<<v, d>>] # Nil => v = z /\ d = e
    BY DEF Shape
  <1>4. /\ \A v \in N : \A d \in Dir : C[<<v, d>>] = node => v = x /\ d = dir
        /\ \A v \in N : \A d \in Dir : C[<<v, d>>] = w => v = s /\ d = o
    BY <1>1, <1>3
  <1>5. node \in N \ {Fake} /\ w \in N \ {Fake} BY <1>1 DEF Shape
  <1>6. node \notin {x, s, w} /\ w \notin {x, s} 
    <2>1. node # x /\ node # s BY <1>1, <1>4
    <2>2. w # x /\ w # s /\ w # node BY <1>1, <1>4
    <2> QED BY <2>1, <2>2
  <1>7. /\ s \in Q /\ node \in Q /\ x \notin Q /\ w \notin Q
        /\ \A c : c \notin {x, s, node, w} => (c \in Q <=> c \in R)
    BY <1>1, <1>6
  <1>8. /\ b \in [N -> Int] /\ h \in Int
        /\ \A y \in N \ {Fake} : \A d \in Dir :
             /\ b[y] <= h
             /\ C[<<y, d>>] = Nil => b[y] = h
             /\ C[<<y, d>>] # Nil /\ C[<<y, d>>] \in R => b[C[<<y, d>>]] = b[y]
             /\ C[<<y, d>>] # Nil /\ C[<<y, d>>] \notin R => b[C[<<y, d>>]] = b[y] + 1
    BY DEF Even
  <1>9. /\ f \in [N -> Int] /\ f[x] = b[s] /\ f[s] = b[x]
        /\ \A y \in N : y \notin {x, s} => f[y] = b[y]
    BY <1>1, <1>8
  <1> HIDE DEF Q, f, o
  <1>10. b[s] = b[x] + 1 /\ b[node] = b[x] + 1 /\ b[w] = b[s]
    BY <1>1, <1>2, <1>8
  <1>11. ASSUME NEW y \in N \ {Fake}, NEW d \in Dir
        PROVE  /\ f[y] <= h
               /\ D[<<y, d>>] = Nil => f[y] = h
               /\ D[<<y, d>>] # Nil /\ D[<<y, d>>] \in Q => f[D[<<y, d>>]] = f[y]
               /\ D[<<y, d>>] # Nil /\ D[<<y, d>>] \notin Q => f[D[<<y, d>>]] = f[y] + 1
    <2>0. f[y] <= h
      <3>1. b[x] <= h /\ b[s] <= h /\ b[y] <= h BY <1>1, <1>8
      <3> QED BY <1>9, <3>1
    <2>1. CASE y = p /\ d = pd /\ D[<<y, d>>] = s
      <3>1. f[y] = b[y] /\ b[x] = b[y] BY <1>1, <1>2, <1>8, <1>9, <2>1
      <3> QED BY <3>1, <2>0, <2>1, <1>2, <1>7, <1>9
    <2>2. CASE y = s /\ d = dir /\ D[<<y, d>>] = x
      BY <1>2, <1>7, <1>8, <1>9, <1>10, <2>0, <2>2
    <2>3. CASE y = s /\ d = o /\ D[<<y, d>>] = w
      BY <1>5, <1>6, <1>7, <1>8, <1>9, <1>10, <2>0, <2>3
    <2>4. CASE y = x /\ d = dir /\ D[<<y, d>>] = node
      BY <1>5, <1>6, <1>7, <1>8, <1>9, <1>10, <2>0, <2>4
    <2>5. CASE y = x /\ d = o /\ D[<<y, d>>] = C[<<s, dir>>] /\ D[<<y, d>>] \notin {x, s}
      <3>1. D[<<y, d>>] \notin {node, w} BY <1>1, <1>4, <2>5
      <3>2. D[<<y, d>>] # Nil => D[<<y, d>>] \in N BY <1>1, <2>5 DEF Shape
      <3>3. D[<<y, d>>] # Nil => f[D[<<y, d>>]] = b[C[<<s, dir>>]] BY <1>9, <2>5, <3>2
      <3> QED BY <1>1, <1>7, <1>8, <1>9, <2>0, <2>5, <3>1, <3>3
    <2>6. CASE y \notin {x, s} /\ D[<<y, d>>] = C[<<y, d>>] /\ D[<<y, d>>] \notin {x, s}
      <3>1. D[<<y, d>>] \notin {node, w} BY <1>4, <2>6
      <3>2. D[<<y, d>>] # Nil => D[<<y, d>>] \in N BY <2>6 DEF Shape
      <3>3. D[<<y, d>>] # Nil => f[D[<<y, d>>]] = b[C[<<y, d>>]] BY <1>9, <2>6, <3>2
      <3> QED BY <1>7, <1>8, <1>9, <2>0, <2>6, <3>1, <3>3
    <2> QED BY TurnFrame, <2>1, <2>2, <2>3, <2>4, <2>5, <2>6 DEF o
  <1> QED BY <1>8, <1>9, <1>11 DEF Even, Q, f

(* All but the fake root hang somewhere. *)
LEMMA HasParent ==
  ASSUME NEW N, NEW C, Shape(N, C), NEW c \in N \ {Fake}
  PROVE  \E y \in N : \E d \in Dir : C[<<y, d>>] = c
  <1>1. N \ {c} \in SUBSET N /\ N \ {c} # N /\ Fake \in N \ {c} BY DEF Shape
  <1>2. PICK y \in N \ {c}, d \in Dir : C[<<y, d>>] # Nil /\ C[<<y, d>>] \notin N \ {c}
    BY <1>1 DEF Shape
  <1>3. C[<<y, d>>] \in N BY <1>2 DEF Shape
  <1> QED BY <1>2, <1>3

(* Every key is in its own interval. *)
LEMMA SpanOwn ==
  ASSUME NEW N, NEW C, Shape(N, C), NEW I, Spans(N, C, I), NEW c \in N \ {Fake}
  PROVE  c \in I[c]
  <1>1. PICK y \in N, d \in Dir : C[<<y, d>>] = c BY HasParent
  <1>2. c # Nil BY RBTreeAssumption DEF Shape
  <1> QED BY <1>1, <1>2 DEF Spans

(* The keys under y are those in its span. *)
Held(C, S) == \A x \in S : \A d \in Dir : C[<<x, d>>] = Nil \/ C[<<x, d>>] \in S
(* What is at y or below it. *)
Sub(N, C, y) == {z \in N : \A S \in SUBSET N : y \in S /\ Held(C, S) => z \in S}

(* What is below y is in y's interval. *)
LEMMA SubSpan ==
  ASSUME NEW N, NEW C, Shape(N, C), NEW I, Spans(N, C, I), NEW y \in N \ {Fake}
  PROVE  Sub(N, C, y) \subseteq I[y]
  <1> DEFINE S == {z \in N \ {Fake} : z \in I[z] /\ I[z] \subseteq I[y]}
  <1>1. y \in S BY SpanOwn
  <1>2. ASSUME NEW z \in S, NEW d \in Dir, C[<<z, d>>] # Nil PROVE C[<<z, d>>] \in S
    <2>1. z \in N /\ I[z] \subseteq I[y] OBVIOUS
    <2>2. C[<<z, d>>] \in N \ {Fake} BY <1>2, <2>1 DEF Shape
    <2>3. C[<<z, d>>] \in I[C[<<z, d>>]] /\ I[C[<<z, d>>]] \subseteq I[z] BY <1>2, <2>1 DEF Spans
    <2> QED BY <2>1, <2>2, <2>3
  <1>3. S \in SUBSET N /\ Held(C, S)
    <2>1. \A z \in S : \A d \in Dir : C[<<z, d>>] = Nil \/ C[<<z, d>>] \in S BY <1>2
    <2> HIDE DEF S
    <2>2. Held(C, S) BY <2>1 DEF Held
    <2> QED BY <2>2 DEF S
  <1>4. \A z \in S : z \in I[y] OBVIOUS
  <1> HIDE DEF S
  <1> QED BY <1>1, <1>3, <1>4 DEF Sub

(* What is strictly below y is below one of its children. *)
LEMMA SubUnfold ==
  ASSUME NEW N, NEW C, Shape(N, C), NEW y \in N, NEW z \in Sub(N, C, y), z # y
  PROVE  \E d \in Dir : C[<<y, d>>] # Nil /\ z \in Sub(N, C, C[<<y, d>>])
  <1> DEFINE kids == {d \in Dir : C[<<y, d>>] # Nil}
             S == {y} \cup UNION {Sub(N, C, C[<<y, d>>]) : d \in kids}
  <1>1. \A d \in kids : C[<<y, d>>] \in N BY DEF Shape
  <1>2. \A d \in kids : C[<<y, d>>] \in Sub(N, C, C[<<y, d>>]) BY <1>1 DEF Sub
  <1>3. ASSUME NEW u, NEW v \in Sub(N, C, u), NEW d \in Dir, C[<<v, d>>] # Nil
        PROVE  C[<<v, d>>] \in Sub(N, C, u)
    <2>1. C[<<v, d>>] \in N BY <1>3 DEF Shape, Sub
    <2>2. \A T \in SUBSET N : u \in T /\ Held(C, T) => C[<<v, d>>] \in T
      BY <1>3 DEF Sub, Held
    <2> QED BY <2>1, <2>2 DEF Sub
  <1>4. S \in SUBSET N BY DEF Sub
  <1>5. ASSUME NEW v \in S, NEW d \in Dir, C[<<v, d>>] # Nil PROVE C[<<v, d>>] \in S
    <2>1. CASE v = y
      <3>1. d \in kids BY <1>5, <2>1
      <3> QED BY <1>2, <2>1, <3>1
    <2>2. CASE v # y
      <3>1. PICK e \in kids : v \in Sub(N, C, C[<<y, e>>]) BY <2>2
      <3>2. C[<<v, d>>] \in Sub(N, C, C[<<y, e>>]) BY <1>3, <1>5, <3>1
      <3> QED BY <3>1, <3>2
    <2> QED BY <2>1, <2>2
  <1>6. Held(C, S)
    <2>1. \A v \in S : \A d \in Dir : C[<<v, d>>] = Nil \/ C[<<v, d>>] \in S BY <1>5
    <2> HIDE DEF S
    <2> QED BY <2>1 DEF Held
  <1>7. y \in S OBVIOUS
  <1>8. z \in S
    <2> HIDE DEF S
    <2> QED BY <1>4, <1>6, <1>7 DEF Sub
  <1> QED BY <1>8

(* A key in y's interval is below y: a walk down for it never leaves. *)
LEMMA SpanSub ==
  ASSUME NEW N, NEW C, Shape(N, C), NEW I, Spans(N, C, I), NEW y \in N,
         NEW z \in N \ {Fake}, z \in I[y]
  PROVE  z \in Sub(N, C, y)
  <1> DEFINE S == {u \in N : \A k \in N \ {Fake} : k \in I[u] => k \in Sub(N, C, u)}
  <1>1. S \in SUBSET N OBVIOUS
  <1>2. Fake \in S
    <2>1. Fake \in N /\ \A T \in SUBSET N : Fake \in T /\ Held(C, T) => T = N
      BY DEF Shape, Held
    <2> QED BY <2>1 DEF Sub
  <1>3. ASSUME NEW u \in S, NEW d \in Dir, C[<<u, d>>] # Nil PROVE C[<<u, d>>] \in S
    <2>1. C[<<u, d>>] \in N BY <1>3 DEF Shape
    <2>2. ASSUME NEW k \in N \ {Fake}, k \in I[C[<<u, d>>]]
          PROVE  k \in Sub(N, C, C[<<u, d>>])
      <3>1. k \in I[u] /\ k \in Beside(u, d) BY <1>3, <2>2 DEF Spans
      <3>2. k \in Sub(N, C, u) BY <3>1
      <3>3. k \in Point /\ (u = Fake \/ u \in Point) BY DEF Shape
      <3>4. k # u BY <3>1, <3>3, Sides
      <3>5. PICK e \in Dir : C[<<u, e>>] # Nil /\ k \in Sub(N, C, C[<<u, e>>])
        BY <3>2, <3>4, SubUnfold
      <3>6. C[<<u, e>>] \in N \ {Fake} BY <3>5 DEF Shape
      <3>7. k \in I[C[<<u, e>>]] BY <3>5, <3>6, SubSpan
      <3>8. k \in Beside(u, e) BY <3>5, <3>7 DEF Spans
      <3>9. CASE u = Fake
        <4>1. e = "right" /\ d = "right" BY <1>3, <3>5, <3>9 DEF Shape, Dir
        <4> QED BY <3>5, <4>1
      <3>10. CASE u \in Point
        <4>1. e = d BY <3>1, <3>3, <3>4, <3>8, <3>10, Sides
        <4> QED BY <3>5, <4>1
      <3> QED BY <3>3, <3>9, <3>10
    <2> QED BY <2>1, <2>2
  <1>4. \A u \in S : \A d \in Dir : C[<<u, d>>] = Nil \/ C[<<u, d>>] \in S BY <1>3
  <1>5. S = N
    <2> HIDE DEF S
    <2> QED BY <1>1, <1>2, <1>4 DEF Shape
  <1> QED BY <1>5

(* No key is on a side of a key where it has no child. *)
LEMMA EmptySlot ==
  ASSUME NEW N, NEW C, Shape(N, C), NEW I, Spans(N, C, I), NEW y \in N \ {Fake},
         NEW d \in Dir, C[<<y, d>>] = Nil, NEW z \in N, z \in I[y], z \in Beside(y, d)
  PROVE  FALSE
  <1>1. z \in Point /\ y \in Point /\ z # Fake
    BY BesideType, RBTreeAssumption DEF Shape
  <1>2. z \in Sub(N, C, y) BY <1>1, SpanSub
  <1>3. z # y BY <1>1, Sides
  <1>4. PICK e \in Dir : C[<<y, e>>] # Nil /\ z \in Sub(N, C, C[<<y, e>>])
    BY <1>2, <1>3, SubUnfold
  <1>5. C[<<y, e>>] \in N \ {Fake} BY <1>4 DEF Shape
  <1>6. z \in I[C[<<y, e>>]] BY <1>4, <1>5, SubSpan
  <1>7. z \in Beside(y, e) BY <1>4, <1>6 DEF Spans
  <1>8. e = d BY <1>1, <1>3, <1>7, Sides
  <1> QED BY <1>4, <1>8

(* A tree has these fields and no other. *)
Record(t) == t = [nodes |-> t.nodes, red |-> t.red, child |-> t.child]
(* A tree whose nodes hang together. *)
IsTree(t) == Record(t) /\ Shape(t.nodes, t.child) /\ t.red \subseteq t.nodes \ {Fake}
(* No red node has a red child. *)
RedRule(C, R) == \A x \in R : \A d \in Dir : C[<<x, d>>] \notin R
(* The evidence, local to each node, that the tree is in order, balanced    *)
(* and coloured right; the root may still be red.                           *)
Certified(t, I, b, h) ==
  /\ IsTree(t) /\ Spans(t.nodes, t.child, I) /\ Even(t.nodes, t.child, t.red, b, h)
  /\ RedRule(t.child, t.red)

(* The interval of a node and the paths of IsRedBlack say the same: y is    *)
(* below x if it is in x's interval.                                        *)
LEMMA UnderSpan ==
  ASSUME NEW t, IsTree(t), NEW I, Spans(t.nodes, t.child, I),
         NEW x \in t.nodes \ {Fake}, NEW y \in t.nodes \ {Fake}
  PROVE  <<x, y>> \in Under(t) <=> y \in I[x]
  <1> DEFINE N == t.nodes
             C == t.child
  <1>0. Shape(N, C) BY DEF IsTree
  <1>1. KeysOf(t) = N \ {Fake} BY DEF KeysOf
  <1>2. \A S \in SUBSET (N \ {Fake}) : Closed(t, S) <=> Held(C, S)
    BY DEF Closed, Held
  <1>3. <<x, y>> \in Under(t)
          <=> \A S \in SUBSET (N \ {Fake}) : Held(C, S) => (x \in S => y \in S)
    <2>1. <<x, y>> \in KeysOf(t) \X KeysOf(t) BY <1>1
    <2>2. <<x, y>> \in Under(t)
            <=> \A S \in {T \in SUBSET KeysOf(t) : Closed(t, T)} : x \in S => y \in S
      BY <2>1 DEF Under
    <2> QED BY <1>1, <1>2, <2>2
  <1> HIDE DEF N, C
  <1>4. ASSUME y \in I[x], NEW S \in SUBSET (N \ {Fake}), Held(C, S), x \in S PROVE y \in S
    <2>1. y \in Sub(N, C, x) BY <1>0, <1>4, SpanSub DEF N, C
    <2> QED BY <1>4, <2>1 DEF Sub
  <1>5. ASSUME \A S \in SUBSET (N \ {Fake}) : Held(C, S) => (x \in S => y \in S)
        PROVE  y \in I[x]
    <2>1. y \in Sub(N, C, x)
      <3> SUFFICES ASSUME NEW S \in SUBSET N, x \in S, Held(C, S) PROVE y \in S
        BY DEF Sub, N
      <3>1. Held(C, S \ {Fake})
        <4> SUFFICES ASSUME NEW z \in S \ {Fake}, NEW d \in Dir, C[<<z, d>>] # Nil
                     PROVE  C[<<z, d>>] \in S \ {Fake}
          BY DEF Held
        <4>1. C[<<z, d>>] \in S BY DEF Held
        <4>2. C[<<z, d>>] # Fake BY <1>0 DEF Shape
        <4> QED BY <4>1, <4>2
      <3> QED BY <1>5, <3>1 DEF N
    <2> QED BY <1>0, <2>1, SubSpan DEF N, C
  <1> QED BY <1>3, <1>4, <1>5

(* The interval of a child is that of its parent and one key less above it. *)
LEMMA SpanStep ==
  ASSUME NEW N, NEW C, Shape(N, C), NEW I, Spans(N, C, I), NEW x \in N \ {Fake}, NEW d \in Dir,
         NEW c, c = C[<<x, d>>], c # Nil, NEW y \in N \ {Fake}
  PROVE  /\ c \in N \ {Fake}
         /\ c \in I[y] <=> y = c \/ x \in I[y]
         /\ x \notin I[c]
  <1>1. c \in N \ {Fake} BY DEF Shape
  <1>2. c \in I[c] BY <1>1, SpanOwn
  <1>3. x \in Point BY DEF Shape
  <1>4. x \notin I[c] BY <1>3, Sides DEF Spans
  <1>5. ASSUME x \in I[y] PROVE c \in I[y]
    <2>1. x \in Sub(N, C, y) BY <1>5, SpanSub
    <2>2. \A S \in SUBSET N : y \in S /\ Held(C, S) => c \in S BY <2>1 DEF Sub, Held
    <2>3. c \in Sub(N, C, y) BY <1>1, <2>2 DEF Sub
    <2> QED BY <2>3, SubSpan
  <1>6. ASSUME c \in I[y], y # c PROVE x \in I[y]
    <2>1. c \in Sub(N, C, y) BY <1>1, <1>6, SpanSub
    <2>2. ASSUME NEW S \in SUBSET N, y \in S, Held(C, S), x \notin S PROVE FALSE
      <3>1. ASSUME NEW v \in S \ {c}, NEW e \in Dir, C[<<v, e>>] # Nil
            PROVE  C[<<v, e>>] \in S \ {c}
        <4>1. C[<<v, e>>] \in S BY <2>2, <3>1 DEF Held
        <4>2. v \in N /\ v # x BY <2>2
        <4>3. C[<<v, e>>] # C[<<x, d>>] BY <3>1, <4>2 DEF Shape
        <4> QED BY <4>1, <4>3
      <3>2. Held(C, S \ {c}) BY <3>1 DEF Held
      <3>3. S \ {c} \in SUBSET N /\ y \in S \ {c} BY <1>6, <2>2
      <3> QED BY <2>1, <3>2, <3>3 DEF Sub
    <2>3. x \in Sub(N, C, y) BY <2>2 DEF Sub
    <2> QED BY <2>3, SubSpan
  <1> QED BY <1>1, <1>2, <1>4, <1>5, <1>6

(* The evidence for the black heights counts the black nodes on the way, as *)
(* BlacksAbove does.                                                        *)
LEMMA BlackCount ==
  ASSUME NEW t, NEW I, NEW b, NEW h, Certified(t, I, b, h),
         NEW x \in t.nodes \ {Fake}, NEW d \in Dir, t.child[<<x, d>>] # Nil
  PROVE  LET B(y) == BlacksAbove(t, Under(t), y)
             c == t.child[<<x, d>>]
         IN /\ c \in t.nodes \ {Fake} /\ B(x) \in Nat /\ B(c) \in Nat
            /\ B(c) - B(x) = b[c] - b[x]
  <1> DEFINE N == t.nodes
             C == t.child
             R == t.red
             c == C[<<x, d>>]
             A(y) == {z \in (N \ {Fake}) \ R : y \in I[z]}
  <1>1. /\ Shape(N, C) /\ Spans(N, C, I) /\ R \subseteq N \ {Fake} /\ IsFiniteSet(N)
        /\ IsTree(t) /\ Even(N, C, R, b, h)
    BY DEF Certified, IsTree, Shape
  <1>2. c \in N \ {Fake} BY <1>1 DEF Shape
  <1>3. ASSUME NEW y \in N \ {Fake}
        PROVE  BlacksAbove(t, Under(t), y) = Cardinality(A(y)) /\ IsFiniteSet(A(y))
    <2>1. \A z \in N \ {Fake} : <<z, y>> \in Under(t) <=> y \in I[z]
      BY <1>1, <1>3, UnderSpan
    <2>2. A(y) = {z \in KeysOf(t) \ t.red : <<z, y>> \in Under(t)}
      BY <2>1 DEF KeysOf
    <2>3. IsFiniteSet(A(y))
      <3>1. A(y) \subseteq N OBVIOUS
      <3> HIDE DEF A
      <3> QED BY <1>1, <3>1, FS_Subset
    <2> QED BY <2>2, <2>3 DEF BlacksAbove
  <1>4. \A y \in N \ {Fake} : c \in I[y] <=> y = c \/ x \in I[y]
    BY <1>1, SpanStep
  <1>5. x \notin I[c] BY <1>1, SpanStep
  <1>6. Cardinality(A(x)) \in Nat /\ Cardinality(A(c)) \in Nat
    BY <1>2, <1>3, FS_CardinalityType
  <1>7. b[c] \in Int /\ b[x] \in Int /\ b[c] = IF c \in R THEN b[x] ELSE b[x] + 1
    BY <1>1, <1>2 DEF Even
  <1>8. CASE c \in R
    <2>1. A(c) = A(x) BY <1>4, <1>8
    <2> QED BY <1>2, <1>3, <1>6, <1>7, <1>8, <2>1
  <1>9. CASE c \notin R
    <2>1. A(c) = A(x) \cup {c} /\ c \notin A(x) BY <1>2, <1>4, <1>5, <1>9
    <2>2. Cardinality(A(c)) = Cardinality(A(x)) + 1
      <3>1. IsFiniteSet(A(x)) BY <1>3
      <3> HIDE DEF A
      <3> QED BY <2>1, <3>1, FS_AddElement
    <2> QED BY <1>2, <1>3, <1>6, <1>7, <1>9, <2>2
  <1> QED BY <1>8, <1>9

(* The evidence is enough: a tree that has it and a black root is a red-    *)
(* black tree (RBTree.IsRedBlack).                                          *)
LEMMA CertifiedIsRedBlack ==
  ASSUME NEW t, NEW I, NEW b, NEW h, Certified(t, I, b, h), Root(t) \notin t.red
  PROVE  IsRedBlack(t)
  <1> DEFINE N == t.nodes
             C == t.child
             r == C[<<Fake, "right">>]
             B(y) == BlacksAbove(t, Under(t), y)
  <1>1. /\ Shape(N, C) /\ Spans(N, C, I) /\ IsTree(t) /\ KeysOf(t) = N \ {Fake}
        /\ Root(t) = r /\ RedRule(C, t.red)
    BY DEF Certified, IsTree, KeysOf, Root
  <1>2. \A x \in N \ {Fake} : x \in Point /\ x # Nil BY <1>1, RBTreeAssumption DEF Shape
  <1>3. ASSUME N \ {Fake} # {} PROVE r \in N \ {Fake} /\ N \ {Fake} \subseteq I[r]
    <2>1. r # Nil
      <3>1. {Fake} # N BY <1>3
      <3>2. PICK d \in Dir : C[<<Fake, d>>] # Nil
        <4>1. {Fake} \in SUBSET N BY <1>1 DEF Shape
        <4> QED BY <1>1, <3>1, <4>1 DEF Shape
      <3> QED BY <1>1, <3>2 DEF Shape, Dir
    <2>2. r \in N \ {Fake} BY <1>1, <2>1 DEF Shape, Dir
    <2>3. I[r] = Point
      <3>1. Fake \in N /\ "right" \in Dir /\ Beside(Fake, "right") = Point
        BY <1>1 DEF Shape, Dir, Beside
      <3>2. I[Fake] = Point /\ I[r] = I[Fake] \cap Beside(Fake, "right")
        BY <1>1, <2>1, <3>1 DEF Spans
      <3> QED BY <3>1, <3>2
    <2> QED BY <1>2, <2>2, <2>3
  <1>4. \A x \in KeysOf(t) : <<Root(t), x>> \in Under(t)
    BY <1>1, <1>3, UnderSpan
  <1>5. ASSUME NEW x \in KeysOf(t), NEW y \in KeysOf(t), NEW d \in Dir,
               <<t.child[<<x, d>>], y>> \in Under(t)
        PROVE  y # x /\ Toward(x, y) = d
    <2>1. C[<<x, d>>] \in N \ {Fake} BY <1>1, <1>5 DEF Under
    <2>2. C[<<x, d>>] # Nil BY <1>2, <2>1
    <2>3. y \in I[C[<<x, d>>]] BY <1>1, <1>5, <2>1, UnderSpan
    <2>4. y \in Beside(x, d) BY <1>1, <2>2, <2>3 DEF Spans
    <2>5. y # x BY <1>1, <1>2, <2>4, Sides
    <2> QED BY <1>1, <1>2, <2>4, <2>5, Sides
  <1>6. \A x \in N \ {Fake} : B(x) - b[x] = B(r) - b[r]
    <2> DEFINE S == {x \in N : x = Fake \/ B(x) - b[x] = B(r) - b[r]}
    <2>1. ASSUME NEW x \in S, NEW d \in Dir, C[<<x, d>>] # Nil PROVE C[<<x, d>>] \in S
      <3>1. C[<<x, d>>] \in N \ {Fake} BY <1>1, <2>1 DEF Shape
      <3>2. CASE x = Fake BY <1>1, <2>1, <3>1, <3>2 DEF Shape, Dir
      <3>3. CASE x # Fake
        <4>1. /\ B(x) \in Nat /\ B(C[<<x, d>>]) \in Nat
              /\ B(C[<<x, d>>]) - B(x) = b[C[<<x, d>>]] - b[x]
          BY <2>1, <3>3, BlackCount
        <4>2. b[x] \in Int /\ b[C[<<x, d>>]] \in Int BY <3>1 DEF Certified, Even
        <4> HIDE DEF B
        <4> QED BY <3>1, <3>3, <4>1, <4>2
      <3> QED BY <3>2, <3>3
    <2>2. Fake \in S /\ S \in SUBSET N BY <1>1 DEF Shape
    <2>3. \A x \in S : \A d \in Dir : C[<<x, d>>] = Nil \/ C[<<x, d>>] \in S BY <2>1
    <2>4. S = N
      <3> HIDE DEF S
      <3> QED BY <1>1, <2>2, <2>3 DEF Shape
    <2> HIDE DEF B
    <2> QED BY <2>4
  <1>7. ASSUME NEW x \in Ends(t), NEW y \in Ends(t) PROVE B(x) = B(y)
    <2>1. x \in N \ {Fake} /\ y \in N \ {Fake} BY <1>1 DEF Ends
    <2>2. b[x] = h /\ b[y] = h /\ h \in Int BY <1>1, <2>1 DEF Ends, Certified, Even
    <2>3. ASSUME NEW z \in N \ {Fake} PROVE B(z) \in Nat
      <3>1. {v \in KeysOf(t) \ t.red : <<v, z>> \in Under(t)} \subseteq N BY <1>1
      <3>2. IsFiniteSet(N) BY <1>1 DEF Shape
      <3> QED BY <3>1, <3>2, FS_Subset, FS_CardinalityType DEF BlacksAbove
    <2>4. B(x) \in Nat /\ B(y) \in Nat /\ r \in N \ {Fake} BY <1>3, <2>1, <2>3
    <2>5. B(r) \in Nat /\ b[r] \in Int BY <2>3, <2>4 DEF Certified, Even
    <2>6. B(x) - b[x] = B(r) - b[r] /\ B(y) - b[y] = B(r) - b[r] BY <1>6, <2>1
    <2> HIDE DEF B
    <2> QED BY <2>2, <2>4, <2>5, <2>6
  <1>8. \A x \in t.red : \A d \in Dir : t.child[<<x, d>>] \notin t.red
    BY <1>1 DEF RedRule
  <1> QED BY <1>4, <1>5, <1>7, <1>8 DEF IsRedBlack

(* What setting a child changes. *)
LEMMA SetChildAt ==
  ASSUME NEW t, Record(t), NEW x, NEW d, NEW c
  PROVE  SetChild(t, x, d, c)
           = [nodes |-> t.nodes, red |-> t.red, child |-> [t.child EXCEPT ![<<x, d>>] = c]]
  BY DEF Record, SetChild

(* What painting nodes changes. *)
LEMMA PaintAt ==
  ASSUME NEW t, Record(t), NEW A, NEW B
  PROVE  Paint(t, A, B)
           = [nodes |-> t.nodes, red |-> (t.red \cup A) \ B, child |-> t.child]
  BY DEF Record, Paint

(* The same, field by field. *)
LEMMA PaintFields ==
  ASSUME NEW t, Record(t), NEW A, NEW B, NEW u, u = Paint(t, A, B)
  PROVE  /\ u.nodes = t.nodes /\ u.child = t.child /\ u.red = (t.red \cup A) \ B
         /\ Record(u)
  <1> DEFINE v == Paint(t, A, B)
  <1>1. v = [nodes |-> t.nodes, red |-> (t.red \cup A) \ B, child |-> t.child]
    BY PaintAt
  <1>2. u = v OBVIOUS
  <1> HIDE DEF v
  <1>3. v.nodes = t.nodes /\ v.child = t.child /\ v.red = (t.red \cup A) \ B /\ Record(v)
    BY <1>1 DEF Record
  <1> QED BY <1>2, <1>3

(* singleRotate (54-64) turns x, colours it red and its new parent black. *)
LEMMA RotateAt ==
  ASSUME NEW t, IsTree(t), NEW x \in t.nodes \ {Fake}, NEW dir \in Dir, NEW p \in t.nodes,
         NEW pd \in Dir, t.child[<<p, pd>>] = x, t.child[<<x, Other(dir)>>] # Nil
  PROVE  LET s == t.child[<<x, Other(dir)>>]
             u == Hang(Rotate(t, x, dir), p, pd)
         IN /\ Rotate(t, x, dir).top = s /\ u.nodes = t.nodes
            /\ u.red = (t.red \cup {x}) \ {s} /\ IsTree(u)
            /\ IsTurn(t.nodes, t.child, u.child, x, s, dir, p, pd)
  <1> DEFINE C == t.child
             s == C[<<x, Other(dir)>>]
             t1 == SetChild(t, x, Other(dir), C[<<s, dir>>])
             t2 == SetChild(t1, s, dir, x)
             r == Rotate(t, x, dir)
             u == Hang(r, p, pd)
  <1>1. Record(t) /\ Shape(t.nodes, C) /\ t.red \subseteq t.nodes \ {Fake} BY DEF IsTree
  <1>2. t1 = [nodes |-> t.nodes, red |-> t.red,
              child |-> [C EXCEPT ![<<x, Other(dir)>>] = C[<<s, dir>>]]]
    BY <1>1, SetChildAt
  <1>3. Record(t1) BY <1>2 DEF Record
  <1>4. t2 = [nodes |-> t.nodes, red |-> t.red, child |-> [t1.child EXCEPT ![<<s, dir>>] = x]]
    BY SMTT(30), <1>2, <1>3, SetChildAt
  <1>5. Record(t2) BY <1>4 DEF Record
  <1>6. r = [tree |-> Paint(t2, {x}, {s}), top |-> s] BY DEF Rotate
  <1>7. t2.nodes = t.nodes /\ t2.red = t.red BY <1>4
  <1>16. t1.child = [C EXCEPT ![<<x, Other(dir)>>] = C[<<s, dir>>]] BY <1>2
  <1>17. t2.child = [t1.child EXCEPT ![<<s, dir>>] = x] BY <1>4
  <1> HIDE DEF r, t2, t1
  <1>18. Paint(t2, {x}, {s})
           = [nodes |-> t.nodes, red |-> (t.red \cup {x}) \ {s}, child |-> t2.child]
    <2>1. Paint(t2, {x}, {s})
            = [nodes |-> t2.nodes, red |-> (t2.red \cup {x}) \ {s}, child |-> t2.child]
      BY <1>5, PaintAt
    <2> QED BY <1>7, <2>1
  <1>19. r.top = s /\ r.tree = Paint(t2, {x}, {s}) BY <1>6
  <1>8. Record(r.tree) BY <1>18, <1>19 DEF Record
  <1>20. u = SetChild(r.tree, p, pd, s) BY <1>19 DEF Hang
  <1>21. u = [nodes |-> r.tree.nodes, red |-> r.tree.red,
              child |-> [r.tree.child EXCEPT ![<<p, pd>>] = s]]
    BY <1>8, <1>20, SetChildAt
  <1>9. u = [nodes |-> t.nodes, red |-> (t.red \cup {x}) \ {s},
             child |-> [t2.child EXCEPT ![<<p, pd>>] = s]]
    <2>1. /\ r.tree.nodes = t.nodes /\ r.tree.red = (t.red \cup {x}) \ {s}
          /\ r.tree.child = t2.child
      BY SMTT(30), <1>18, <1>19
    <2> HIDE DEF u
    <2> QED BY <1>21, <2>1
  <1>10. u.child = Turn(C, x, dir, p, pd)
    <2>3. u.child = [t2.child EXCEPT ![<<p, pd>>] = s] BY <1>9
    <2> HIDE DEF u
    <2> QED BY <1>16, <1>17, <2>3 DEF Turn
  <1>11. IsTurn(t.nodes, C, u.child, x, s, dir, p, pd) BY <1>1, <1>10, TurnAt
  <1>12. Shape(t.nodes, u.child) BY <1>1, <1>11, TurnShape
  <1>13. Record(u) /\ u.nodes = t.nodes /\ u.red = (t.red \cup {x}) \ {s} BY <1>9 DEF Record
  <1>14. u.red \subseteq t.nodes \ {Fake} BY <1>1, <1>13
  <1>15. IsTree(u)
    <2> HIDE DEF u
    <2> QED BY <1>12, <1>13, <1>14 DEF IsTree
  <1> QED BY <1>11, <1>13, <1>15, <1>19 DEF r

(* The one red child of a red node, outside, is turned away.               *)
LEMMA OuterFix ==
  ASSUME NEW N, NEW C, Shape(N, C), NEW D, NEW x, NEW s, NEW dir, NEW p, NEW pd,
         IsTurn(N, C, D, x, s, dir, p, pd), NEW R \in SUBSET N, s \in R, x \notin R,
         C[<<x, dir>>] \notin R,
         \A y \in R : \A d \in Dir : C[<<y, d>>] \in R => y = s /\ d = Other(dir)
  PROVE  RedRule(D, (R \cup {x}) \ {s})
  <1> DEFINE Q == (R \cup {x}) \ {s}
  <1>1. dir \in Dir /\ Other(dir) # dir /\ x \in N BY Dirs DEF IsTurn
  <1>2. ASSUME NEW y \in Q, NEW d \in Dir PROVE D[<<y, d>>] \notin Q
    <2>1. y \in N /\ y # s BY <1>1
    <2>2. CASE D[<<y, d>>] = s BY <2>2
    <2>3. CASE y = x /\ d = dir /\ D[<<y, d>>] = C[<<x, dir>>] /\ D[<<y, d>>] \notin {x, s}
      BY <2>3
    <2>4. CASE /\ y = x /\ d = Other(dir)
               /\ D[<<y, d>>] = C[<<s, dir>>] /\ D[<<y, d>>] \notin {x, s}
      BY <1>1, <2>4
    <2>5. CASE y \notin {x, s} /\ D[<<y, d>>] = C[<<y, d>>] /\ D[<<y, d>>] \notin {x, s}
      BY <2>5
    <2> HIDE DEF Q
    <2>6. \/ D[<<y, d>>] = s \/ y = s
          \/ y = x /\ d = dir /\ D[<<y, d>>] = C[<<x, dir>>] /\ D[<<y, d>>] \notin {x, s}
          \/ /\ y = x /\ d = Other(dir)
             /\ D[<<y, d>>] = C[<<s, dir>>] /\ D[<<y, d>>] \notin {x, s}
          \/ y \notin {x, s} /\ D[<<y, d>>] = C[<<y, d>>] /\ D[<<y, d>>] \notin {x, s}
      BY TurnFrame, <2>1
    <2> QED BY <2>6, <2>1, <2>2, <2>3, <2>4, <2>5
  <1> QED BY <1>2 DEF RedRule

(* Inside, it is turned outside first. *)
LEMMA InnerFix ==
  ASSUME NEW N, NEW C, Shape(N, C), NEW D, NEW x, NEW s, NEW dir, NEW p, NEW pd,
         IsTurn(N, C, D, x, s, dir, p, pd), NEW R \in SUBSET N, s \in R, x \in R, p \notin R,
         \A y \in R : \A d \in Dir : C[<<y, d>>] \in R => y = x /\ d = Other(dir),
         \A d \in Dir : C[<<s, d>>] \notin R
  PROVE  \A y \in R : \A d \in Dir : D[<<y, d>>] \in R => y = s /\ d = dir
  <1>1. dir \in Dir /\ Other(dir) # dir /\ Other(dir) \in Dir BY Dirs DEF IsTurn
  <1>2. ASSUME NEW y \in R, NEW d \in Dir, D[<<y, d>>] \in R PROVE y = s /\ d = dir
    <2>1. y \in N /\ y # p OBVIOUS
    <2>2. CASE y = s /\ d = dir BY <2>2
    <2>3. CASE /\ y = s /\ d = Other(dir)
               /\ D[<<y, d>>] = C[<<s, Other(dir)>>] /\ D[<<y, d>>] \notin {x, s}
      BY <1>1, <1>2, <2>3
    <2>4. CASE y = x /\ d = dir /\ D[<<y, d>>] = C[<<x, dir>>] /\ D[<<y, d>>] \notin {x, s}
      BY <1>1, <1>2, <2>4
    <2>5. CASE /\ y = x /\ d = Other(dir)
               /\ D[<<y, d>>] = C[<<s, dir>>] /\ D[<<y, d>>] \notin {x, s}
      BY <1>1, <1>2, <2>5
    <2>6. CASE y \notin {x, s} /\ D[<<y, d>>] = C[<<y, d>>] /\ D[<<y, d>>] \notin {x, s}
      BY <1>2, <2>6
    <2> QED BY TurnFrame, <2>1, <2>2, <2>3, <2>4, <2>5, <2>6
  <1> QED BY <1>2

(* A red node here, with no red child, below a red p: insert's violation.  *)
Clash(t, I, b, h, ggp, gd, gp, last, p, dir, here) ==
  /\ IsTree(t) /\ Spans(t.nodes, t.child, I) /\ Even(t.nodes, t.child, t.red, b, h)
  /\ ggp \in t.nodes /\ gp \in t.nodes \ {Fake} /\ p \in t.red /\ here \in t.red
  /\ gd \in Dir /\ last \in Dir /\ dir \in Dir
  /\ t.child[<<ggp, gd>>] = gp /\ t.child[<<gp, last>>] = p /\ t.child[<<p, dir>>] = here
  /\ gp \notin t.red /\ t.child[<<gp, Other(last)>>] \notin t.red
  /\ \A d \in Dir : t.child[<<here, d>>] \notin t.red
  /\ \A y \in t.red : \A d \in Dir : t.child[<<y, d>>] \in t.red => y = p /\ d = dir

(* A red node below a red node on the outer side is put right by one turn   *)
(* (insert, 103-112).                                                       *)
LEMMA OuterClash ==
  ASSUME NEW t, NEW I, NEW b, NEW h, NEW ggp, NEW gd, NEW gp, NEW last, NEW p, NEW here,
         Clash(t, I, b, h, ggp, gd, gp, last, p, last, here)
  PROVE  LET u == Hang(Rotate(t, gp, Other(last)), ggp, gd)
         IN /\ Certified(u, TurnSpans(I, gp, p, Other(last)), b, h) /\ u.nodes = t.nodes
            /\ u.red = (t.red \cup {gp}) \ {p}
            /\ IsTurn(t.nodes, t.child, u.child, gp, p, Other(last), ggp, gd)
  <1> DEFINE o == Other(last)
             u == Hang(Rotate(t, gp, o), ggp, gd)
  <1>1. /\ IsTree(t) /\ Spans(t.nodes, t.child, I) /\ Even(t.nodes, t.child, t.red, b, h)
        /\ Shape(t.nodes, t.child) /\ t.red \subseteq t.nodes \ {Fake}
        /\ o \in Dir /\ Other(o) = last
    BY Dirs DEF Clash, IsTree
  <1>2. p # Nil BY <1>1, RBTreeAssumption DEF Clash, Shape
  <1>3. /\ u.nodes = t.nodes /\ u.red = (t.red \cup {gp}) \ {p} /\ IsTree(u)
        /\ IsTurn(t.nodes, t.child, u.child, gp, p, o, ggp, gd)
    BY <1>1, <1>2, RotateAt DEF Clash
  <1> HIDE DEF u
  <1>4. Spans(u.nodes, u.child, TurnSpans(I, gp, p, o)) BY <1>1, <1>3, TurnOrder
  <1>5. Even(u.nodes, u.child, u.red, b, h)
    <2>1. p \in t.red /\ gp \notin t.red BY DEF Clash
    <2>2. u.red = IF gp \in t.red THEN t.red ELSE (t.red \cup {gp}) \ {p} BY <1>3, <2>1
    <2> QED BY <1>1, <1>3, <2>1, <2>2, TurnEven
  <1>6. RedRule(u.child, u.red)
    <2>1. /\ p \in t.red /\ gp \notin t.red /\ t.red \in SUBSET t.nodes
          /\ t.child[<<gp, o>>] \notin t.red
          /\ \A y \in t.red : \A d \in Dir : t.child[<<y, d>>] \in t.red => y = p /\ d = Other(o)
      BY <1>1 DEF Clash
    <2> QED BY <1>1, <1>3, <2>1, OuterFix
  <1>7. Certified(u, TurnSpans(I, gp, p, o), b, h) BY <1>3, <1>4, <1>5, <1>6 DEF Certified
  <1> QED BY <1>3, <1>7 DEF u

(* One on the inner side by two. *)
LEMMA InnerClash ==
  ASSUME NEW t, NEW I, NEW b, NEW h, NEW ggp, NEW gd, NEW gp, NEW last, NEW p, NEW here,
         Clash(t, I, b, h, ggp, gd, gp, last, p, Other(last), here)
  PROVE  LET u == Hang(DoubleRotate(t, gp, Other(last)), ggp, gd)
         IN /\ Certified(u, TurnSpans(TurnSpans(I, p, here, last), gp, here, Other(last)), b, h)
            /\ u.nodes = t.nodes /\ u.red = (t.red \cup {gp}) \ {here}
            /\ \E D : /\ IsTurn(t.nodes, t.child, D, p, here, last, gp, last)
                      /\ IsTurn(t.nodes, D, u.child, gp, here, Other(last), ggp, gd)
  <1> DEFINE o == Other(last)
             v == Hang(Rotate(t, p, last), gp, last)
             u == Hang(Rotate(v, gp, o), ggp, gd)
             N == t.nodes
             R == t.red
             J == TurnSpans(I, p, here, last)
  <1>1. /\ IsTree(t) /\ Spans(N, t.child, I) /\ Even(N, t.child, R, b, h)
        /\ Shape(N, t.child) /\ R \subseteq N \ {Fake}
        /\ o \in Dir /\ Other(o) = last /\ last \in Dir /\ gd \in Dir
        /\ gp \in N \ {Fake} /\ p \in N \ {Fake} /\ here \in N \ {Fake} /\ ggp \in N
        /\ p \in R /\ here \in R /\ gp \notin R
        /\ t.child[<<gp, last>>] = p /\ t.child[<<p, o>>] = here /\ t.child[<<ggp, gd>>] = gp
    BY Dirs DEF Clash, IsTree
  <1>2. p # Nil /\ here # Nil /\ gp # Nil BY <1>1, RBTreeAssumption DEF Shape
  <1>3. u = Hang(DoubleRotate(t, gp, o), ggp, gd) BY <1>1 DEF DoubleRotate
  <1>4. /\ v.nodes = N /\ v.red = (R \cup {p}) \ {here} /\ IsTree(v)
        /\ IsTurn(N, t.child, v.child, p, here, last, gp, last)
    BY <1>1, <1>2, RotateAt
  <1> HIDE DEF v
  <1>5. ggp # p /\ ggp # here
    <2>1. gp \notin I[p] /\ p \notin I[here] BY <1>1, <1>2, SpanStep
    <2>2. I[here] \subseteq I[p] BY <1>1, <1>2 DEF Spans
    <2>3. gp \in I[ggp] BY <1>1, <1>2 DEF Spans
    <2> QED BY <2>1, <2>2, <2>3
  <1>6. /\ v.child[<<ggp, gd>>] = gp /\ v.child[<<gp, last>>] = here
        /\ v.child[<<gp, o>>] = t.child[<<gp, o>>] /\ v.child[<<here, last>>] = p
    <2>1. gp # p /\ gp # here /\ (ggp # gp \/ gd # last) /\ o # last
      <3>1. gp # p /\ gp # here BY <1>4 DEF IsTurn
      <3>2. o # last BY <1>1, Dirs
      <3>3. ggp # gp
        <4>1. ggp = gp => gp \notin I[gp] BY <1>1, <1>2, SpanStep
        <4>2. gp \in I[gp] BY <1>1, SpanOwn
        <4> QED BY <4>1, <4>2
      <3> QED BY <3>1, <3>2, <3>3
    <2> QED BY <1>1, <1>4, <1>5, <2>1 DEF IsTurn
  <1>7. /\ u.nodes = N /\ u.red = (v.red \cup {gp}) \ {here} /\ IsTree(u)
        /\ IsTurn(N, v.child, u.child, gp, here, o, ggp, gd)
    BY <1>1, <1>2, <1>4, <1>6, RotateAt
  <1> HIDE DEF u
  <1>8. u.red = (R \cup {gp}) \ {here} BY <1>1, <1>4, <1>7
  <1>9. Shape(N, v.child) BY <1>4 DEF IsTree
  <1>10. Spans(N, v.child, J) BY <1>1, <1>4, TurnOrder
  <1>11. Spans(u.nodes, u.child, TurnSpans(J, gp, here, o)) BY <1>7, <1>9, <1>10, TurnOrder
  <1>12. Even(u.nodes, u.child, u.red, b, h)
    <2>1. Even(N, v.child, R, b, h) BY <1>1, <1>4, TurnEven
    <2>2. u.red = IF gp \in R THEN R ELSE (R \cup {gp}) \ {here} BY <1>1, <1>8
    <2> QED BY <1>1, <1>7, <1>9, <2>1, <2>2, TurnEven
  <1>13. RedRule(u.child, u.red)
    <2>1. R \in SUBSET N BY <1>1
    <2>2. /\ \A y \in R : \A d \in Dir : t.child[<<y, d>>] \in R => y = p /\ d = o
          /\ \A d \in Dir : t.child[<<here, d>>] \notin R
          /\ t.child[<<gp, o>>] \notin R
      BY DEF Clash
    <2>3. \A y \in R : \A d \in Dir : v.child[<<y, d>>] \in R => y = here /\ d = last
      BY <1>1, <1>4, <2>1, <2>2, InnerFix
    <2>4. \A y \in R : \A d \in Dir : v.child[<<y, d>>] \in R => y = here /\ d = Other(o)
      BY <1>1, <2>3
    <2>5. RedRule(u.child, (R \cup {gp}) \ {here})
      BY <1>1, <1>6, <1>7, <1>9, <2>1, <2>2, <2>4, OuterFix
    <2> QED BY <1>8, <2>5
  <1>14. Certified(u, TurnSpans(J, gp, here, o), b, h)
    BY <1>7, <1>11, <1>12, <1>13 DEF Certified
  <1> QED BY <1>3, <1>4, <1>7, <1>8, <1>14

(* x was coloured red, its children black. *)
Flipped(t, u, x) ==
  /\ IsTree(u) /\ u.nodes = t.nodes /\ u.child = t.child
  /\ x \in u.red /\ \A c : c # x /\ c \in u.red => c \in t.red
  /\ \A c \in t.red : (\A d \in Dir : t.child[<<x, d>>] # c) => c \in u.red
  /\ \A d \in Dir : /\ t.child[<<x, d>>] \in t.nodes \ {Fake} /\ t.child[<<x, d>>] \notin u.red
                    /\ \A e \in Dir : t.child[<<t.child[<<x, d>>], e>>] \notin u.red
  /\ \A y \in u.red : \A d \in Dir : t.child[<<y, d>>] \in u.red => t.child[<<y, d>>] = x

(* Colouring a black node red and its red children black (96-101) keeps    *)
(* the black heights.                                                       *)
LEMMA FlipAt ==
  ASSUME NEW t, NEW I, NEW b, NEW h, Certified(t, I, b, h), NEW x \in t.nodes \ {Fake},
         NEW kids, kids = {t.child[<<x, d>>] : d \in Dir}, x \notin t.red, kids \subseteq t.red,
         NEW u, u = Paint(t, {x}, kids)
  PROVE  Flipped(t, u, x) /\ \E f : Even(u.nodes, u.child, u.red, f, h)
  <1> DEFINE N == t.nodes
             C == t.child
             R == t.red
             Q == (R \cup {x}) \ kids
             f == [b EXCEPT ![x] = b[x] - 1]
  <1>1. /\ Record(t) /\ Shape(N, C) /\ R \subseteq N \ {Fake} /\ Even(N, C, R, b, h)
        /\ Spans(N, C, I)
    BY DEF Certified, IsTree
  <1>2. u.nodes = N /\ u.child = C /\ u.red = Q /\ Record(u) BY SMTT(30), <1>1, PaintFields
  <1>3. x \notin kids /\ x \notin R /\ x # Nil
    <2>1. x \notin kids /\ x \notin R OBVIOUS
    <2>2. N \subseteq Point \cup {Fake} /\ x \in N /\ x # Fake BY <1>1 DEF Shape
    <2>3. x # Nil BY ONLY <2>2, RBTreeAssumption
    <2> QED BY <2>1, <2>3
  <1>4. \A d \in Dir : C[<<x, d>>] \in R /\ C[<<x, d>>] \in N \ {Fake} /\ C[<<x, d>>] \notin Q
    BY <1>1
  <1>5. \A y \in N : \A d \in Dir : C[<<y, d>>] \in kids => y = x
    <2> SUFFICES ASSUME NEW y \in N, NEW d \in Dir, NEW e \in Dir, C[<<y, d>>] = C[<<x, e>>]
                 PROVE  y = x
      OBVIOUS
    <2>1. C[<<x, e>>] # Nil BY <1>1, <1>4, RBTreeAssumption DEF Shape
    <2> QED BY <1>1, <2>1 DEF Shape
  <1>6. x \in Q /\ Q \subseteq N \ {Fake} BY <1>1, <1>3
  <1>7. IsTree(u)
    <2> HIDE DEF Q
    <2> QED BY <1>1, <1>2, <1>6 DEF IsTree
  <1>8. \A y \in R : \A d \in Dir : C[<<y, d>>] \notin R BY DEF Certified, RedRule
  <1>9. \A c : c # x /\ c \notin kids => (c \in Q <=> c \in R) OBVIOUS
  <1>10. \A c : c \in kids => c \in R /\ c \notin Q BY <1>4
  <1>11. \A d, e \in Dir : C[<<C[<<x, d>>], e>>] \notin Q
    <2> SUFFICES ASSUME NEW d \in Dir, NEW e \in Dir, C[<<C[<<x, d>>], e>>] \in Q PROVE FALSE
      OBVIOUS
    <2>1. C[<<C[<<x, d>>], e>>] \notin R BY <1>4, <1>8
    <2>2. C[<<C[<<x, d>>], e>>] = x BY <2>1
    <2>3. C[<<x, d>>] \notin I[C[<<C[<<x, d>>], e>>]] /\ x \notin I[C[<<x, d>>]]
          /\ C[<<C[<<x, d>>], e>>] \in I[C[<<x, d>>]]
      <3>1. C[<<x, d>>] # Nil /\ C[<<C[<<x, d>>], e>>] # Nil
        BY <1>1, <1>3, <1>4, <2>2, RBTreeAssumption DEF Shape
      <3>2. C[<<x, d>>] \in N \ {Fake} BY <1>4
      <3>3. x \notin I[C[<<x, d>>]] BY <1>1, <3>1, SpanStep
      <3>4. C[<<x, d>>] \notin I[C[<<C[<<x, d>>], e>>]]
        <4> DEFINE y == C[<<x, d>>]
                   z == C[<<y, e>>]
        <4>1. y \in N \ {Fake} /\ z # Nil BY <3>1, <3>2
        <4>2. z = C[<<y, e>>] /\ e \in Dir OBVIOUS
        <4> HIDE DEF y, z, Q
        <4>3. y \notin I[z] BY <1>1, <4>1, <4>2, SpanStep
        <4> QED BY <4>3 DEF y, z
      <3>5. C[<<C[<<x, d>>], e>>] \in I[C[<<x, d>>]] BY <1>1, <3>1, <3>2 DEF Spans
      <3> QED BY <3>3, <3>4, <3>5
    <2> QED BY <2>2, <2>3
  <1>12. \A y \in Q : \A d \in Dir : C[<<y, d>>] \in Q => C[<<y, d>>] = x
    <2> SUFFICES ASSUME NEW y \in Q, NEW d \in Dir, C[<<y, d>>] \in Q, C[<<y, d>>] # x
                 PROVE FALSE
      OBVIOUS
    <2>1. CASE y = x BY <1>4, <2>1
    <2>2. CASE y # x BY <1>8, <2>2
    <2> QED BY <2>1, <2>2
  <1>13. /\ b \in [N -> Int] /\ h \in Int
         /\ \A y \in N \ {Fake} : \A d \in Dir :
              /\ b[y] <= h
              /\ C[<<y, d>>] = Nil => b[y] = h
              /\ C[<<y, d>>] # Nil /\ C[<<y, d>>] \in R => b[C[<<y, d>>]] = b[y]
              /\ C[<<y, d>>] # Nil /\ C[<<y, d>>] \notin R => b[C[<<y, d>>]] = b[y] + 1
    BY <1>1 DEF Even
  <1>14. f \in [N -> Int] /\ f[x] = b[x] - 1 /\ \A y \in N : y # x => f[y] = b[y]
    BY <1>13
  <1> HIDE DEF Q, f
  <1>15. ASSUME NEW y \in N \ {Fake}, NEW d \in Dir
         PROVE  /\ f[y] <= h
                /\ C[<<y, d>>] = Nil => f[y] = h
                /\ C[<<y, d>>] # Nil /\ C[<<y, d>>] \in Q => f[C[<<y, d>>]] = f[y]
                /\ C[<<y, d>>] # Nil /\ C[<<y, d>>] \notin Q => f[C[<<y, d>>]] = f[y] + 1
    <2>1. b[y] \in Int /\ b[y] <= h /\ b[x] \in Int BY <1>13
    <2>2. C[<<y, d>>] # Nil => C[<<y, d>>] \in N BY <1>1 DEF Shape
    <2>3. CASE y = x
      <3>1. C[<<x, d>>] \in kids /\ C[<<x, d>>] # x /\ C[<<x, d>>] \in N
        BY <1>3, <1>4
      <3>2. b[C[<<x, d>>]] = b[x] /\ C[<<x, d>>] # Nil
        BY <1>1, <1>4, <1>13, RBTreeAssumption DEF Shape
      <3> QED BY <1>10, <1>13, <1>14, <2>1, <2>3, <3>1, <3>2
    <2>4. CASE y # x /\ C[<<y, d>>] = x
      BY <1>3, <1>6, <1>13, <1>14, <2>1, <2>2, <2>4
    <2>5. CASE y # x /\ C[<<y, d>>] # x
      <3>1. C[<<y, d>>] \notin kids BY <1>5, <2>5
      <3>2. C[<<y, d>>] # Nil => f[C[<<y, d>>]] = b[C[<<y, d>>]] BY <1>14, <2>2, <2>5
      <3> QED BY ZenonT(60), <1>9, <1>13, <1>14, <2>1, <2>5, <3>1, <3>2
    <2> QED BY <2>3, <2>4, <2>5
  <1>16. Even(N, C, Q, f, h) BY <1>13, <1>14, <1>15 DEF Even
  <1>17. u.nodes = N /\ u.child = C /\ u.red = Q BY <1>2
  <1>18. Even(u.nodes, u.child, u.red, f, h) BY <1>16, <1>17
  <1>19. \A c : c # x /\ c \in u.red => c \in R BY <1>17 DEF Q
  <1>20. \A c \in R : (\A d \in Dir : C[<<x, d>>] # c) => c \in u.red BY <1>17 DEF Q
  <1>21. \A d \in Dir : /\ C[<<x, d>>] \in N \ {Fake} /\ C[<<x, d>>] \notin u.red
                       /\ \A e \in Dir : C[<<C[<<x, d>>], e>>] \notin u.red
    BY <1>4, <1>11, <1>17
  <1>22. \A y \in u.red : \A d \in Dir : C[<<y, d>>] \in u.red => C[<<y, d>>] = x
    BY <1>12, <1>17
  <1>23. x \in u.red BY <1>6, <1>17
  <1>24. Flipped(t, u, x) BY <1>7, <1>17, <1>19, <1>20, <1>21, <1>22, <1>23 DEF Flipped
  <1> QED BY <1>18, <1>24

(* A new leaf (91-95) has no children, and the others keep theirs. *)
LEMMA AttachSlots ==
  ASSUME NEW t, IsTree(t), NEW key \in Point, key \notin t.nodes, NEW p \in t.nodes,
         NEW dir \in Dir, NEW u, u = Attach(t, key, p, dir)
  PROVE  /\ \A d \in Dir : u.child[<<key, d>>] = Nil
         /\ \A y \in t.nodes : \A d \in Dir :
              y # p \/ d # dir => u.child[<<y, d>>] = t.child[<<y, d>>]
  <1>1. u.child = [slot \in (t.nodes \cup {key}) \X Dir |->
                     IF slot = <<p, dir>> THEN key
                     ELSE IF slot[1] = key THEN Nil ELSE t.child[slot]]
    BY DEF Attach
  <1>2. key # p OBVIOUS
  <1> QED BY <1>1, <1>2

(* A red leaf put where the walk for its key ends keeps the order and the   *)
(* black heights.                                                           *)
LEMMA AttachAt ==
  ASSUME NEW t, NEW I, NEW b, NEW h, Certified(t, I, b, h), NEW key \in Point,
         key \notin t.nodes, NEW p \in t.nodes, NEW dir \in Dir, t.child[<<p, dir>>] = Nil,
         <<p, dir>> # <<Fake, "left">>, key \in I[p], key \in Beside(p, dir),
         NEW u, u = Attach(t, key, p, dir)
  PROVE  /\ IsTree(u) /\ u.nodes = t.nodes \cup {key} /\ u.red = t.red \cup {key}
         /\ \E J : Spans(u.nodes, u.child, J)
         /\ \E f : Even(u.nodes, u.child, u.red, f, h)
         /\ u.child[<<p, dir>>] = key
  <1> DEFINE N == t.nodes
             M == N \cup {key}
             C == t.child
             D == u.child
             R == t.red
             J == [c \in M |-> IF c = key THEN I[p] \cap Beside(p, dir) ELSE I[c]]
             f == [c \in M |-> IF c = key THEN h ELSE b[c]]
  <1>1. /\ Record(t) /\ Shape(N, C) /\ R \subseteq N \ {Fake} /\ Even(N, C, R, b, h)
        /\ Spans(N, C, I) /\ RedRule(C, R)
    BY DEF Certified, IsTree
  <1>2. key # Fake /\ key # Nil /\ key # p BY RBTreeAssumption
  <1>3. /\ u.nodes = M /\ u.red = R \cup {key}
        /\ D = [slot \in M \X Dir |-> IF slot = <<p, dir>> THEN key
                                      ELSE IF slot[1] = key THEN Nil ELSE C[slot]]
        /\ Record(u)
    BY DEF Attach, Record
  <1> HIDE DEF D
  <1>4. /\ D[<<p, dir>>] = key
        /\ \A d \in Dir : D[<<key, d>>] = Nil
        /\ \A y \in N : \A d \in Dir : y # p \/ d # dir => D[<<y, d>>] = C[<<y, d>>]
    <2>1. D[<<p, dir>>] = key BY <1>3
    <2>2. IsTree(t) BY DEF Certified
    <2> QED BY <2>1, <2>2, AttachSlots DEF D
  <1>6. C \in [N \X Dir -> (N \ {Fake}) \cup {Nil}] BY <1>1 DEF Shape
  <1>5. \A y \in N : \A d \in Dir : C[<<y, d>>] # key
    <2>1. \A y \in N : \A d \in Dir : C[<<y, d>>] \in (N \ {Fake}) \cup {Nil} BY <1>6
    <2> HIDE DEF C
    <2> QED BY <1>2, <2>1
  <1>7. D \in [M \X Dir -> (M \ {Fake}) \cup {Nil}]
    BY <1>2, <1>3, <1>6
  <1>8. Shape(M, D)
    <2>1. Fake \in M /\ M \subseteq Point \cup {Fake} /\ IsFiniteSet(M)
      BY <1>1, FS_AddElement, RBTreeAssumption DEF Shape
    <2>2. D[<<Fake, "left">>] = Nil BY <1>1, <1>4 DEF Shape, Dir
    <2>3. ASSUME NEW y \in M, NEW z \in M, NEW d \in Dir, NEW e \in Dir,
                 D[<<y, d>>] = D[<<z, e>>], D[<<y, d>>] # Nil
          PROVE  y = z /\ d = e
      <3>1. y \in N /\ z \in N BY <1>4, <2>3
      <3>2. CASE D[<<y, d>>] = key
        BY ZenonT(60), <1>4, <1>5, <2>3, <3>1, <3>2
      <3>3. CASE D[<<y, d>>] # key
        <4>1. D[<<y, d>>] = C[<<y, d>>] /\ D[<<z, e>>] = C[<<z, e>>]
          BY <1>4, <2>3, <3>1, <3>3
        <4>2. \A v, w \in N : \A g, k \in Dir :
                C[<<v, g>>] = C[<<w, k>>] /\ C[<<v, g>>] # Nil => v = w /\ g = k
          BY <1>1 DEF Shape
        <4> HIDE DEF C, N
        <4>3. C[<<y, d>>] = C[<<z, e>>] /\ C[<<y, d>>] # Nil BY <2>3, <4>1
        <4> QED BY <3>1, <4>2, <4>3
      <3> QED BY <3>2, <3>3
    <2>4. ASSUME NEW S \in SUBSET M, Fake \in S,
                 \A y \in S : \A d \in Dir : D[<<y, d>>] = Nil \/ D[<<y, d>>] \in S
          PROVE  S = M
      <3>1. ASSUME NEW y \in S \ {key}, NEW d \in Dir, C[<<y, d>>] # Nil
            PROVE  C[<<y, d>>] \in S \ {key}
        <4>1. y \in N /\ D[<<y, d>>] = C[<<y, d>>] BY <1>4, <2>4, <3>1
        <4> QED BY <1>5, <2>4, <3>1, <4>1
      <3>2. S \ {key} = N
        <4>1. S \ {key} \in SUBSET N /\ Fake \in S \ {key} BY <1>2, <2>4
        <4>2. \A y \in S \ {key} : \A d \in Dir :
                 C[<<y, d>>] = Nil \/ C[<<y, d>>] \in S \ {key} BY <3>1
        <4> HIDE DEF M
        <4> QED BY <1>1, <4>1, <4>2 DEF Shape
      <3>3. D[<<p, dir>>] \in S BY <1>2, <1>4, <2>4, <3>2
      <3> QED BY <1>4, <3>2, <3>3
    <2> HIDE DEF M
    <2> QED BY <1>7, <2>1, <2>2, <2>3, <2>4 DEF Shape
  <1>9. IsTree(u)
    <2>1. u.red \subseteq M \ {Fake} BY <1>1, <1>2, <1>3
    <2> QED BY <1>3, <1>8, <2>1 DEF IsTree, D
  <1>10. Spans(M, D, J)
    <2>1. I \in [N -> SUBSET Point] /\ I[Fake] = Point BY <1>1 DEF Spans
    <2>2. J \in [M -> SUBSET Point] /\ J[key] = I[p] \cap Beside(p, dir)
          /\ \A y \in N : J[y] = I[y]
      BY <2>1
    <2> HIDE DEF J
    <2>3. ASSUME NEW y \in M, NEW d \in Dir, D[<<y, d>>] # Nil
          PROVE  D[<<y, d>>] \in J[y] \cap Beside(y, d) /\ J[D[<<y, d>>]] = J[y] \cap Beside(y, d)
      <3>1. y \in N BY <1>4, <2>3
      <3>2. CASE y = p /\ d = dir BY <1>4, <2>2, <3>2
      <3>3. CASE y # p \/ d # dir
        <4>1. D[<<y, d>>] = C[<<y, d>>] /\ C[<<y, d>>] \in N BY <1>4, <1>6, <2>3, <3>1, <3>3
        <4> QED BY <1>1, <2>2, <2>3, <3>1, <4>1 DEF Spans
      <3> QED BY <3>2, <3>3
    <2>4. Fake \in N BY <1>1 DEF Shape
    <2> QED BY <2>1, <2>2, <2>3, <2>4 DEF Spans
  <1>11. Even(M, D, u.red, f, h)
    <2>1. /\ b \in [N -> Int] /\ h \in Int
          /\ \A y \in N \ {Fake} : \A d \in Dir :
               /\ b[y] <= h
               /\ C[<<y, d>>] = Nil => b[y] = h
               /\ C[<<y, d>>] # Nil /\ C[<<y, d>>] \in R => b[C[<<y, d>>]] = b[y]
               /\ C[<<y, d>>] # Nil /\ C[<<y, d>>] \notin R => b[C[<<y, d>>]] = b[y] + 1
      BY <1>1 DEF Even
    <2>2. f \in [M -> Int] /\ f[key] = h /\ \A y \in N : f[y] = b[y] BY <2>1
    <2> HIDE DEF f
    <2>3. ASSUME NEW y \in M \ {Fake}, NEW d \in Dir
          PROVE  /\ f[y] <= h
                 /\ D[<<y, d>>] = Nil => f[y] = h
                 /\ D[<<y, d>>] # Nil /\ D[<<y, d>>] \in u.red => f[D[<<y, d>>]] = f[y]
                 /\ D[<<y, d>>] # Nil /\ D[<<y, d>>] \notin u.red => f[D[<<y, d>>]] = f[y] + 1
      <3>1. CASE y = key BY <1>4, <2>1, <2>2, <3>1
      <3>2. CASE y = p /\ d = dir BY <1>2, <1>3, <1>4, <2>1, <2>2, <2>3, <3>2
      <3>3. CASE y # key /\ (y # p \/ d # dir)
        <4>1. y \in N /\ D[<<y, d>>] = C[<<y, d>>] /\ D[<<y, d>>] # key
          BY <1>4, <1>5, <3>3
        <4>2. D[<<y, d>>] # Nil => D[<<y, d>>] \in N BY <1>6, <4>1
        <4> QED BY <1>3, <2>1, <2>2, <2>3, <4>1, <4>2
      <3> QED BY <1>2, <3>1, <3>2, <3>3
    <2> QED BY <2>1, <2>2, <2>3 DEF Even
  <1> HIDE DEF J, f
  <1> QED BY <1>3, <1>4, <1>9, <1>10, <1>11 DEF D

(* One key less. *)
LEMMA Shrinks ==
  ASSUME NEW W, IsFiniteSet(W), NEW V \in SUBSET W, NEW x \in W, x \notin V
  PROVE  /\ Cardinality(V) \in Nat /\ Cardinality(W) \in Nat
         /\ Cardinality(V) + 1 <= Cardinality(W)
  <1>1. IsFiniteSet(V) /\ IsFiniteSet(W \ {x}) BY FS_Subset
  <1>2. V \subseteq W \ {x} OBVIOUS
  <1>3. /\ Cardinality(V) \in Nat /\ Cardinality(W) \in Nat /\ Cardinality(W \ {x}) \in Nat
    BY <1>1, FS_CardinalityType
  <1>4. Cardinality(V) <= Cardinality(W \ {x}) BY <1>1, <1>2, FS_Subset
  <1>5. Cardinality(W \ {x}) = Cardinality(W) - 1 BY FS_RemoveElement
  <1> QED BY <1>3, <1>4, <1>5

(* Where the walk for key is: below p, on the side dir. *)
Place(t, I, p, dir, node, key) ==
  /\ p \in t.nodes \ {Fake} /\ dir \in Dir /\ node = t.child[<<p, dir>>]
  /\ key \in Point /\ key \in I[p] /\ key \in Beside(p, dir)
(* The keys left on the way down. *)
Room(t, I, p, dir) == t.nodes \cap I[p] \cap Beside(p, dir)

(* A step down for the key stays on the key's way, with one key less below. *)
LEMMA NextPlace ==
  ASSUME NEW t, NEW I, IsTree(t), Spans(t.nodes, t.child, I), NEW p, NEW dir, NEW node, NEW key,
         Place(t, I, p, dir, node, key), node # Nil, node # key
  PROVE  /\ Place(t, I, node, Toward(node, key), t.child[<<node, Toward(node, key)>>], key)
         /\ I[node] = I[p] \cap Beside(p, dir)
         /\ Room(t, I, node, Toward(node, key)) \in SUBSET Room(t, I, p, dir)
         /\ node \in Room(t, I, p, dir) /\ node \notin Room(t, I, node, Toward(node, key))
         /\ IsFiniteSet(Room(t, I, p, dir))
  <1> DEFINE N == t.nodes
             C == t.child
             next == Toward(node, key)
  <1>1. Shape(N, C) /\ IsFiniteSet(N) BY DEF IsTree, Shape
  <1>2. /\ p \in N \ {Fake} /\ dir \in Dir /\ node = C[<<p, dir>>] /\ key \in Point
        /\ key \in I[p] /\ key \in Beside(p, dir)
    BY DEF Place
  <1>3. node \in N \ {Fake} /\ node \in Point BY <1>1, <1>2 DEF Shape
  <1>4. node \in I[p] \cap Beside(p, dir) /\ I[node] = I[p] \cap Beside(p, dir)
    BY <1>2 DEF Spans
  <1>5. next \in Dir BY DEF Toward, Dir
  <1>6. key \in Beside(node, next) /\ node \notin Beside(node, next)
    BY <1>2, <1>3, <1>5, Sides
  <1>7. IsFiniteSet(Room(t, I, p, dir))
    <2>1. Room(t, I, p, dir) \subseteq N BY DEF Room
    <2> QED BY <1>1, <2>1, FS_Subset
  <1> QED BY <1>2, <1>3, <1>4, <1>5, <1>6, <1>7 DEF Place, Room

(* What is above p. *)
Above(t, ggp, gp, last, p) ==
  \/ gp = Nil /\ ggp = Fake /\ t.child[<<Fake, "right">>] = p
  \/ gp \in t.nodes \ {Fake} /\ last \in Dir /\ t.child[<<gp, last>>] = p
(* A node with no red child. *)
Calm(t, x) == \A d \in Dir : t.child[<<x, d>>] \notin t.red

(* The walk is at the root, or below a p with at most one red child, or    *)
(* below a p that was coloured, or below one that was turned up twice.     *)
AtRoot(s) ==
  /\ s.p = Nil /\ s.gp = Nil /\ s.ggp = Fake /\ s.node = Root(s.tree) /\ s.node # Nil
  /\ s.node \notin s.tree.red
(* Below a p with at most one red child: a red p then has a black parent    *)
(* and sibling.                                                             *)
AtPlain(s) ==
  /\ Above(s.tree, s.ggp, s.gp, s.last, s.p)
  /\ \E d \in Dir : s.tree.child[<<s.p, d>>] \notin s.tree.red
  /\ s.p \in s.tree.red =>
       /\ s.gp \in s.tree.nodes \ {Fake} /\ s.gp \notin s.tree.red
       /\ s.tree.child[<<s.gp, Other(s.last)>>] \notin s.tree.red
       /\ s.ggp \in s.tree.nodes /\ \E d \in Dir : s.tree.child[<<s.ggp, d>>] = s.gp
(* Below a p whose children may have been coloured: node is black with      *)
(* black children.                                                          *)
AtFlipped(s) ==
  /\ Above(s.tree, s.ggp, s.gp, s.last, s.p)
  /\ s.node # Nil /\ s.node \notin s.tree.red /\ Calm(s.tree, s.node)
(* Two levels above c, after a double turn sent the walk back up. *)
AtTwice(s, key) ==
  LET c == s.tree.child[<<s.node, Toward(s.node, key)>>] IN
  /\ s.p \notin s.tree.red /\ s.node \in s.tree.red /\ s.node # key
  /\ c # Nil /\ c \notin s.tree.red /\ Calm(s.tree, c)

(* The walk is at one of these places, and the passes it has left are       *)
(* enough for the keys below it.                                            *)
Walking(s, key, I, n, K) ==
  /\ ~s.done
  /\ \/ AtRoot(s) /\ n + 2 * Cardinality(s.tree.nodes \ {Fake}) <= 2 * K
     \/ /\ Place(s.tree, I, s.p, s.dir, s.node, key)
        /\ \/ /\ AtPlain(s) \/ AtFlipped(s)
              /\ n + 2 * Cardinality(Room(s.tree, I, s.p, s.dir)) <= 2 * K
           \/ /\ AtTwice(s, key)
              /\ n + 2 * Cardinality(Room(s.tree, I, s.node, Toward(s.node, key))) + 1 <= 2 * K
(* The invariant of insert's loop (90-132): a certified tree of the keys    *)
(* N0, and of the new key too at the end; n passes of at most 2K + 1 are    *)
(* done.                                                                    *)
InsertInv(s, key, N0, n, K) ==
  \/ /\ ~s.done /\ s.tree.nodes = N0
     /\ \E I, b, h : Certified(s.tree, I, b, h) /\ Walking(s, key, I, n, K)
  \/ /\ s.done /\ s.tree.nodes = N0 \cup {key}
     /\ \E I, b, h : Certified(s.tree, I, b, h)

(* What one pass of the loop assigns, with here the node it is at and u the *)
(* tree once grown and repaired.                                            *)
Stepped(r, s, key, u, here) ==
  /\ r.tree = u /\ r.gp = s.p /\ r.p = here /\ r.last = s.dir
  /\ r.ggp = IF s.gp = Nil THEN s.ggp ELSE s.gp
  /\ r.dir = Toward(here, key) /\ r.node = u.child[<<here, Toward(here, key)>>]
  /\ r.done = (here = key)

(* A pass is at its node, or at the new one if there was none. *)
LEMMA PassAt ==
  ASSUME NEW s, NEW key, NEW here, here = IF s.node = Nil THEN key ELSE s.node,
         NEW u, u = Fixed(Grown(s, key), s, here)
  PROVE  Stepped(InsertStep(s, key), s, key, u, here)
  <1>1. InsertStep(s, key) =
          [tree |-> u, ggp |-> IF s.gp = Nil THEN s.ggp ELSE s.gp, gp |-> s.p, p |-> here,
           node |-> u.child[<<here, Toward(here, key)>>], dir |-> Toward(here, key),
           last |-> s.dir, done |-> here = key]
    BY DEF InsertStep
  <1> QED BY ONLY <1>1 DEF Stepped

(* A pass stops exactly at the key. *)
LEMMA StepDone ==
  ASSUME NEW r, NEW s, NEW key, NEW u, NEW here, Stepped(r, s, key, u, here)
  PROVE  r.done <=> here = key
  <1>1. r.done = (here = key) BY DEF Stepped
  <1> QED BY ONLY <1>1

(* Nothing is coloured or turned. *)
LEMMA InsertQuiet ==
  ASSUME NEW s, NEW key, s.node # Nil,
         \E d \in Dir : s.tree.child[<<s.node, d>>] \notin s.tree.red,
         s.node \notin s.tree.red \/ s.p \notin s.tree.red
  PROVE  Stepped(InsertStep(s, key), s, key, s.tree, s.node)
  <1>1. Grown(s, key) = s.tree BY DEF Grown
  <1>2. Fixed(s.tree, s, s.node) = s.tree BY DEF Fixed
  <1>3. s.node = IF s.node = Nil THEN key ELSE s.node OBVIOUS
  <1> QED BY <1>1, <1>2, <1>3, PassAt

(* A pass that colours and turns nothing goes one level down the key's way. *)
LEMMA QuietOn ==
  ASSUME NEW s, NEW key, NEW I, IsTree(s.tree), Spans(s.tree.nodes, s.tree.child, I),
         Place(s.tree, I, s.p, s.dir, s.node, key), s.node # Nil, s.node # key,
         \E d \in Dir : s.tree.child[<<s.node, d>>] \notin s.tree.red,
         s.node \notin s.tree.red \/ s.p \notin s.tree.red, NEW r, r = InsertStep(s, key)
  PROVE  /\ ~r.done /\ r.tree = s.tree /\ r.p = s.node /\ r.gp = s.p /\ r.last = s.dir
         /\ r.ggp = IF s.gp = Nil THEN s.ggp ELSE s.gp
         /\ Place(r.tree, I, r.p, r.dir, r.node, key)
         /\ Above(r.tree, r.ggp, r.gp, r.last, r.p)
         /\ r.dir = Toward(s.node, key)
         /\ Room(r.tree, I, r.p, r.dir) \in SUBSET Room(s.tree, I, s.p, s.dir)
         /\ Cardinality(Room(r.tree, I, r.p, r.dir)) \in Nat
         /\ Cardinality(Room(s.tree, I, s.p, s.dir)) \in Nat
         /\ Cardinality(Room(r.tree, I, r.p, r.dir)) + 1 <= Cardinality(Room(s.tree, I, s.p, s.dir))
  <1>1. PICK d \in Dir : s.tree.child[<<s.node, d>>] \notin s.tree.red OBVIOUS
  <1>2. Stepped(r, s, key, s.tree, s.node) BY <1>1, InsertQuiet
  <1>3. /\ r.tree = s.tree /\ r.p = s.node /\ r.gp = s.p /\ r.last = s.dir
        /\ r.node = s.tree.child[<<s.node, Toward(s.node, key)>>] /\ r.dir = Toward(s.node, key)
        /\ r.ggp = IF s.gp = Nil THEN s.ggp ELSE s.gp
    BY <1>2 DEF Stepped
  <1>4. ~r.done
    <2>1. r.done <=> s.node = key BY <1>2, StepDone
    <2> QED BY <2>1
  <1>5. /\ Place(s.tree, I, s.node, Toward(s.node, key),
                 s.tree.child[<<s.node, Toward(s.node, key)>>], key)
        /\ Room(s.tree, I, s.node, Toward(s.node, key)) \in SUBSET Room(s.tree, I, s.p, s.dir)
        /\ s.node \in Room(s.tree, I, s.p, s.dir)
        /\ s.node \notin Room(s.tree, I, s.node, Toward(s.node, key))
        /\ IsFiniteSet(Room(s.tree, I, s.p, s.dir))
    BY NextPlace
  <1>6. /\ s.p \in s.tree.nodes \ {Fake} /\ s.dir \in Dir
        /\ s.tree.child[<<s.p, s.dir>>] = s.node
    BY DEF Place
  <1>7. Above(r.tree, r.ggp, r.gp, r.last, r.p) BY <1>3, <1>6 DEF Above
  <1>8. /\ Cardinality(Room(s.tree, I, s.node, Toward(s.node, key))) \in Nat
        /\ Cardinality(Room(s.tree, I, s.p, s.dir)) \in Nat
        /\ Cardinality(Room(s.tree, I, s.node, Toward(s.node, key))) + 1
             <= Cardinality(Room(s.tree, I, s.p, s.dir))
    BY <1>5, Shrinks
  <1> QED BY <1>3, <1>4, <1>5, <1>7, <1>8

(* One that meets the key ends the walk. *)
LEMMA QuietEnd ==
  ASSUME NEW s, NEW key, NEW I, NEW b, NEW h, NEW N0, NEW n, NEW K, Certified(s.tree, I, b, h),
         s.tree.nodes = N0, s.node = key, key \in N0, key \in Point,
         \E d \in Dir : s.tree.child[<<s.node, d>>] \notin s.tree.red,
         s.node \notin s.tree.red \/ s.p \notin s.tree.red
  PROVE  InsertInv(InsertStep(s, key), key, N0, n, K)
  <1> DEFINE r == InsertStep(s, key)
  <1>1. PICK d \in Dir : s.tree.child[<<s.node, d>>] \notin s.tree.red OBVIOUS
  <1>2. s.node # Nil BY RBTreeAssumption
  <1>3. Stepped(r, s, key, s.tree, s.node) BY <1>1, <1>2, InsertQuiet
  <1> HIDE DEF r
  <1>4. r.tree = s.tree BY <1>3 DEF Stepped
  <1>5. r.done
    <2>1. r.done <=> s.node = key BY <1>3, StepDone
    <2> QED BY <2>1
  <1>6. N0 = N0 \cup {key} OBVIOUS
  <1>7. \E II, bb, hh : Certified(r.tree, II, bb, hh) BY <1>4
  <1>8. r.tree.nodes = N0 \cup {key} BY <1>4, <1>6
  <1>9. InsertInv(r, key, N0, n, K) BY <1>5, <1>7, <1>8 DEF InsertInv
  <1> QED BY <1>9 DEF r

(* The pass below a coloured node keeps the invariant. *)
LEMMA StepFlipped ==
  ASSUME NEW s, NEW key, NEW I, NEW b, NEW h, NEW N0, NEW n \in Nat, NEW K \in Nat,
         Certified(s.tree, I, b, h), s.tree.nodes = N0,
         Place(s.tree, I, s.p, s.dir, s.node, key), AtFlipped(s),
         n + 2 * Cardinality(Room(s.tree, I, s.p, s.dir)) <= 2 * K
  PROVE  InsertInv(InsertStep(s, key), key, N0, n + 1, K)
  <1> DEFINE r == InsertStep(s, key)
  <1>1. /\ IsTree(s.tree) /\ Spans(s.tree.nodes, s.tree.child, I)
        /\ s.node # Nil /\ s.node \notin s.tree.red
        /\ \A d \in Dir : s.tree.child[<<s.node, d>>] \notin s.tree.red
        /\ \E d \in Dir : s.tree.child[<<s.node, d>>] \notin s.tree.red
    BY DEF Certified, AtFlipped, Calm, Dir
  <1>2. s.node \in N0 \ {Fake} /\ key \in Point
    BY <1>1 DEF Place, IsTree, Shape
  <1>3. CASE s.node = key BY <1>1, <1>2, <1>3, QuietEnd
  <1>4. CASE s.node # key
    <2>7. r = InsertStep(s, key) BY DEF r
    <2> HIDE DEF r
    <2>1. /\ ~r.done /\ r.tree = s.tree /\ r.p = s.node
          /\ Place(r.tree, I, r.p, r.dir, r.node, key)
          /\ Above(r.tree, r.ggp, r.gp, r.last, r.p)
      BY <1>1, <1>4, <2>7, QuietOn
    <2>8. /\ Cardinality(Room(r.tree, I, r.p, r.dir)) \in Nat
          /\ Cardinality(Room(s.tree, I, s.p, s.dir)) \in Nat
          /\ Cardinality(Room(r.tree, I, r.p, r.dir)) + 1
               <= Cardinality(Room(s.tree, I, s.p, s.dir))
      BY <1>1, <1>4, <2>7, QuietOn
    <2>2. AtPlain(r) BY <1>1, <2>1 DEF AtPlain
    <2>3. n + 1 + 2 * Cardinality(Room(r.tree, I, r.p, r.dir)) <= 2 * K
      BY <2>8
    <2>4. Walking(r, key, I, n + 1, K) BY <2>1, <2>2, <2>3 DEF Walking
    <2>5. Certified(r.tree, I, b, h) /\ r.tree.nodes = N0 BY <2>1
    <2>6. InsertInv(r, key, N0, n + 1, K) BY <2>1, <2>4, <2>5 DEF InsertInv
    <2> QED BY <2>6 DEF r
  <1> QED BY <1>3, <1>4

(* So does a pass on the way back down from a double turn. *)
LEMMA StepTwice ==
  ASSUME NEW s, NEW key, NEW I, NEW b, NEW h, NEW N0, NEW n \in Nat, NEW K \in Nat,
         Certified(s.tree, I, b, h), s.tree.nodes = N0,
         Place(s.tree, I, s.p, s.dir, s.node, key), AtTwice(s, key),
         n + 2 * Cardinality(Room(s.tree, I, s.node, Toward(s.node, key))) + 1 <= 2 * K
  PROVE  InsertInv(InsertStep(s, key), key, N0, n + 1, K)
  <1> DEFINE r == InsertStep(s, key)
             c == s.tree.child[<<s.node, Toward(s.node, key)>>]
  <1>1. /\ IsTree(s.tree) /\ Spans(s.tree.nodes, s.tree.child, I)
        /\ s.node \in s.tree.red /\ s.node # key /\ s.p \notin s.tree.red
        /\ c # Nil /\ c \notin s.tree.red /\ Calm(s.tree, c)
        /\ \E d \in Dir : s.tree.child[<<s.node, d>>] \notin s.tree.red
    BY DEF Certified, RedRule, AtTwice, Dir
  <1>2. s.node # Nil BY <1>1, RBTreeAssumption DEF IsTree, Shape
  <1>10. r = InsertStep(s, key) BY DEF r
  <1> HIDE DEF r
  <1>3. /\ ~r.done /\ r.tree = s.tree /\ r.p = s.node /\ r.dir = Toward(s.node, key)
        /\ Place(r.tree, I, r.p, r.dir, r.node, key)
        /\ Above(r.tree, r.ggp, r.gp, r.last, r.p)
        /\ Cardinality(Room(r.tree, I, r.p, r.dir)) \in Nat
    BY <1>1, <1>2, <1>10, QuietOn
  <1>4. r.node = c BY <1>3 DEF Place
  <1>5. AtFlipped(r) BY <1>1, <1>3, <1>4 DEF AtFlipped
  <1>6. n + 1 + 2 * Cardinality(Room(r.tree, I, r.p, r.dir)) <= 2 * K BY <1>3
  <1>7. Walking(r, key, I, n + 1, K) BY <1>3, <1>5, <1>6 DEF Walking
  <1>8. Certified(r.tree, I, b, h) /\ r.tree.nodes = N0 BY <1>3
  <1>9. InsertInv(r, key, N0, n + 1, K) BY <1>3, <1>7, <1>8 DEF InsertInv
  <1> QED BY <1>9 DEF r

(* So does a pass at a node that has a black child. *)
LEMMA StepPlain ==
  ASSUME NEW s, NEW key, NEW I, NEW b, NEW h, NEW N0, NEW n \in Nat, NEW K \in Nat,
         Certified(s.tree, I, b, h), s.tree.nodes = N0,
         Place(s.tree, I, s.p, s.dir, s.node, key), AtPlain(s), s.node # Nil,
         \E d \in Dir : s.tree.child[<<s.node, d>>] \notin s.tree.red,
         n + 2 * Cardinality(Room(s.tree, I, s.p, s.dir)) <= 2 * K
  PROVE  InsertInv(InsertStep(s, key), key, N0, n + 1, K)
  <1> DEFINE r == InsertStep(s, key)
  <1>1. /\ IsTree(s.tree) /\ Spans(s.tree.nodes, s.tree.child, I)
        /\ RedRule(s.tree.child, s.tree.red) /\ Shape(s.tree.nodes, s.tree.child)
    BY DEF Certified, IsTree
  <1>2. /\ s.p \in s.tree.nodes \ {Fake} /\ s.dir \in Dir
        /\ s.node = s.tree.child[<<s.p, s.dir>>] /\ key \in Point
    BY DEF Place
  <1>3. s.node \in N0 \ {Fake} BY <1>1, <1>2 DEF Shape
  <1>4. s.p \in s.tree.red => s.node \notin s.tree.red BY <1>1, <1>2 DEF RedRule
  <1>5. CASE s.node = key BY <1>2, <1>3, <1>4, <1>5, QuietEnd
  <1>6. CASE s.node # key
    <2>7. r = InsertStep(s, key) BY DEF r
    <2> HIDE DEF r
    <2>1. /\ ~r.done /\ r.tree = s.tree /\ r.p = s.node /\ r.gp = s.p /\ r.last = s.dir
          /\ r.ggp = IF s.gp = Nil THEN s.ggp ELSE s.gp
          /\ Place(r.tree, I, r.p, r.dir, r.node, key)
          /\ Above(r.tree, r.ggp, r.gp, r.last, r.p)
      BY <1>1, <1>4, <1>6, <2>7, QuietOn
    <2>8. /\ Cardinality(Room(r.tree, I, r.p, r.dir)) \in Nat
          /\ Cardinality(Room(s.tree, I, s.p, s.dir)) \in Nat
          /\ Cardinality(Room(r.tree, I, r.p, r.dir)) + 1
               <= Cardinality(Room(s.tree, I, s.p, s.dir))
      BY <1>1, <1>4, <1>6, <2>7, QuietOn
    <2>2. AtPlain(r)
      <3>1. ASSUME s.node \in s.tree.red
            PROVE  /\ s.p \notin s.tree.red
                   /\ s.tree.child[<<s.p, Other(s.dir)>>] \notin s.tree.red
        <4>1. PICK d \in Dir : s.tree.child[<<s.p, d>>] \notin s.tree.red BY DEF AtPlain
        <4>2. d = Other(s.dir) BY <1>2, <3>1, <4>1, Dirs
        <4> QED BY <1>4, <3>1, <4>1, <4>2
      <3>2. r.ggp \in s.tree.nodes /\ \E d \in Dir : s.tree.child[<<r.ggp, d>>] = s.p
        <4>1. Above(s.tree, s.ggp, s.gp, s.last, s.p) BY DEF AtPlain
        <4>2. Fake \in s.tree.nodes /\ Nil \notin s.tree.nodes \ {Fake}
          BY <1>1, RBTreeAssumption DEF Shape
        <4> QED BY <2>1, <4>1, <4>2 DEF Above, Dir
      <3> QED BY <1>2, <2>1, <3>1, <3>2 DEF AtPlain
    <2>3. n + 1 + 2 * Cardinality(Room(r.tree, I, r.p, r.dir)) <= 2 * K
      BY <2>8
    <2>4. Walking(r, key, I, n + 1, K) BY <2>1, <2>2, <2>3 DEF Walking
    <2>5. Certified(r.tree, I, b, h) /\ r.tree.nodes = N0 BY <2>1
    <2>6. InsertInv(r, key, N0, n + 1, K) BY <2>1, <2>4, <2>5 DEF InsertInv
    <2> QED BY <2>6 DEF r
  <1> QED BY <1>5, <1>6

(* Either turn of insert (103-112) leaves a certified tree. *)
LEMMA Resolved ==
  ASSUME NEW t, NEW I, NEW b, NEW h, NEW ggp, NEW gd, NEW gp, NEW last, NEW p, NEW dir, NEW here,
         Clash(t, I, b, h, ggp, gd, gp, last, p, dir, here),
         NEW u, u = IF here = t.child[<<p, last>>] THEN Hang(Rotate(t, gp, Other(last)), ggp, gd)
                    ELSE Hang(DoubleRotate(t, gp, Other(last)), ggp, gd)
  PROVE  /\ u.nodes = t.nodes /\ \E J : Certified(u, J, b, h)
         /\ dir = last => u = Hang(Rotate(t, gp, Other(last)), ggp, gd)
         /\ dir # last => dir = Other(last) /\ u = Hang(DoubleRotate(t, gp, Other(last)), ggp, gd)
  <1>1. /\ Shape(t.nodes, t.child) /\ p \in t.nodes /\ here \in t.nodes /\ dir \in Dir
        /\ last \in Dir /\ t.child[<<p, dir>>] = here
    BY DEF Clash, IsTree
  <1>2. here # Nil
    <2>1. here \in t.nodes \ {Fake} BY DEF Clash, IsTree
    <2> QED BY <1>1, <2>1, RBTreeAssumption DEF Shape
  <1>3. here = t.child[<<p, last>>] <=> dir = last BY <1>1, <1>2 DEF Shape
  <1>4. dir # last => dir = Other(last) BY <1>1, Dirs
  <1>5. CASE dir = last
    <2>1. u = Hang(Rotate(t, gp, Other(last)), ggp, gd) BY <1>3, <1>5
    <2>2. Clash(t, I, b, h, ggp, gd, gp, last, p, last, here) BY <1>5
    <2>3. /\ Certified(Hang(Rotate(t, gp, Other(last)), ggp, gd),
                       TurnSpans(I, gp, p, Other(last)), b, h)
          /\ Hang(Rotate(t, gp, Other(last)), ggp, gd).nodes = t.nodes
      BY <2>2, OuterClash
    <2> QED BY <1>5, <2>1, <2>3
  <1>6. CASE dir # last
    <2>1. u = Hang(DoubleRotate(t, gp, Other(last)), ggp, gd) BY <1>3, <1>6
    <2>2. Clash(t, I, b, h, ggp, gd, gp, last, p, Other(last), here) BY <1>4, <1>6
    <2>3. /\ Certified(Hang(DoubleRotate(t, gp, Other(last)), ggp, gd),
                       TurnSpans(TurnSpans(I, p, here, last), gp, here, Other(last)), b, h)
          /\ Hang(DoubleRotate(t, gp, Other(last)), ggp, gd).nodes = t.nodes
      BY <2>2, InnerClash
    <2> QED BY <1>4, <1>6, <2>1, <2>3
  <1> QED BY <1>5, <1>6

(* The pass that puts the new leaf (91-95) ends the walk with the key in   *)
(* the tree, whether its parent is red or black.                            *)
LEMMA StepAttach ==
  ASSUME NEW s, NEW key, NEW I, NEW b, NEW h, NEW N0, NEW n, NEW K,
         Certified(s.tree, I, b, h), s.tree.nodes = N0,
         Place(s.tree, I, s.p, s.dir, s.node, key), AtPlain(s), s.node = Nil
  PROVE  InsertInv(InsertStep(s, key), key, N0, n, K)
  <1> DEFINE t == s.tree
             N == t.nodes
             C == t.child
             R == t.red
             t1 == Attach(t, key, s.p, s.dir)
             D == t1.child
             M == N \cup {key}
             gd == IF t1.child[<<s.ggp, "right">>] = s.gp THEN "right" ELSE "left"
             turned == IF key = t1.child[<<s.p, s.last>>]
                       THEN Hang(Rotate(t1, s.gp, Other(s.last)), s.ggp, gd)
                       ELSE Hang(DoubleRotate(t1, s.gp, Other(s.last)), s.ggp, gd)
             u == IF s.p \in R THEN turned ELSE t1
  <1>1. /\ IsTree(t) /\ Spans(N, C, I) /\ Shape(N, C) /\ R \subseteq N \ {Fake}
        /\ RedRule(C, R) /\ N \subseteq Point \cup {Fake} /\ Nil \notin N
    BY RBTreeAssumption DEF Certified, IsTree, Shape
  <1>2. /\ s.p \in N \ {Fake} /\ s.dir \in Dir /\ C[<<s.p, s.dir>>] = Nil
        /\ key \in Point /\ key \in I[s.p] /\ key \in Beside(s.p, s.dir)
    BY DEF Place
  <1>3. key \notin N BY <1>1, <1>2, EmptySlot
  <1>4. key # Fake /\ key # Nil BY <1>2, RBTreeAssumption
  <1>5. /\ IsTree(t1) /\ t1.nodes = M /\ t1.red = R \cup {key}
        /\ (\E J : Spans(M, D, J)) /\ (\E f : Even(M, D, t1.red, f, h))
        /\ D[<<s.p, s.dir>>] = key
        /\ \A d \in Dir : D[<<key, d>>] = Nil
        /\ \A y \in N : \A d \in Dir : y # s.p \/ d # s.dir => D[<<y, d>>] = C[<<y, d>>]
    <2>1. t1 = Attach(t, key, s.p, s.dir) /\ M = t.nodes \cup {key} OBVIOUS
    <2>2. s.p \in t.nodes /\ <<s.p, s.dir>> # <<Fake, "left">> BY <1>2
    <2>3. Certified(t, I, b, h) /\ t.child[<<s.p, s.dir>>] = Nil /\ key \notin t.nodes
      BY <1>2, <1>3
    <2> HIDE DEF t1, M, D, t
    <2>4. /\ IsTree(t1) /\ t1.nodes = t.nodes \cup {key} /\ t1.red = t.red \cup {key}
          /\ (\E J : Spans(t1.nodes, t1.child, J))
          /\ (\E f : Even(t1.nodes, t1.child, t1.red, f, h))
          /\ t1.child[<<s.p, s.dir>>] = key
      BY <1>2, <2>1, <2>2, <2>3, AttachAt
    <2>5. /\ \A d \in Dir : t1.child[<<key, d>>] = Nil
          /\ \A y \in t.nodes : \A d \in Dir :
               y # s.p \/ d # s.dir => t1.child[<<y, d>>] = t.child[<<y, d>>]
      BY <1>1, <1>2, <2>1, <2>2, <2>3, AttachSlots
    <2>6. t1.nodes = M BY <2>1, <2>4
    <2> QED BY <2>4, <2>5, <2>6 DEF D, t
  <1> HIDE DEF t1, D, gd
  <1>13. PICK J : Spans(M, D, J) BY <1>5
  <1>14. PICK f : Even(M, D, t1.red, f, h) BY <1>5
  <1>6. \A y \in N : \A d \in Dir : C[<<y, d>>] \in (N \ {Fake}) \cup {Nil} BY <1>1 DEF Shape
  <1>7. \A y \in N : \A d \in Dir : C[<<y, d>>] # key BY <1>3, <1>4, <1>6
  <1>8. \A y \in R : \A d \in Dir : C[<<y, d>>] \notin R BY <1>1 DEF RedRule
  <1>9. ASSUME NEW y \in R \cup {key}, NEW d \in Dir, D[<<y, d>>] \in R \cup {key}
        PROVE  y = s.p /\ d = s.dir
    <2>1. CASE y = key BY <1>1, <1>4, <1>5, <1>9, <2>1
    <2>2. CASE y \in R /\ (y # s.p \/ d # s.dir)
      <3>1. D[<<y, d>>] = C[<<y, d>>] /\ y \in N BY <1>1, <1>5, <2>2
      <3> QED BY <1>7, <1>8, <1>9, <2>2, <3>1
    <2> QED BY <2>1, <2>2
  <1>10. (\E JJ : Certified(u, JJ, f, h)) /\ u.nodes = M
    <2>1. CASE s.p \notin R
      <3>1. RedRule(D, t1.red) BY <1>2, <1>3, <1>5, <1>9, <2>1 DEF RedRule
      <3>2. Certified(t1, J, f, h) BY <1>5, <1>13, <1>14, <3>1 DEF Certified, D
      <3> QED BY <1>5, <2>1, <3>2
    <2>2. CASE s.p \in R
      <3>1. /\ s.gp \in N \ {Fake} /\ s.gp \notin R /\ C[<<s.gp, Other(s.last)>>] \notin R
            /\ s.ggp \in N /\ \E d \in Dir : C[<<s.ggp, d>>] = s.gp
        BY <2>2 DEF AtPlain
      <3>2. s.last \in Dir /\ C[<<s.gp, s.last>>] = s.p
        <4>1. s.gp # Nil BY <1>1, <3>1
        <4> QED BY <4>1 DEF AtPlain, Above
      <3>3. PICK e \in Dir : C[<<s.ggp, e>>] = s.gp BY <3>1
      <3>4. D[<<s.ggp, e>>] = s.gp BY <1>1, <1>2, <1>5, <3>1, <3>3
      <3>5. gd \in Dir /\ D[<<s.ggp, gd>>] = s.gp
        BY <3>3, <3>4 DEF gd, Dir, D
      <3>6. Other(s.last) \in Dir BY <3>2, Dirs
      <3>7. /\ D[<<s.gp, s.last>>] = s.p
            /\ D[<<s.gp, Other(s.last)>>] = C[<<s.gp, Other(s.last)>>]
        BY <1>5, <2>2, <3>1, <3>2, <3>6
      <3>8. D[<<s.gp, Other(s.last)>>] \notin R \cup {key} BY <1>7, <3>1, <3>6, <3>7
      <3>9. \A d \in Dir : D[<<key, d>>] \notin R \cup {key} BY <1>1, <1>4, <1>5
      <3>10. Clash(t1, J, f, h, s.ggp, gd, s.gp, s.last, s.p, s.dir, key)
        <4>1. s.gp \notin R \cup {key} /\ s.gp \in M \ {Fake} /\ s.ggp \in M BY <1>3, <3>1
        <4> QED BY <1>2, <1>5, <1>9, <1>13, <1>14, <2>2, <3>2, <3>5, <3>7, <3>8, <3>9, <4>1 DEF Clash, D
      <3>11. turned.nodes = t1.nodes /\ \E JJ : Certified(turned, JJ, f, h)
        BY <3>10, Resolved
      <3> QED BY <1>5, <2>2, <3>11
    <2> QED BY <2>1, <2>2
  <1>11. Fixed(t1, s, key) = u
    <2>1. {key, s.p} \subseteq t1.red <=> s.p \in R BY <1>2, <1>3, <1>5
    <2> QED BY <2>1 DEF Fixed, gd
  <1>12. Grown(s, key) = t1 BY DEF Grown, t1
  <1> DEFINE r == InsertStep(s, key)
  <1> HIDE DEF u
  <1>16. r.tree = u /\ r.done
    <2>2. u = Fixed(Grown(s, key), s, key) BY <1>11, <1>12
    <2>3. key = IF s.node = Nil THEN key ELSE s.node OBVIOUS
    <2>4. Stepped(r, s, key, u, key) BY <2>2, <2>3, PassAt
    <2> HIDE DEF r
    <2>5. r.done <=> key = key BY <2>4, StepDone
    <2>6. r.tree = u BY <2>4 DEF Stepped
    <2> QED BY <2>5, <2>6
  <1> HIDE DEF r
  <1>17. InsertInv(r, key, N0, n, K) BY <1>10, <1>16 DEF InsertInv
  <1> QED BY <1>17 DEF r

(* The root is on the way to every key. *)
LEMMA PlaceRoot ==
  ASSUME NEW t, NEW I, IsTree(t), Spans(t.nodes, t.child, I), NEW x, x = Root(t), x # Nil,
         NEW key \in Point, key # x, NEW dir, dir = Toward(x, key)
  PROVE  /\ Place(t, I, x, dir, t.child[<<x, dir>>], key)
         /\ Above(t, Fake, Nil, "left", x) /\ x \in t.nodes \ {Fake}
         /\ Cardinality(Room(t, I, x, dir)) \in Nat /\ Cardinality(t.nodes \ {Fake}) \in Nat
         /\ Cardinality(Room(t, I, x, dir)) + 1 <= Cardinality(t.nodes \ {Fake})
  <1>1. /\ Shape(t.nodes, t.child) /\ Fake \in t.nodes /\ IsFiniteSet(t.nodes)
        /\ t.child[<<Fake, "right">>] = x /\ "right" \in Dir /\ Beside(Fake, "right") = Point
    BY DEF IsTree, Shape, Root, Dir, Beside
  <1>2. x \in t.nodes \ {Fake} /\ x \in Point BY <1>1 DEF Shape
  <1>3. I[Fake] = Point /\ I[x] = Point
    <2>1. I[Fake] = Point /\ I[x] = I[Fake] \cap Beside(Fake, "right") BY <1>1 DEF Spans
    <2> QED BY <1>1, <2>1
  <1>4. dir \in Dir BY DEF Toward, Dir
  <1>5. key \in Beside(x, dir) /\ x \notin Beside(x, dir) BY <1>2, <1>4, Sides
  <1>6. Place(t, I, x, dir, t.child[<<x, dir>>], key) BY <1>2, <1>3, <1>4, <1>5 DEF Place
  <1>7. Above(t, Fake, Nil, "left", x) BY <1>1 DEF Above
  <1>8. /\ Room(t, I, x, dir) \in SUBSET (t.nodes \ {Fake}) /\ x \notin Room(t, I, x, dir)
        /\ IsFiniteSet(t.nodes \ {Fake})
    <2>1. Fake \notin I[x] BY <1>3, RBTreeAssumption
    <2>2. IsFiniteSet(t.nodes \ {Fake}) BY <1>1, FS_Subset
    <2> QED BY <1>5, <2>1, <2>2 DEF Room
  <1>9. /\ Cardinality(Room(t, I, x, dir)) \in Nat /\ Cardinality(t.nodes \ {Fake}) \in Nat
        /\ Cardinality(Room(t, I, x, dir)) + 1 <= Cardinality(t.nodes \ {Fake})
    BY <1>2, <1>8, Shrinks
  <1> QED BY <1>2, <1>6, <1>7, <1>9

(* The invariant of a tree that was coloured only. *)
LEMMA FlippedCertified ==
  ASSUME NEW t, NEW I, NEW u, NEW x, NEW f, NEW h, Spans(t.nodes, t.child, I), Flipped(t, u, x),
         Even(u.nodes, u.child, u.red, f, h), NEW p, NEW d \in Dir, p \in t.nodes,
         t.child[<<p, d>>] = x, p \notin u.red, x # Nil
  PROVE  Certified(u, I, f, h)
  <1>1. /\ IsTree(u) /\ u.nodes = t.nodes /\ u.child = t.child /\ Shape(u.nodes, u.child)
        /\ u.red \subseteq u.nodes
    BY DEF Flipped, IsTree
  <1>2. \A y \in u.nodes : \A e \in Dir : u.child[<<y, e>>] = x => y = p
    <2>1. \A v, w \in u.nodes : \A e, g \in Dir :
            u.child[<<v, e>>] = u.child[<<w, g>>] /\ u.child[<<v, e>>] # Nil => v = w
      BY <1>1 DEF Shape
    <2> QED BY <1>1, <2>1
  <1>3. \A y \in u.red : \A e \in Dir : u.child[<<y, e>>] \in u.red => u.child[<<y, e>>] = x
    BY <1>1 DEF Flipped
  <1>4. RedRule(u.child, u.red) BY <1>1, <1>2, <1>3 DEF RedRule
  <1> QED BY <1>1, <1>4 DEF Certified

(* The first pass, at the root, keeps the invariant. *)
LEMMA StepRoot ==
  ASSUME NEW s, NEW key \in Point, NEW I, NEW b, NEW h, NEW N0, NEW n \in Nat, NEW K \in Nat,
         Certified(s.tree, I, b, h), s.tree.nodes = N0, AtRoot(s),
         n + 2 * Cardinality(s.tree.nodes \ {Fake}) <= 2 * K
  PROVE  InsertInv(InsertStep(s, key), key, N0, n + 1, K)
  <1> DEFINE r == InsertStep(s, key)
             x == s.node
             dir == Toward(x, key)
             kids == {s.tree.child[<<x, d>>] : d \in Dir}
             t1 == Paint(s.tree, {x}, kids)
  <1>1. /\ IsTree(s.tree) /\ Spans(s.tree.nodes, s.tree.child, I) /\ x # Nil
        /\ x = Root(s.tree) /\ s.p = Nil /\ s.gp = Nil /\ s.ggp = Fake /\ x \notin s.tree.red
        /\ Shape(s.tree.nodes, s.tree.child)
    BY DEF Certified, AtRoot, IsTree
  <1>2. x \in N0 \ {Fake} /\ Fake \in N0 /\ s.tree.child[<<Fake, "right">>] = x /\ "right" \in Dir
    BY <1>1 DEF Shape, Root, Dir
  <1>3. ASSUME NEW u, NEW f, Certified(u, I, f, h), u.nodes = N0, u.child = s.tree.child,
               r.tree = u, r.gp = Nil, r.ggp = Fake, r.p = x, r.dir = dir,
               r.node = u.child[<<x, dir>>], r.done <=> x = key, AtPlain(r) \/ AtFlipped(r) \/ x = key
        PROVE  InsertInv(r, key, N0, n + 1, K)
    <2> HIDE DEF r
    <2>1. CASE x = key
      <3>1. r.tree.nodes = N0 \cup {key} /\ r.done BY <1>2, <1>3, <2>1
      <3>2. \E II, bb, hh : Certified(r.tree, II, bb, hh) BY <1>3
      <3> QED BY <3>1, <3>2 DEF InsertInv
    <2>2. CASE x # key
      <3>1. IsTree(u) /\ Spans(u.nodes, u.child, I) BY <1>3 DEF Certified
      <3>2. x = Root(u) BY <1>1, <1>3 DEF Root
      <3>3. /\ Place(u, I, x, dir, u.child[<<x, dir>>], key)
            /\ Cardinality(Room(u, I, x, dir)) \in Nat /\ Cardinality(u.nodes \ {Fake}) \in Nat
            /\ Cardinality(Room(u, I, x, dir)) + 1 <= Cardinality(u.nodes \ {Fake})
        BY <1>1, <2>2, <3>1, <3>2, PlaceRoot
      <3> HIDE DEF dir, x
      <3>4. n + 1 + 2 * Cardinality(Room(u, I, x, dir)) <= 2 * K BY <1>3, <3>3
      <3>5. ~r.done BY <1>3, <2>2
      <3>6. Walking(r, key, I, n + 1, K) BY <1>3, <2>2, <3>3, <3>4, <3>5 DEF Walking
      <3> QED BY <1>3, <3>5, <3>6 DEF InsertInv
    <2> QED BY <2>1, <2>2
  <1>4. CASE kids \subseteq s.tree.red
    <2>1. Flipped(s.tree, t1, x) /\ \E f : Even(t1.nodes, t1.child, t1.red, f, h)
      BY <1>1, <1>2, <1>4, FlipAt
    <2> HIDE DEF t1, kids
    <2>2. PICK f : Even(t1.nodes, t1.child, t1.red, f, h) BY <2>1
    <2>3. /\ t1.nodes = N0 /\ t1.child = s.tree.child /\ Fake \notin t1.red /\ Nil \notin t1.red
      <3>1. t1.red \subseteq t1.nodes \ {Fake} /\ Nil \notin t1.nodes \ {Fake}
        BY <2>1, RBTreeAssumption DEF Flipped, IsTree, Shape
      <3> QED BY <2>1, <3>1 DEF Flipped
    <2>4. Certified(t1, I, f, h) BY <1>1, <1>2, <2>1, <2>2, <2>3, FlippedCertified
    <2>5. /\ r.tree = t1 /\ r.gp = s.p /\ r.p = x /\ r.ggp = Fake /\ r.dir = dir
          /\ r.node = t1.child[<<x, dir>>] /\ (r.done <=> x = key)
      <3>1. Grown(s, key) = t1 BY <1>1, <1>4 DEF Grown, t1, kids
      <3>2. Fixed(t1, s, x) = t1 BY <1>1, <2>3 DEF Fixed
      <3>3. x = IF s.node = Nil THEN key ELSE s.node BY <1>1
      <3>4. Stepped(r, s, key, t1, x) BY <3>1, <3>2, <3>3, PassAt
      <3> HIDE DEF r
      <3>5. r.done <=> x = key BY <3>4, StepDone
      <3> QED BY <1>1, <3>4, <3>5 DEF Stepped
    <2> HIDE DEF r
    <2>6. Above(t1, Fake, Nil, r.last, x) BY <1>2, <2>3 DEF Above
    <2>7. AtFlipped(r)
      <3>1. dir \in Dir BY DEF Toward, Dir
      <3>2. t1.child[<<x, dir>>] \in N0 \ {Fake} /\ t1.child[<<x, dir>>] \notin t1.red
            /\ \A e \in Dir : t1.child[<<t1.child[<<x, dir>>], e>>] \notin t1.red
        BY <2>1, <2>3, <3>1 DEF Flipped
      <3>3. Nil \notin N0 \ {Fake} BY <1>1, RBTreeAssumption DEF Shape
      <3> QED BY <1>1, <2>5, <2>6, <3>2, <3>3 DEF AtFlipped, Calm
    <2>8. InsertInv(r, key, N0, n + 1, K) BY <1>1, <1>3, <2>3, <2>4, <2>5, <2>7
    <2> QED BY <2>8 DEF r
  <1>5. CASE ~(kids \subseteq s.tree.red)
    <2>1. PICK d \in Dir : s.tree.child[<<x, d>>] \notin s.tree.red BY <1>5
    <2>2. Stepped(r, s, key, s.tree, x) BY <1>1, <2>1, InsertQuiet
    <2> HIDE DEF r
    <2>3. /\ r.tree = s.tree /\ r.gp = Nil /\ r.p = x /\ r.ggp = Fake /\ r.dir = dir
          /\ r.node = s.tree.child[<<x, dir>>]
      BY <1>1, <2>2 DEF Stepped
    <2>5. r.done <=> x = key BY <2>2, StepDone
    <2>6. AtPlain(r) BY <1>1, <1>2, <2>1, <2>3 DEF AtPlain, Above
    <2>7. InsertInv(r, key, N0, n + 1, K) BY <1>3, <2>3, <2>5, <2>6
    <2> QED BY <2>7 DEF r
  <1> QED BY <1>4, <1>5

(* A pass at a node with two red children colours the three. *)
LEMMA GrownPaint ==
  ASSUME NEW s, NEW key, NEW I, NEW b, NEW h, Certified(s.tree, I, b, h),
         s.node \in s.tree.nodes \ {Fake}, s.node \notin s.tree.red,
         \A d \in Dir : s.tree.child[<<s.node, d>>] \in s.tree.red
  PROVE  /\ Flipped(s.tree, Grown(s, key), s.node)
         /\ \E f : Even(Grown(s, key).nodes, Grown(s, key).child, Grown(s, key).red, f, h)
  <1> DEFINE kids == {s.tree.child[<<s.node, d>>] : d \in Dir}
             t1 == Grown(s, key)
  <1>1. s.node # Nil BY RBTreeAssumption DEF Certified, IsTree, Shape
  <1>2. kids \subseteq s.tree.red OBVIOUS
  <1>3. t1 = Paint(s.tree, {s.node}, kids) BY <1>1, <1>2 DEF Grown
  <1> HIDE DEF t1
  <1>4. Flipped(s.tree, t1, s.node) /\ \E f : Even(t1.nodes, t1.child, t1.red, f, h)
    <2>1. kids = {s.tree.child[<<s.node, d>>] : d \in Dir} OBVIOUS
    <2> HIDE DEF kids
    <2> QED BY <1>2, <1>3, <2>1, FlipAt
  <1> QED BY <1>4 DEF t1

(* The pass that colours a node below a black parent keeps the invariant. *)
LEMMA StepPainted ==
  ASSUME NEW s, NEW key, NEW I, NEW b, NEW h, NEW N0, NEW n \in Nat, NEW K \in Nat,
         Certified(s.tree, I, b, h), s.tree.nodes = N0,
         Place(s.tree, I, s.p, s.dir, s.node, key), s.node # Nil,
         \A d \in Dir : s.tree.child[<<s.node, d>>] \in s.tree.red, s.p \notin s.tree.red,
         n + 2 * Cardinality(Room(s.tree, I, s.p, s.dir)) <= 2 * K
  PROVE  InsertInv(InsertStep(s, key), key, N0, n + 1, K)
  <1> DEFINE r == InsertStep(s, key)
             t == s.tree
             t1 == Grown(s, key)
             x == s.node
             dir == Toward(x, key)
  <1>1. /\ IsTree(t) /\ Spans(t.nodes, t.child, I) /\ Shape(t.nodes, t.child)
        /\ RedRule(t.child, t.red) /\ "left" \in Dir
    BY DEF Certified, IsTree, Dir
  <1>2. /\ s.p \in t.nodes \ {Fake} /\ s.dir \in Dir /\ t.child[<<s.p, s.dir>>] = x /\ key \in Point
    BY DEF Place
  <1>3. x \in t.nodes \ {Fake} /\ x \notin t.red
    <2>1. x \in t.nodes \ {Fake} BY <1>1, <1>2 DEF Shape
    <2>2. t.child[<<x, "left">>] \in t.red BY <1>1
    <2>3. \A y \in t.red : \A d \in Dir : t.child[<<y, d>>] \notin t.red BY <1>1 DEF RedRule
    <2> QED BY <1>1, <2>1, <2>2, <2>3
  <1>4. Flipped(t, t1, x) /\ \E f : Even(t1.nodes, t1.child, t1.red, f, h)
    BY <1>3, GrownPaint
  <1>5. PICK f : Even(t1.nodes, t1.child, t1.red, f, h) BY <1>4
  <1>6. s.p # x
    <2>1. s.p = x => x \notin I[x] BY <1>1, <1>2, <1>3, SpanStep
    <2> QED BY <1>1, <1>3, <2>1, SpanOwn
  <1>7. t1.nodes = t.nodes /\ t1.child = t.child /\ s.p \notin t1.red /\ IsTree(t1)
    BY <1>4, <1>6 DEF Flipped
  <1>8. Certified(t1, I, f, h)
    <2> HIDE DEF t1
    <2> QED BY <1>1, <1>2, <1>4, <1>5, <1>7, FlippedCertified
  <1>9. Fixed(t1, s, x) = t1 BY <1>7 DEF Fixed
  <1>10. /\ r.tree = t1 /\ r.gp = s.p /\ r.p = x /\ r.last = s.dir
         /\ r.dir = dir /\ r.node = t1.child[<<x, dir>>] /\ (r.done <=> x = key)
    <2>1. x = IF s.node = Nil THEN key ELSE s.node OBVIOUS
    <2>2. Stepped(r, s, key, t1, x) BY <1>9, <2>1, PassAt
    <2> HIDE DEF r, t1
    <2>3. r.done <=> x = key BY <2>2, StepDone
    <2> QED BY <2>2, <2>3 DEF Stepped
  <1> HIDE DEF r, t1
  <1>11. CASE x = key
    <2>1. r.tree.nodes = N0 \cup {key} /\ r.done BY <1>3, <1>7, <1>10, <1>11
    <2>2. \E II, bb, hh : Certified(r.tree, II, bb, hh) BY <1>8, <1>10
    <2>3. InsertInv(r, key, N0, n + 1, K) BY <2>1, <2>2 DEF InsertInv
    <2> QED BY <2>3 DEF r
  <1>12. CASE x # key
    <2>1. Place(t1, I, s.p, s.dir, x, key) BY <1>7 DEF Place
    <2>2. Spans(t1.nodes, t1.child, I) BY <1>8 DEF Certified
    <2>3. /\ Place(t1, I, x, dir, t1.child[<<x, dir>>], key)
          /\ Room(t1, I, x, dir) \in SUBSET Room(t1, I, s.p, s.dir)
          /\ x \in Room(t1, I, s.p, s.dir) /\ x \notin Room(t1, I, x, dir)
          /\ IsFiniteSet(Room(t1, I, s.p, s.dir))
      BY <1>7, <1>12, <2>1, <2>2, NextPlace
    <2>4. Room(t1, I, s.p, s.dir) = Room(t, I, s.p, s.dir) BY <1>7 DEF Room
    <2> HIDE DEF x, dir
    <2>5. /\ Cardinality(Room(t1, I, x, dir)) \in Nat
          /\ Cardinality(Room(t, I, s.p, s.dir)) \in Nat
          /\ Cardinality(Room(t1, I, x, dir)) + 1 <= Cardinality(Room(t, I, s.p, s.dir))
      BY <2>3, <2>4, Shrinks
    <2>6. n + 1 + 2 * Cardinality(Room(t1, I, x, dir)) <= 2 * K BY <2>5
    <2>7. Above(t1, r.ggp, s.p, s.dir, x) BY <1>2, <1>7 DEF Above
    <2>8. AtFlipped(r)
      <3>1. dir \in Dir BY DEF Toward, Dir, dir
      <3>2. t1.child[<<x, dir>>] \in t.nodes \ {Fake} /\ t1.child[<<x, dir>>] \notin t1.red
            /\ \A e \in Dir : t1.child[<<t1.child[<<x, dir>>], e>>] \notin t1.red
        BY <1>4, <1>7, <3>1 DEF Flipped
      <3>3. Nil \notin t.nodes \ {Fake} BY <1>1, RBTreeAssumption DEF Shape
      <3> QED BY <1>10, <2>7, <3>2, <3>3 DEF AtFlipped, Calm
    <2>9. Walking(r, key, I, n + 1, K) BY <1>10, <1>12, <2>3, <2>6, <2>8 DEF Walking
    <2>10. ~r.done /\ r.tree.nodes = N0 BY <1>7, <1>10, <1>12
    <2>11. InsertInv(r, key, N0, n + 1, K) BY <1>8, <1>10, <2>9, <2>10 DEF InsertInv
    <2> QED BY <2>11 DEF r
  <1> QED BY <1>11, <1>12

(* A colour flip below a red p. *)
LEMMA FlipClash ==
  ASSUME NEW s, NEW key, NEW I, NEW b, NEW h, Certified(s.tree, I, b, h),
         Place(s.tree, I, s.p, s.dir, s.node, key), AtPlain(s), s.node # Nil,
         \A d \in Dir : s.tree.child[<<s.node, d>>] \in s.tree.red, s.p \in s.tree.red,
         NEW t1, Flipped(s.tree, t1, s.node), NEW f, Even(t1.nodes, t1.child, t1.red, f, h)
  PROVE  LET gd == IF t1.child[<<s.ggp, "right">>] = s.gp THEN "right" ELSE "left"
         IN Clash(t1, I, f, h, s.ggp, gd, s.gp, s.last, s.p, s.dir, s.node)
  <1> DEFINE t == s.tree
             x == s.node
             gd == IF t1.child[<<s.ggp, "right">>] = s.gp THEN "right" ELSE "left"
  <1>1. /\ IsTree(t) /\ Spans(t.nodes, t.child, I) /\ Shape(t.nodes, t.child)
        /\ RedRule(t.child, t.red) /\ t.red \subseteq t.nodes \ {Fake} /\ Nil \notin t.nodes
    BY RBTreeAssumption DEF Certified, IsTree, Shape
  <1>2. /\ s.p \in t.nodes \ {Fake} /\ s.dir \in Dir /\ t.child[<<s.p, s.dir>>] = x
    BY DEF Place
  <1>3. /\ IsTree(t1) /\ t1.nodes = t.nodes /\ t1.child = t.child /\ x \in t1.red
        /\ \A c : c # x /\ c \in t1.red => c \in t.red
    BY DEF Flipped
  <1>4. /\ s.gp \in t.nodes \ {Fake} /\ s.gp \notin t.red
        /\ t.child[<<s.gp, Other(s.last)>>] \notin t.red
        /\ s.ggp \in t.nodes /\ \E d \in Dir : t.child[<<s.ggp, d>>] = s.gp
    BY DEF AtPlain
  <1>5. s.last \in Dir /\ t.child[<<s.gp, s.last>>] = s.p
    <2>1. s.gp # Nil BY <1>1, <1>4
    <2> QED BY <2>1 DEF AtPlain, Above
  <1>6. \A v, w \in t.nodes : \A d, e \in Dir :
          t.child[<<v, d>>] = t.child[<<w, e>>] /\ t.child[<<v, d>>] # Nil => v = w /\ d = e
    BY <1>1 DEF Shape
  <1>7. \A y \in t.nodes : \A d \in Dir : t.child[<<y, d>>] = x => y = s.p /\ d = s.dir
    BY <1>2, <1>6
  <1>8. Other(s.last) \in Dir /\ s.gp # s.p BY <1>4, <1>5, Dirs
  <1>9. t.child[<<s.gp, Other(s.last)>>] # x BY <1>4, <1>7, <1>8
  <1>10. x \in t.nodes \ {Fake} BY <1>1, <1>2 DEF Shape
  <1>11. x # s.gp /\ x # s.p
    <2>3. x # Nil /\ s.p # Nil BY <1>1, <1>2, <1>10
    <2>4. I[x] \subseteq I[s.p] BY <1>1, <1>2, <2>3 DEF Spans
    <2>5. s.gp \notin I[s.p] BY <1>1, <1>4, <1>5, <2>3, SpanStep
    <2>1. I[x] \subseteq I[s.p] /\ s.gp \notin I[s.p] /\ s.p \notin I[x]
      BY <1>1, <1>2, <2>3, <2>4, <2>5, SpanStep
    <2>2. x \in I[x] BY <1>1, <1>10, SpanOwn
    <2> QED BY <2>1, <2>2
  <1>12. gd \in Dir /\ t.child[<<s.ggp, gd>>] = s.gp BY <1>3, <1>4 DEF Dir
  <1>13. s.p \in t1.red
    <2>1. \A d \in Dir : t.child[<<x, d>>] # s.p
      <3> SUFFICES ASSUME NEW d \in Dir, t.child[<<x, d>>] = s.p PROVE FALSE
        OBVIOUS
      <3> QED BY <1>1, <1>4, <1>5, <1>6, <1>10, <1>11
    <2>2. \A c \in t.red : (\A d \in Dir : t.child[<<x, d>>] # c) => c \in t1.red BY DEF Flipped
    <2> QED BY <2>1, <2>2
  <1>14. \A d \in Dir : t1.child[<<x, d>>] \notin t1.red BY <1>3 DEF Flipped
  <1>15. \A y \in t1.red : \A d \in Dir : t1.child[<<y, d>>] \in t1.red => y = s.p /\ d = s.dir
    <2>1. \A y \in t1.red : \A d \in Dir : t1.child[<<y, d>>] \in t1.red => t1.child[<<y, d>>] = x
      BY <1>3 DEF Flipped
    <2>2. t1.red \subseteq t.nodes BY <1>3 DEF IsTree
    <2> QED BY <1>3, <1>7, <2>1, <2>2
  <1>16. s.gp \notin t1.red /\ t1.child[<<s.gp, Other(s.last)>>] \notin t1.red
    BY <1>3, <1>4, <1>9, <1>11
  <1>17. Spans(t1.nodes, t1.child, I) BY <1>1, <1>3
  <1> HIDE DEF gd
  <1>18. Clash(t1, I, f, h, s.ggp, gd, s.gp, s.last, s.p, s.dir, x)
    BY <1>2, <1>3, <1>4, <1>5, <1>12, <1>13, <1>14, <1>15, <1>16, <1>17 DEF Clash
  <1> QED BY <1>18 DEF gd

(* Nothing at the node or below it is above it. *)
LEMMA ClashFar ==
  ASSUME NEW t, NEW I, NEW b, NEW h, NEW ggp, NEW gd, NEW gp, NEW last, NEW p, NEW dir, NEW x,
         Clash(t, I, b, h, ggp, gd, gp, last, p, dir, x), NEW e \in Dir,
         NEW c, c = t.child[<<x, e>>], c # Nil
  PROVE  /\ x \in t.nodes \ {Fake} /\ x \notin {ggp, gp, p} /\ p \notin {ggp, gp}
         /\ c \in t.nodes \ {Fake} /\ c \notin {ggp, gp, p, x}
         /\ I[c] = I[x] \cap Beside(x, e) /\ I[x] = I[p] \cap Beside(p, dir)
         /\ I[p] = I[gp] \cap Beside(gp, last) /\ p \notin I[x] /\ gp \notin I[p]
  <1>1. /\ Shape(t.nodes, t.child) /\ Spans(t.nodes, t.child, I)
        /\ gp \in t.nodes \ {Fake} /\ p \in t.nodes \ {Fake} /\ x \in t.nodes \ {Fake}
        /\ ggp \in t.nodes /\ gd \in Dir /\ last \in Dir /\ dir \in Dir
        /\ t.child[<<ggp, gd>>] = gp /\ t.child[<<gp, last>>] = p /\ t.child[<<p, dir>>] = x
    BY DEF Clash, IsTree
  <1>2. gp # Nil /\ p # Nil /\ x # Nil BY <1>1, RBTreeAssumption DEF Shape
  <1>3. c \in t.nodes \ {Fake} BY <1>1 DEF Shape
  <1>4. /\ I[p] = I[gp] \cap Beside(gp, last) /\ I[x] = I[p] \cap Beside(p, dir)
    BY <1>1, <1>2 DEF Spans
  <1>5. I[c] = I[x] \cap Beside(x, e) BY <1>1 DEF Spans
  <1>6. gp \in I[ggp] BY <1>1, <1>2 DEF Spans
  <1>7. gp \notin I[p] /\ p \notin I[x] BY <1>1, <1>2, SpanStep
  <1>8. x \notin I[c] BY <1>1, SpanStep
  <1>9. gp \in I[gp] /\ p \in I[p] /\ x \in I[x] /\ c \in I[c] BY <1>1, <1>3, SpanOwn
  <1> QED BY <1>1, <1>3, <1>4, <1>5, <1>6, <1>7, <1>8, <1>9

(* After the turn the walk goes on below the node, as after a flip. *)
LEMMA StepOuter ==
  ASSUME NEW s, NEW key, NEW I, NEW h, NEW N0, NEW n \in Nat, NEW K \in Nat,
         IsTree(s.tree), s.tree.nodes = N0, Place(s.tree, I, s.p, s.dir, s.node, key),
         s.node # Nil, s.node # key,
         n + 2 * Cardinality(Room(s.tree, I, s.p, s.dir)) <= 2 * K,
         NEW t1, Flipped(s.tree, t1, s.node), NEW f, NEW gd,
         Clash(t1, I, f, h, s.ggp, gd, s.gp, s.last, s.p, s.last, s.node), s.dir = s.last,
         NEW u, u = Hang(Rotate(t1, s.gp, Other(s.last)), s.ggp, gd),
         NEW r, r.tree = u, r.gp = s.p, r.p = s.node, r.last = s.dir,
         r.dir = Toward(s.node, key), r.node = u.child[<<s.node, Toward(s.node, key)>>], ~r.done
  PROVE  InsertInv(r, key, N0, n + 1, K)
  <1> DEFINE x == s.node
             next == Toward(x, key)
             c == t1.child[<<x, next>>]
             J == TurnSpans(I, s.gp, s.p, Other(s.last))
             N == t1.nodes
  <1>1. /\ Certified(u, J, f, h) /\ u.nodes = N /\ u.red = (t1.red \cup {s.gp}) \ {s.p}
        /\ IsTurn(N, t1.child, u.child, s.gp, s.p, Other(s.last), s.ggp, gd)
    BY OuterClash
  <1>2. /\ N = s.tree.nodes /\ t1.child = s.tree.child /\ IsTree(t1)
        /\ \A d \in Dir : /\ t1.child[<<x, d>>] \in N \ {Fake} /\ t1.child[<<x, d>>] \notin t1.red
                          /\ \A e \in Dir : t1.child[<<t1.child[<<x, d>>], e>>] \notin t1.red
    BY DEF Flipped
  <1>3. /\ Spans(N, t1.child, I) /\ s.last \in Dir /\ gd \in Dir /\ s.p \in N \ {Fake}
        /\ s.gp \in N \ {Fake} /\ s.ggp \in N /\ t1.child[<<s.p, s.last>>] = x
        /\ t1.child[<<s.ggp, gd>>] = s.gp /\ Shape(N, t1.child)
    BY DEF Clash, IsTree
  <1>4. next \in Dir BY DEF Toward, Dir
  <1>5. c \in N \ {Fake} /\ c # Nil BY <1>2, <1>3, <1>4, RBTreeAssumption DEF Shape
  <1>6. /\ x \in N \ {Fake} /\ x \notin {s.ggp, s.gp, s.p} /\ s.p \notin {s.ggp, s.gp}
        /\ c \notin {s.ggp, s.gp, s.p, x}
    BY <1>4, <1>5, ClashFar
  <1>7. /\ \A y \in {x, c} : \A d \in Dir : u.child[<<y, d>>] = t1.child[<<y, d>>]
        /\ u.child[<<s.p, s.last>>] = x
    <2>1. Other(Other(s.last)) = s.last BY <1>3, Dirs
    <2> QED BY SMTT(30), <1>1, <1>3, <1>5, <1>6, <2>1 DEF IsTurn
  <1>8. r.node = c BY <1>4, <1>7
  <1>9. /\ Place(s.tree, I, x, next, s.tree.child[<<x, next>>], key)
        /\ Room(s.tree, I, x, next) \in SUBSET Room(s.tree, I, s.p, s.dir)
        /\ x \in Room(s.tree, I, s.p, s.dir) /\ x \notin Room(s.tree, I, x, next)
        /\ IsFiniteSet(Room(s.tree, I, s.p, s.dir))
    <2>1. IsTree(s.tree) /\ Spans(s.tree.nodes, s.tree.child, I)
      <3>1. Spans(s.tree.nodes, s.tree.child, I) BY <1>2, <1>3
      <3> QED BY <3>1
    <2> QED BY <2>1, NextPlace
  <1>10. J[x] = I[x] BY <1>3, <1>6 DEF TurnSpans, Spans
  <1>11. Place(u, J, x, next, c, key) BY <1>1, <1>2, <1>4, <1>6, <1>7, <1>9, <1>10 DEF Place
  <1>12. Room(u, J, x, next) = Room(s.tree, I, x, next) BY <1>1, <1>2, <1>10 DEF Room
  <1> HIDE DEF x, next, J
  <1>13. n + 1 + 2 * Cardinality(Room(u, J, x, next)) <= 2 * K
    <2>1. /\ Cardinality(Room(s.tree, I, x, next)) \in Nat
          /\ Cardinality(Room(s.tree, I, s.p, s.dir)) \in Nat
          /\ Cardinality(Room(s.tree, I, x, next)) + 1 <= Cardinality(Room(s.tree, I, s.p, s.dir))
      BY <1>9, Shrinks
    <2> QED BY <1>12, <2>1
  <1>14. Above(u, r.ggp, s.p, s.dir, x) BY <1>1, <1>3, <1>7 DEF Above
  <1>15. c \notin u.red /\ Calm(u, c)
    <2>1. c \notin u.red BY <1>1, <1>2, <1>4, <1>6
    <2>2. ASSUME NEW d \in Dir PROVE u.child[<<c, d>>] \notin u.red
      <3>1. u.child[<<c, d>>] = t1.child[<<c, d>>] BY <1>7
      <3>2. t1.child[<<c, d>>] \notin t1.red BY <1>2, <1>4
      <3>3. t1.child[<<c, d>>] # s.gp
        <4>1. \A v, w \in N : \A g, e \in Dir :
                t1.child[<<v, g>>] = t1.child[<<w, e>>] /\ t1.child[<<v, g>>] # Nil => v = w
          BY <1>3 DEF Shape
        <4>2. s.gp # Nil BY <1>3, RBTreeAssumption DEF Shape
        <4> QED BY <1>3, <1>5, <1>6, <4>1, <4>2
      <3> QED BY <1>1, <3>1, <3>2, <3>3
    <2> QED BY <2>1, <2>2 DEF Calm
  <1>16. AtFlipped(r) BY <1>5, <1>8, <1>14, <1>15 DEF AtFlipped, x
  <1>17. Place(u, J, r.p, r.dir, r.node, key) BY <1>8, <1>11 DEF x, next
  <1>18. n + 1 + 2 * Cardinality(Room(u, J, r.p, r.dir)) <= 2 * K BY <1>13 DEF x, next
  <1>19. Walking(r, key, J, n + 1, K) BY <1>16, <1>17, <1>18 DEF Walking
  <1>20. r.tree.nodes = N0 BY <1>1, <1>2
  <1> QED BY <1>1, <1>19, <1>20 DEF InsertInv

(* After two turns it is below the node, one turn off its way. *)
LEMMA StepInner ==
  ASSUME NEW s, NEW key, NEW I, NEW h, NEW N0, NEW n \in Nat, NEW K \in Nat,
         IsTree(s.tree), s.tree.nodes = N0, Place(s.tree, I, s.p, s.dir, s.node, key),
         s.node # Nil, s.node # key,
         n + 2 * Cardinality(Room(s.tree, I, s.p, s.dir)) <= 2 * K,
         NEW t1, Flipped(s.tree, t1, s.node), NEW f, NEW gd,
         Clash(t1, I, f, h, s.ggp, gd, s.gp, s.last, s.p, Other(s.last), s.node),
         s.dir = Other(s.last),
         NEW u, u = Hang(DoubleRotate(t1, s.gp, Other(s.last)), s.ggp, gd),
         NEW r, r.tree = u, r.gp = s.p, r.p = s.node, r.last = s.dir,
         r.dir = Toward(s.node, key), r.node = u.child[<<s.node, Toward(s.node, key)>>], ~r.done
  PROVE  InsertInv(r, key, N0, n + 1, K)
  <1> DEFINE x == s.node
             next == Toward(x, key)
             c == t1.child[<<x, next>>]
             o == Other(s.last)
             J1 == TurnSpans(I, s.p, x, s.last)
             J == TurnSpans(J1, s.gp, x, o)
             N == t1.nodes
  <1>1. /\ Certified(u, J, f, h) /\ u.nodes = N /\ u.red = (t1.red \cup {s.gp}) \ {x}
        /\ \E D : /\ IsTurn(N, t1.child, D, s.p, x, s.last, s.gp, s.last)
                  /\ IsTurn(N, D, u.child, s.gp, x, o, s.ggp, gd)
    BY InnerClash
  <1>2. /\ N = s.tree.nodes /\ t1.child = s.tree.child /\ IsTree(t1)
        /\ \A d \in Dir : /\ t1.child[<<x, d>>] \in N \ {Fake} /\ t1.child[<<x, d>>] \notin t1.red
                          /\ \A e \in Dir : t1.child[<<t1.child[<<x, d>>], e>>] \notin t1.red
    BY DEF Flipped
  <1>3. /\ Spans(N, t1.child, I) /\ s.last \in Dir /\ gd \in Dir /\ s.p \in N \ {Fake}
        /\ s.gp \in N \ {Fake} /\ s.ggp \in N /\ t1.child[<<s.p, o>>] = x
        /\ t1.child[<<s.ggp, gd>>] = s.gp /\ Shape(N, t1.child) /\ s.p \in t1.red
    BY DEF Clash, IsTree
  <1>4. /\ next \in Dir /\ o \in Dir /\ o # s.last /\ Other(o) = s.last
        /\ next = s.last \/ next = o
    <2>1. next \in Dir BY DEF Toward, Dir
    <2> QED BY <1>3, <2>1, Dirs
  <1>5. c \in N \ {Fake} /\ c # Nil BY <1>2, <1>3, <1>4, RBTreeAssumption DEF Shape
  <1>6. /\ x \in N \ {Fake} /\ x \notin {s.ggp, s.gp, s.p} /\ s.p \notin {s.ggp, s.gp}
        /\ c \notin {s.ggp, s.gp, s.p, x} /\ I[c] = I[x] \cap Beside(x, next)
        /\ I[x] = I[s.p] \cap Beside(s.p, o) /\ I[s.p] = I[s.gp] \cap Beside(s.gp, s.last)
        /\ s.p \notin I[x] /\ s.gp \notin I[s.p]
    BY <1>4, <1>5, ClashFar
  <1>7. PICK D : /\ IsTurn(N, t1.child, D, s.p, x, s.last, s.gp, s.last)
                 /\ IsTurn(N, D, u.child, s.gp, x, o, s.ggp, gd)
    BY <1>1
  <1>8. /\ D[<<x, s.last>>] = s.p /\ D[<<s.p, o>>] = t1.child[<<x, s.last>>]
        /\ D[<<x, o>>] = t1.child[<<x, o>>] /\ \A d \in Dir : D[<<c, d>>] = t1.child[<<c, d>>]
    <2>1. c \in N /\ c \notin {s.p, x} /\ c # s.gp BY <1>5, <1>6
    <2> QED BY <1>4, <1>7, <2>1 DEF IsTurn
  <1>9. /\ u.child[<<x, s.last>>] = s.p /\ u.child[<<x, o>>] = s.gp
        /\ u.child[<<s.p, o>>] = t1.child[<<x, s.last>>]
        /\ u.child[<<s.gp, s.last>>] = t1.child[<<x, o>>]
        /\ \A d \in Dir : u.child[<<c, d>>] = t1.child[<<c, d>>]
    <2>1. c \in N /\ c \notin {s.gp, x} /\ c # s.ggp BY <1>5, <1>6
    <2>2. s.p \in N /\ s.p \notin {s.gp, x} /\ s.p # s.ggp BY <1>3, <1>6
    <2> QED BY ZenonT(60), <1>4, <1>7, <1>8, <2>1, <2>2 DEF IsTurn
  <1>10. /\ Place(s.tree, I, x, next, s.tree.child[<<x, next>>], key)
         /\ I[x] = I[s.p] \cap Beside(s.p, s.dir)
         /\ Room(s.tree, I, x, next) \in SUBSET Room(s.tree, I, s.p, s.dir)
         /\ x \in Room(s.tree, I, s.p, s.dir) /\ x \notin Room(s.tree, I, x, next)
         /\ IsFiniteSet(Room(s.tree, I, s.p, s.dir))
    <2>1. Spans(s.tree.nodes, s.tree.child, I) BY <1>2, <1>3
    <2> QED BY <2>1, NextPlace
  <1>11. key \in I[x] /\ key \in Beside(x, next) /\ key \in Point BY <1>10 DEF Place
  <1>12. r.node \in {s.p, s.gp} /\ u.child[<<r.node, Toward(r.node, key)>>] = c
    <2>1. CASE next = s.last
      <3>1. r.node = s.p BY <1>9, <2>1
      <3>2. Toward(s.p, key) = o
        <4>1. key \in Beside(s.p, o) BY <1>6, <1>11
        <4>2. s.p \in Point /\ s.p # key BY <1>3, <1>6, <1>11 DEF Shape
        <4> QED BY <1>4, <1>11, <4>1, <4>2, Sides
      <3> QED BY <1>9, <2>1, <3>1, <3>2
    <2>2. CASE next = o
      <3>1. r.node = s.gp BY <1>9, <2>2
      <3>2. Toward(s.gp, key) = s.last
        <4>1. key \in Beside(s.gp, s.last) /\ key \in I[s.p] BY <1>6, <1>11
        <4>2. s.gp \in Point /\ s.gp # key BY <1>3, <1>6, <4>1 DEF Shape
        <4> QED BY <1>3, <1>11, <4>1, <4>2, Sides
      <3> QED BY <1>9, <2>2, <3>1, <3>2
    <2> QED BY <1>4, <2>1, <2>2
  <1>13. /\ J[x] = I[s.gp] /\ J[c] = I[c]
    <2>1. I \in [N -> SUBSET Point] BY <1>3 DEF Spans
    <2>2. /\ J1 \in [N -> SUBSET Point] /\ J1[s.gp] = I[s.gp] /\ J1[c] = I[c]
      BY <1>3, <1>5, <1>6, <2>1 DEF TurnSpans
    <2> HIDE DEF J1
    <2> QED BY <1>3, <1>5, <1>6, <2>2 DEF TurnSpans
  <1>14. Place(u, J, x, next, r.node, key)
    <2>1. key \in I[s.gp] BY <1>6, <1>11
    <2> QED BY <1>1, <1>4, <1>6, <1>11, <1>13, <2>1 DEF Place
  <1> DEFINE tw == Toward(r.node, key)
  <1>15. Room(u, J, r.node, tw) = Room(s.tree, I, x, next)
    <2>1. tw \in Dir /\ r.node \in N BY <1>3, <1>12 DEF Toward, Dir
    <2>2. u.child[<<r.node, tw>>] = c BY <1>12
    <2> HIDE DEF tw, c, J
    <2>3. J[c] = J[r.node] \cap Beside(r.node, tw)
      BY ZenonT(60), <1>1, <1>5, <2>1, <2>2 DEF Certified, Spans
    <2> QED BY <1>1, <1>2, <1>6, <1>13, <2>3 DEF Room
  <1> HIDE DEF J, c, x, next, tw
  <1>16. n + 1 + 2 * Cardinality(Room(u, J, r.node, tw)) + 1 <= 2 * K
    <2>1. /\ Cardinality(Room(s.tree, I, x, next)) \in Nat
          /\ Cardinality(Room(s.tree, I, s.p, s.dir)) \in Nat
          /\ Cardinality(Room(s.tree, I, x, next)) + 1 <= Cardinality(Room(s.tree, I, s.p, s.dir))
      BY <1>10, Shrinks
    <2> QED BY <1>15, <2>1
  <1>17. c \notin u.red /\ Calm(u, c)
    <2>1. c \notin t1.red /\ \A e \in Dir : t1.child[<<c, e>>] \notin t1.red BY <1>2, <1>4 DEF c
    <2>2. c \notin u.red BY <1>1, <1>6, <2>1
    <2>3. ASSUME NEW d \in Dir PROVE u.child[<<c, d>>] \notin u.red
      <3>1. u.child[<<c, d>>] = t1.child[<<c, d>>] BY <1>9
      <3>2. t1.child[<<c, d>>] # s.gp
        <4>1. \A v, w \in N : \A g, e \in Dir :
                t1.child[<<v, g>>] = t1.child[<<w, e>>] /\ t1.child[<<v, g>>] # Nil => v = w
          BY <1>3 DEF Shape
        <4>2. s.gp # Nil BY <1>3, RBTreeAssumption DEF Shape
        <4> QED BY <1>3, <1>5, <1>6, <4>1, <4>2
      <3> QED BY <1>1, <2>1, <3>1, <3>2
    <2> QED BY <2>2, <2>3 DEF Calm
  <1>18. r.node \in u.red /\ r.node # key /\ x \notin u.red
    <2>1. s.p \in u.red /\ s.gp \in u.red /\ x \notin u.red BY <1>1, <1>3, <1>6
    <2>2. key # s.p /\ key # s.gp BY <1>6, <1>11
    <2> QED BY <1>12, <2>1, <2>2
  <1>19. r.p = x /\ r.dir = next BY DEF x, next
  <1>20. AtTwice(r, key) BY <1>5, <1>12, <1>17, <1>18, <1>19 DEF AtTwice
  <1>21. Walking(r, key, J, n + 1, K) BY <1>14, <1>16, <1>19, <1>20 DEF Walking, tw
  <1>22. r.tree.nodes = N0 BY <1>1, <1>2
  <1> QED BY <1>1, <1>21, <1>22 DEF InsertInv

(* So does the pass that colours it below a red parent and turns. *)
LEMMA StepClash ==
  ASSUME NEW s, NEW key, NEW I, NEW b, NEW h, NEW N0, NEW n \in Nat, NEW K \in Nat,
         Certified(s.tree, I, b, h), s.tree.nodes = N0,
         Place(s.tree, I, s.p, s.dir, s.node, key), AtPlain(s), s.node # Nil,
         \A d \in Dir : s.tree.child[<<s.node, d>>] \in s.tree.red, s.p \in s.tree.red,
         n + 2 * Cardinality(Room(s.tree, I, s.p, s.dir)) <= 2 * K
  PROVE  InsertInv(InsertStep(s, key), key, N0, n + 1, K)
  <1> DEFINE r == InsertStep(s, key)
             t1 == Grown(s, key)
             x == s.node
             gd == IF t1.child[<<s.ggp, "right">>] = s.gp THEN "right" ELSE "left"
             u == Fixed(t1, s, x)
  <1>1. IsTree(s.tree) /\ Shape(s.tree.nodes, s.tree.child) /\ RedRule(s.tree.child, s.tree.red)
    BY DEF Certified, IsTree
  <1>2. /\ s.p \in N0 \ {Fake} /\ s.dir \in Dir /\ s.tree.child[<<s.p, s.dir>>] = x
        /\ key \in Point
    BY DEF Place
  <1>3. x \in N0 \ {Fake} BY <1>1, <1>2 DEF Shape
  <1>4. x \notin s.tree.red BY <1>1, <1>2 DEF RedRule
  <1>5. Flipped(s.tree, t1, x) /\ \E f : Even(t1.nodes, t1.child, t1.red, f, h)
    BY <1>3, <1>4, GrownPaint
  <1>6. /\ r.tree = u /\ r.gp = s.p /\ r.p = x /\ r.last = s.dir
        /\ r.dir = Toward(x, key) /\ r.node = u.child[<<x, Toward(x, key)>>]
        /\ (r.done <=> x = key)
    <2>1. x = IF s.node = Nil THEN key ELSE s.node OBVIOUS
    <2>2. Stepped(r, s, key, u, x) BY <2>1, PassAt
    <2> HIDE DEF r, u, x
    <2>3. r.done <=> x = key BY <2>2, StepDone
    <2> QED BY <2>2, <2>3 DEF Stepped
  <1> HIDE DEF r, t1
  <1>7. PICK f : Even(t1.nodes, t1.child, t1.red, f, h) BY <1>5
  <1>8. Clash(t1, I, f, h, s.ggp, gd, s.gp, s.last, s.p, s.dir, x)
    BY <1>5, <1>7, FlipClash
  <1>9. {x, s.p} \subseteq t1.red BY <1>8 DEF Clash
  <1>10. u = IF x = t1.child[<<s.p, s.last>>] THEN Hang(Rotate(t1, s.gp, Other(s.last)), s.ggp, gd)
             ELSE Hang(DoubleRotate(t1, s.gp, Other(s.last)), s.ggp, gd)
    BY <1>9 DEF Fixed
  <1> HIDE DEF u, gd
  <1>11. /\ u.nodes = t1.nodes /\ \E J : Certified(u, J, f, h)
         /\ s.dir = s.last => u = Hang(Rotate(t1, s.gp, Other(s.last)), s.ggp, gd)
         /\ s.dir # s.last => /\ s.dir = Other(s.last)
                              /\ u = Hang(DoubleRotate(t1, s.gp, Other(s.last)), s.ggp, gd)
    BY <1>8, <1>10, Resolved
  <1>12. CASE x = key
    <2>1. t1.nodes = N0 BY <1>5 DEF Flipped
    <2>2. r.tree.nodes = N0 \cup {key} /\ r.done BY <1>3, <1>6, <1>11, <1>12, <2>1
    <2>3. \E II, bb, hh : Certified(r.tree, II, bb, hh) BY <1>6, <1>11
    <2>4. InsertInv(r, key, N0, n + 1, K) BY <2>2, <2>3 DEF InsertInv
    <2> QED BY <2>4 DEF r
  <1>13. CASE x # key /\ s.dir = s.last
    <2>1. ~r.done BY <1>6, <1>13
    <2>2. Clash(t1, I, f, h, s.ggp, gd, s.gp, s.last, s.p, s.last, x) BY <1>8, <1>13
    <2>3. x # Nil OBVIOUS
    <2>4. u = Hang(Rotate(t1, s.gp, Other(s.last)), s.ggp, gd) BY <1>11, <1>13
    <2>5. InsertInv(r, key, N0, n + 1, K)
      BY <1>1, <1>5, <1>6, <1>13, <2>1, <2>2, <2>3, <2>4, StepOuter
    <2> QED BY <2>5 DEF r
  <1>14. CASE x # key /\ s.dir # s.last
    <2>1. ~r.done BY <1>6, <1>14
    <2>2. Clash(t1, I, f, h, s.ggp, gd, s.gp, s.last, s.p, Other(s.last), x) BY <1>8, <1>11, <1>14
    <2>3. s.dir = Other(s.last) BY <1>11, <1>14
    <2>4. u = Hang(DoubleRotate(t1, s.gp, Other(s.last)), s.ggp, gd) BY <1>11, <1>14
    <2>5. InsertInv(r, key, N0, n + 1, K)
      BY <1>1, <1>5, <1>6, <1>14, <2>1, <2>2, <2>3, <2>4, StepInner
    <2> QED BY <2>5 DEF r
  <1> QED BY <1>12, <1>13, <1>14

(* Every pass of insert's loop (90-132) keeps its invariant. *)
LEMMA StepInsert ==
  ASSUME NEW s, NEW key \in Point, NEW N0, NEW n \in Nat, NEW K \in Nat,
         InsertInv(s, key, N0, n, K), ~s.done
  PROVE  InsertInv(InsertStep(s, key), key, N0, n + 1, K)
  <1>1. PICK I, b, h : Certified(s.tree, I, b, h) /\ Walking(s, key, I, n, K)
    BY DEF InsertInv
  <1>2. s.tree.nodes = N0 BY DEF InsertInv
  <1>3. CASE AtRoot(s) /\ n + 2 * Cardinality(s.tree.nodes \ {Fake}) <= 2 * K
    BY <1>1, <1>2, <1>3, StepRoot
  <1>4. CASE /\ Place(s.tree, I, s.p, s.dir, s.node, key) /\ AtTwice(s, key)
             /\ n + 2 * Cardinality(Room(s.tree, I, s.node, Toward(s.node, key))) + 1 <= 2 * K
    BY <1>1, <1>2, <1>4, StepTwice
  <1>5. CASE /\ Place(s.tree, I, s.p, s.dir, s.node, key) /\ AtFlipped(s)
             /\ n + 2 * Cardinality(Room(s.tree, I, s.p, s.dir)) <= 2 * K
    BY <1>1, <1>2, <1>5, StepFlipped
  <1>6. CASE /\ Place(s.tree, I, s.p, s.dir, s.node, key) /\ AtPlain(s)
             /\ n + 2 * Cardinality(Room(s.tree, I, s.p, s.dir)) <= 2 * K
    <2>1. CASE s.node = Nil BY <1>1, <1>2, <1>6, <2>1, StepAttach
    <2>2. CASE s.node # Nil /\ \E d \in Dir : s.tree.child[<<s.node, d>>] \notin s.tree.red
      BY <1>1, <1>2, <1>6, <2>2, StepPlain
    <2>3. CASE /\ s.node # Nil /\ \A d \in Dir : s.tree.child[<<s.node, d>>] \in s.tree.red
               /\ s.p \notin s.tree.red
      BY <1>1, <1>2, <1>6, <2>3, StepPainted
    <2>4. CASE /\ s.node # Nil /\ \A d \in Dir : s.tree.child[<<s.node, d>>] \in s.tree.red
               /\ s.p \in s.tree.red
      BY <1>1, <1>2, <1>6, <2>4, StepClash
    <2> QED BY <2>1, <2>2, <2>3, <2>4
  <1> QED BY <1>1, <1>3, <1>4, <1>5, <1>6 DEF Walking

(* Induction, over a set of numbers. *)
LEMMA Inductive ==
  ASSUME NEW S, 0 \in S, \A k \in Nat : k \in S => k + 1 \in S
  PROVE  Nat \subseteq S
  <1> DEFINE T == Nat \ S
  <1>1. SUFFICES ASSUME T # {} PROVE FALSE
    OBVIOUS
  <1>2. \E x \in T : \A y \in T : ~(<<y, x>> \in OpToRel(<, Nat))
    BY <1>1, NatLessThanWellFounded, WFMin
  <1>3. PICK x \in T : \A y \in T : ~(<<y, x>> \in OpToRel(<, Nat)) BY <1>2
  <1>4. x - 1 \in Nat /\ x = (x - 1) + 1 /\ x - 1 < x
    <2>1. x \in Nat /\ x # 0 OBVIOUS
    <2> QED BY <2>1
  <1>5. x - 1 \notin S BY <1>4
  <1>6. x - 1 \in T BY <1>4, <1>5
  <1>7. ~(<<x - 1, x>> \in {ss \in Nat \X Nat : ss[1] < ss[2]}) BY <1>3, <1>6 DEF OpToRel
  <1> QED BY <1>4, <1>7

(* Where the loop starts, and a pass that does nothing once it is over. *)
InsertFrom(t) ==
  [tree |-> t, ggp |-> Fake, gp |-> Nil, p |-> Nil, node |-> Root(t),
   dir |-> "left", last |-> "left", done |-> FALSE]
InsertOn(s, key) == IF s.done THEN s ELSE InsertStep(s, key)

(* The loop runs: its passes one after the other. *)
LEMMA InsertRuns ==
  ASSUME NEW t, NEW key, InsertPasses(t) \in Nat
  PROVE  \E f : /\ f[0] = InsertFrom(t) /\ InsertWalk(t, key) = f[InsertPasses(t)]
                /\ \A n \in 1..InsertPasses(t) : f[n] = InsertOn(f[n - 1], key)
  <1> DEFINE m == InsertPasses(t)
             Runs(f, k) == f = [n \in 0..k |-> IF n = 0 THEN InsertFrom(t) ELSE InsertOn(f[n - 1], key)]
             S == {k \in Nat : \E f : Runs(f, k)}
  <1>1. Runs([n \in 0..0 |-> InsertFrom(t)], 0) OBVIOUS
  <1>2. ASSUME NEW k \in Nat, k \in S PROVE k + 1 \in S
    <2>1. PICK f : Runs(f, k) BY <1>2
    <2> DEFINE g == [n \in 0..k + 1 |-> IF n = 0 THEN InsertFrom(t) ELSE InsertOn(f[n - 1], key)]
    <2>2. \A n \in 0..k : g[n] = f[n]
      <3>1. \A n \in 0..k : f[n] = IF n = 0 THEN InsertFrom(t) ELSE InsertOn(f[n - 1], key) BY <2>1
      <3>2. \A n \in 0..k : n \in 0..k + 1 OBVIOUS
      <3> HIDE <2>1
      <3> QED BY <3>1, <3>2
    <2>3. \A n \in 0..k + 1 : n # 0 => n - 1 \in 0..k OBVIOUS
    <2>4. \A n \in 0..k + 1 : n # 0 => g[n - 1] = f[n - 1] BY <2>2, <2>3
    <2>5. g = [n \in 0..k + 1 |-> IF n = 0 THEN InsertFrom(t) ELSE InsertOn(g[n - 1], key)]
      BY <2>4
    <2> HIDE DEF g
    <2>6. Runs(g, k + 1) BY <2>5
    <2> HIDE DEF Runs
    <2>7. \E e : Runs(e, k + 1) BY <2>6
    <2> QED BY <2>7
  <1> HIDE DEF Runs
  <1>3. Nat \subseteq S BY <1>1, <1>2, Inductive
  <1>4. \E f : Runs(f, m) BY <1>3
  <1> DEFINE f == CHOOSE f : Runs(f, m)
  <1>5. Runs(f, m) BY <1>4
  <1>6. InsertWalk(t, key) = f[m] BY DEF InsertWalk, Runs, InsertFrom, InsertOn
  <1> HIDE DEF f
  <1>7. f = [n \in 0..m |-> IF n = 0 THEN InsertFrom(t) ELSE InsertOn(f[n - 1], key)]
    BY <1>5 DEF Runs
  <1>8. f[0] = InsertFrom(t) BY <1>7
  <1>9. \A n \in 1..m : n \in 0..m /\ n # 0 OBVIOUS
  <1>10. \A n \in 1..m : f[n] = InsertOn(f[n - 1], key) BY <1>7, <1>9
  <1> QED BY <1>6, <1>8, <1>10

(* The loop is over after 2K + 1 passes: InsertPasses is no bound of the    *)
(* model's own.                                                             *)
LEMMA InsertFits ==
  ASSUME NEW s, NEW key, NEW N0, NEW n \in Nat, NEW K \in Nat, InsertInv(s, key, N0, n, K),
         n > 2 * K
  PROVE  s.done
  <1> SUFFICES ASSUME ~s.done PROVE FALSE
    OBVIOUS
  <1>1. PICK I, b, h : Certified(s.tree, I, b, h) /\ Walking(s, key, I, n, K)
    BY DEF InsertInv
  <1>2. IsFiniteSet(s.tree.nodes) BY <1>1 DEF Certified, IsTree, Shape
  <1>3. \A V \in SUBSET s.tree.nodes : Cardinality(V) \in Nat
    BY <1>2, FS_Subset, FS_CardinalityType
  <1>4. /\ \A p, dir : Cardinality(Room(s.tree, I, p, dir)) \in Nat
        /\ Cardinality(s.tree.nodes \ {Fake}) \in Nat
    BY <1>3 DEF Room
  <1> QED BY <1>1, <1>4 DEF Walking

(* The loop leaves a certified tree with the key. *)
LEMMA InsertWalked ==
  ASSUME NEW t, NEW I, NEW b, NEW h, Certified(t, I, b, h), Root(t) # Nil, Root(t) \notin t.red,
         NEW key \in Point
  PROVE  LET u == InsertWalk(t, key).tree
         IN u.nodes = t.nodes \cup {key} /\ \E J, f, g : Certified(u, J, f, g)
  <1> DEFINE K == Cardinality(KeysOf(t))
             m == InsertPasses(t)
             N0 == t.nodes
  <1>1. K \in Nat /\ m = 2 * K + 1 /\ m \in Nat
    <2>1. IsFiniteSet(t.nodes) BY DEF Certified, IsTree, Shape
    <2>2. K \in Nat BY <2>1, FS_Subset, FS_CardinalityType DEF KeysOf
    <2> QED BY <2>2 DEF InsertPasses
  <1>2. PICK f : /\ f[0] = InsertFrom(t) /\ InsertWalk(t, key) = f[InsertPasses(t)]
                 /\ \A n \in 1..InsertPasses(t) : f[n] = InsertOn(f[n - 1], key)
    BY <1>1, InsertRuns
  <1> HIDE DEF m
  <1> DEFINE S == {n \in Nat : n <= m => InsertInv(f[n], key, N0, n, K)}
  <1>3. 0 \in S
    <2> DEFINE s == f[0]
    <2>1. /\ ~s.done /\ s.tree = t /\ s.p = Nil /\ s.gp = Nil /\ s.ggp = Fake
          /\ s.node = Root(t)
      BY <1>2 DEF InsertFrom
    <2> HIDE DEF s
    <2>2. AtRoot(s) BY <2>1 DEF AtRoot
    <2>3. 0 + 2 * Cardinality(s.tree.nodes \ {Fake}) <= 2 * K BY <1>1, <2>1 DEF KeysOf
    <2>4. Walking(s, key, I, 0, K) BY <2>1, <2>2, <2>3 DEF Walking
    <2>5. InsertInv(s, key, N0, 0, K) BY <2>1, <2>4 DEF InsertInv
    <2> QED BY <2>5 DEF s
  <1>4. ASSUME NEW n \in Nat, n \in S PROVE n + 1 \in S
    <2> SUFFICES ASSUME n + 1 <= m PROVE InsertInv(f[n + 1], key, N0, n + 1, K)
      OBVIOUS
    <2>1. n <= m /\ n + 1 \in 1..m /\ (n + 1) - 1 = n BY <1>1
    <2>2. InsertInv(f[n], key, N0, n, K) BY <1>4, <2>1
    <2>3. f[n + 1] = InsertOn(f[n], key) BY <1>2, <2>1 DEF m
    <2>4. CASE f[n].done
      <3>1. f[n + 1] = f[n] BY <2>3, <2>4 DEF InsertOn
      <3> QED BY <2>2, <2>4, <3>1 DEF InsertInv
    <2>5. CASE ~f[n].done
      <3>1. f[n + 1] = InsertStep(f[n], key) BY <2>3, <2>5 DEF InsertOn
      <3>2. InsertInv(InsertStep(f[n], key), key, N0, n + 1, K)
        BY <1>1, <2>2, <2>5, StepInsert
      <3> QED BY <3>1, <3>2
    <2> QED BY <2>4, <2>5
  <1>5. m \in S
    <2> HIDE DEF S
    <2>1. Nat \subseteq S BY <1>3, <1>4, Inductive
    <2> QED BY <1>1, <2>1
  <1> DEFINE end == InsertWalk(t, key)
  <1>6. InsertInv(end, key, N0, m, K)
    <2>1. InsertInv(f[m], key, N0, m, K) BY <1>1, <1>5
    <2> QED BY <1>2, <2>1 DEF m
  <1> HIDE DEF end, K
  <1>7. end.done BY <1>1, <1>6, InsertFits
  <1>8. end.tree.nodes = t.nodes \cup {key} /\ \E J, e, g : Certified(end.tree, J, e, g)
    BY <1>6, <1>7 DEF InsertInv
  <1> QED BY <1>8 DEF end

(* A tree with a black root that has the keys N: there is evidence of it.  *)
Sound(t, keys) ==
  /\ \E I, b, h : Certified(t, I, b, h)
  /\ Root(t) \notin t.red /\ KeysOf(t) = keys

(* Painting the root changes nothing else. *)
LEMMA PaintRoot ==
  ASSUME NEW t, NEW I, NEW b, NEW h, Certified(t, I, b, h)
  PROVE  Sound(Paint(t, {}, {Root(t)}), KeysOf(t))
  <1> DEFINE x == Root(t)
             u == Paint(t, {}, {x})
             f == IF x \in t.red /\ x # Nil THEN [b EXCEPT ![x] = @] ELSE b
  <1>1. /\ Record(t) /\ Shape(t.nodes, t.child) /\ t.red \subseteq t.nodes \ {Fake}
        /\ Spans(t.nodes, t.child, I) /\ RedRule(t.child, t.red)
        /\ Even(t.nodes, t.child, t.red, b, h)
    BY DEF Certified, IsTree
  <1>2. u.nodes = t.nodes /\ u.child = t.child /\ u.red = (t.red \cup {}) \ {x} /\ Record(u)
    BY <1>1, PaintFields
  <1> HIDE DEF u
  <1>3. IsTree(u) BY <1>1, <1>2 DEF IsTree
  <1>4. RedRule(u.child, u.red) BY <1>1, <1>2 DEF RedRule
  <1>5. Even(u.nodes, u.child, u.red, b, h)
    <2>1. \A y \in t.nodes \ {Fake} : \A d \in Dir : t.child[<<y, d>>] # Nil => t.child[<<y, d>>] # x
      <3>1. "right" \in Dir /\ Fake \in t.nodes /\ t.child[<<Fake, "right">>] = x
        BY <1>1 DEF Dir, Root, Shape
      <3> QED BY <1>1, <3>1 DEF Shape
    <2> HIDE DEF x
    <2> QED BY <1>1, <1>2, <2>1 DEF Even
  <1>6. Certified(u, I, b, h) BY <1>1, <1>2, <1>3, <1>4, <1>5 DEF Certified
  <1>7. Root(u) = x BY <1>2 DEF Root
  <1>8. Sound(u, KeysOf(t)) BY <1>2, <1>6, <1>7 DEF Sound, KeysOf
  <1> QED BY <1>8 DEF u

(* A sound tree is a red-black tree of its keys. *)
LEMMA SoundIsRedBlack ==
  ASSUME NEW t, NEW keys, Sound(t, keys)
  PROVE  IsRedBlack(t) /\ KeysOf(t) = keys
  BY CertifiedIsRedBlack DEF Sound

(* Insertion (72-146) of any key, there already or not, leaves a red-black  *)
(* tree of the keys and it.                                                 *)
THEOREM InsertSound ==
  ASSUME NEW t, NEW keys, Sound(t, keys), NEW key \in Point
  PROVE  Sound(Insert(t, key), keys \cup {key})
  <1> DEFINE t1 == IF Root(t) = Nil THEN Attach(t, key, Fake, "right") ELSE InsertWalk(t, key).tree
  <1>1. PICK I, b, h : Certified(t, I, b, h) BY DEF Sound
  <1>2. Insert(t, key) = Paint(t1, {}, {Root(t1)}) BY DEF Insert
  <1>3. t1.nodes = t.nodes \cup {key} /\ \E J, f, g : Certified(t1, J, f, g)
    <2>1. CASE Root(t) = Nil
      <3>1. t1 = Attach(t, key, Fake, "right") BY <2>1
      <3>2. /\ Shape(t.nodes, t.child) /\ Spans(t.nodes, t.child, I) /\ t.red \subseteq t.nodes \ {Fake}
        BY <1>1 DEF Certified, IsTree
      <3>3. t.nodes = {Fake}
        <4> DEFINE S == {Fake}
        <4>1. S \in SUBSET t.nodes /\ \A d \in Dir : t.child[<<Fake, d>>] = Nil
          BY <2>1, <3>2 DEF Shape, Dir, Root
        <4>2. \A T \in SUBSET t.nodes :
                Fake \in T /\ (\A x \in T : \A d \in Dir : t.child[<<x, d>>] = Nil
                             \/ t.child[<<x, d>>] \in T)
                  => T = t.nodes
          BY <3>2 DEF Shape
        <4>3. \A x \in S : \A d \in Dir : t.child[<<x, d>>] = Nil \/ t.child[<<x, d>>] \in S BY <4>1
        <4> QED BY <4>1, <4>2, <4>3
      <3>4. /\ key \notin t.nodes /\ Fake \in t.nodes /\ "right" \in Dir
            /\ t.child[<<Fake, "right">>] = Nil /\ <<Fake, "right">> # <<Fake, "left">>
            /\ key \in I[Fake] /\ key \in Beside(Fake, "right")
        BY <2>1, <3>2, <3>3, RBTreeAssumption DEF Dir, Root, Spans, Beside
      <3> HIDE DEF t1
      <3>5. /\ IsTree(t1) /\ t1.nodes = t.nodes \cup {key} /\ t1.red = t.red \cup {key}
            /\ (\E J : Spans(t1.nodes, t1.child, J))
            /\ (\E f : Even(t1.nodes, t1.child, t1.red, f, h))
        BY <1>1, <3>1, <3>4, AttachAt
      <3>6. \A d \in Dir : t1.child[<<key, d>>] = Nil
        BY <1>1, <3>1, <3>4, AttachSlots DEF Certified
      <3>7. RedRule(t1.child, t1.red)
        <4>1. t1.red \subseteq {key} BY <3>2, <3>3, <3>5
        <4>2. Nil \notin t1.red BY <4>1, RBTreeAssumption
        <4> QED BY <3>6, <4>1, <4>2 DEF RedRule
      <3> QED BY <3>5, <3>7 DEF Certified
    <2>2. CASE Root(t) # Nil
      <3>1. t1 = InsertWalk(t, key).tree BY <2>2
      <3>2. Root(t) \notin t.red BY DEF Sound
      <3> QED BY <1>1, <2>2, <3>1, <3>2, InsertWalked
    <2> QED BY <2>1, <2>2
  <1> HIDE DEF t1
  <1>4. Sound(Insert(t, key), KeysOf(t1)) BY <1>2, <1>3, PaintRoot
  <1>5. KeysOf(t1) = keys \cup {key}
    <2>1. KeysOf(t) = keys BY DEF Sound
    <2>2. key # Fake BY RBTreeAssumption
    <2> QED BY <1>3, <2>1, <2>2 DEF KeysOf
  <1> QED BY <1>4, <1>5

(* No node is above itself. *)
LEMMA ParentFar ==
  ASSUME NEW N, NEW C, Shape(N, C), NEW I, Spans(N, C, I), NEW p \in N, NEW pd \in Dir,
         NEW x, C[<<p, pd>>] = x, x # Nil, NEW d \in Dir, C[<<x, d>>] # Nil
  PROVE  C[<<x, d>>] \in N /\ C[<<x, d>>] # Fake /\ C[<<x, d>>] # p /\ C[<<x, d>>] # x /\ p # x
  <1> DEFINE c == C[<<x, d>>]
  <1>1. x \in N \ {Fake} BY RBTreeAssumption DEF Shape
  <1>2. c \in N \ {Fake} /\ x \notin I[c] /\ I[c] \subseteq I[x] BY <1>1, SpanStep DEF Spans
  <1>3. c \in I[c] /\ x \in I[x] BY <1>1, <1>2, SpanOwn
  <1>4. p # Fake => p \notin I[x] BY <1>1, SpanStep
  <1> HIDE DEF c
  <1>5. c \in N /\ c # Fake /\ c # p /\ c # x /\ p # x BY <1>1, <1>2, <1>3, <1>4
  <1> QED BY <1>5 DEF c

(* No red node below a red one, after the turn and the colours of lending. *)
LEMMA PushRule ==
  ASSUME NEW N, NEW C, Shape(N, C), NEW D, NEW x, NEW s, NEW dir, NEW p, NEW pd,
         IsTurn(N, C, D, x, s, dir, p, pd), NEW R \in SUBSET N,
         C[<<x, dir>>] # Nil, C[<<x, dir>>] # p, p \notin R,
         \A d \in Dir : C[<<C[<<x, dir>>], d>>] \notin R,
         \A y \in R : \A d \in Dir : C[<<y, d>>] \in R => y = C[<<s, Other(dir)>>]
  PROVE  RedRule(D, (R \cup {s, C[<<x, dir>>]}) \ {x, C[<<s, Other(dir)>>]})
  <1> DEFINE node == C[<<x, dir>>]
             w == C[<<s, Other(dir)>>]
             Q == (R \cup {s, node}) \ {x, w}
  <1>1. /\ x \in N \ {Fake} /\ s \in N \ {Fake} /\ p \in N /\ dir \in Dir /\ p # s
        /\ node \in N /\ s \in N
    BY DEF IsTurn, Shape
  <1>2. ASSUME NEW y \in Q, NEW d \in Dir, D[<<y, d>>] \in Q PROVE FALSE
    <2>1. y \in N BY <1>1, <1>2
    <2>2. \/ y = p /\ d = pd /\ D[<<y, d>>] = s /\ C[<<y, d>>] = x
          \/ y = s /\ d = dir /\ D[<<y, d>>] = x
          \/ /\ y = s /\ d = Other(dir)
             /\ D[<<y, d>>] = C[<<s, Other(dir)>>] /\ D[<<y, d>>] \notin {x, s}
          \/ y = x /\ d = dir /\ D[<<y, d>>] = C[<<x, dir>>] /\ D[<<y, d>>] \notin {x, s}
          \/ /\ y = x /\ d = Other(dir)
             /\ D[<<y, d>>] = C[<<s, dir>>] /\ D[<<y, d>>] \notin {x, s}
          \/ y \notin {x, s} /\ D[<<y, d>>] = C[<<y, d>>] /\ D[<<y, d>>] \notin {x, s}
      BY <2>1, TurnFrame
    <2>3. CASE y \notin {x, s} /\ D[<<y, d>>] = C[<<y, d>>] /\ D[<<y, d>>] \notin {x, s}
      <3>1. C[<<y, d>>] # node BY <1>1, <2>1, <2>3 DEF Shape
      <3>2. C[<<y, d>>] \in R BY <1>2, <2>3, <3>1
      <3>3. CASE y = node BY <3>2, <3>3
      <3>4. CASE y # node
        <4>1. y \in R BY <1>2, <2>3, <3>4
        <4>2. y = w BY <3>2, <4>1
        <4> QED BY <1>2, <4>2
      <3> QED BY <3>3, <3>4
    <2> QED BY <1>1, <1>2, <2>2, <2>3
  <1> QED BY <1>2 DEF RedRule

(* What is turned when a child of the sibling lends its colour. *)
Lending(t, I, b, h, gp, pd, p, dir, y, node, w) ==
  /\ IsTree(t) /\ Spans(t.nodes, t.child, I) /\ Even(t.nodes, t.child, t.red, b, h)
  /\ gp \in t.nodes /\ pd \in Dir /\ p \in t.nodes \ {Fake} /\ dir \in Dir
  /\ t.child[<<gp, pd>>] = p /\ (p \in t.red \/ gp = Fake) /\ gp \notin t.red
  /\ y = t.child[<<p, Other(dir)>>] /\ y # Nil /\ y \notin t.red
  /\ node = t.child[<<p, dir>>] /\ node # Nil /\ node \notin t.red
  /\ \A d \in Dir : t.child[<<node, d>>] \notin t.red
  /\ w = t.child[<<y, Other(dir)>>] /\ w \in t.red
  /\ \A v \in t.red : \A d \in Dir : t.child[<<v, d>>] \in t.red => v = w

(* The black heights after the turn that lends a colour. *)
Swapped(b, p, y) == [b EXCEPT ![p] = b[y], ![y] = b[p]]
(* The children of a node. *)
Kids(t, y) == {t.child[<<y, d>>] : d \in Dir}

(* What the turn and the colours make of the tree. *)
IsLent(t, v, u, gp, pd, p, dir, y, node, w) ==
  /\ IsTurn(t.nodes, t.child, v.child, p, y, dir, gp, pd)
  /\ v.nodes = t.nodes /\ u.nodes = t.nodes /\ u.child = v.child
  /\ u.red = (t.red \cup {y, node}) \ {p, w}

(* Lending a colour by one turn keeps the tree certified. *)
LEMMA LendTurn ==
  ASSUME NEW t, NEW I, NEW b, NEW h, NEW gp, NEW pd, NEW p, NEW dir, NEW y, NEW node, NEW w,
         Lending(t, I, b, h, gp, pd, p, dir, y, node, w)
  PROVE  LET v == Hang(Rotate(t, p, dir), gp, pd)
             u == Paint(v, {y, node}, {p, w})
         IN /\ Certified(u, TurnSpans(I, p, y, dir), Swapped(b, p, y), h)
            /\ IsLent(t, v, u, gp, pd, p, dir, y, node, w)
  <1> DEFINE N == t.nodes
             R == t.red
             v == Hang(Rotate(t, p, dir), gp, pd)
             u == Paint(v, {y, node}, {p, w})
             f == Swapped(b, p, y)
             Q == (R \cup {y, node}) \ {p, w}
  <1>1. /\ IsTree(t) /\ Spans(N, t.child, I) /\ Even(N, t.child, R, b, h)
        /\ gp \in N /\ pd \in Dir /\ p \in N \ {Fake} /\ dir \in Dir
        /\ t.child[<<gp, pd>>] = p /\ gp \notin R
        /\ y = t.child[<<p, Other(dir)>>] /\ y # Nil /\ y \notin R
        /\ node = t.child[<<p, dir>>] /\ node # Nil /\ node \notin R
        /\ w = t.child[<<y, Other(dir)>>] /\ w \in R
        /\ Shape(N, t.child) /\ R \subseteq N \ {Fake}
    BY DEF Lending, IsTree
  <1>2. /\ p \in R \/ gp = Fake
        /\ \A d \in Dir : t.child[<<node, d>>] \notin R
        /\ \A z \in R : \A d \in Dir : t.child[<<z, d>>] \in R => z = w
    BY DEF Lending
  <1>3. /\ v.nodes = N /\ v.red = (R \cup {p}) \ {y} /\ IsTree(v)
        /\ IsTurn(N, t.child, v.child, p, y, dir, gp, pd)
    BY <1>1, RotateAt
  <1>4. node \in N \ {Fake} /\ node # gp /\ w # Nil /\ Record(v)
    <2>1. Nil \notin N BY <1>1, RBTreeAssumption DEF Shape
    <2>2. Record(v) BY <1>3 DEF IsTree
    <2> HIDE DEF N, R, v, u, f, Q
    <2>3. p # Nil BY <1>1, <2>1
    <2>4. node \in N /\ node # Fake /\ node # gp BY <1>1, <2>3, ParentFar
    <2> QED BY <1>1, <2>1, <2>2, <2>4
  <1> HIDE DEF v
  <1>5. u.nodes = v.nodes /\ u.child = v.child /\ u.red = (v.red \cup {y, node}) \ {p, w} /\ Record(u)
    BY <1>4, PaintFields
  <1> HIDE DEF u, f
  <1>6. u.red = Q BY <1>3, <1>5
  <1>7. Shape(N, v.child) /\ Spans(N, v.child, TurnSpans(I, p, y, dir))
    BY <1>1, <1>3, TurnShape, TurnOrder
  <1>13. RedRule(v.child, (R \cup {y, node}) \ {p, w})
    <2>1. R \in SUBSET N BY <1>1
    <2> HIDE DEF N, R
    <2> QED BY ZenonT(60), <1>1, <1>2, <1>3, <1>4, <2>1, PushRule
  <1>8. RedRule(v.child, Q) BY <1>13
  <1>9. Even(N, v.child, Q, f, h) BY <1>1, <1>2, <1>3, <1>4, TurnPush DEF f, Swapped
  <1>10. Q \subseteq N \ {Fake}
    <2>1. y \in N \ {Fake}
      <3>1. Other(dir) \in Dir BY <1>1, Dirs
      <3> QED BY <1>1, <3>1 DEF Shape
    <2> QED BY <1>1, <1>4, <2>1
  <1> HIDE DEF Q
  <1>11. IsTree(u) BY <1>3, <1>5, <1>6, <1>7, <1>10 DEF IsTree
  <1>12. Certified(u, TurnSpans(I, p, y, dir), f, h)
    BY <1>3, <1>5, <1>6, <1>7, <1>8, <1>9, <1>11 DEF Certified
  <1>14. IsLent(t, v, u, gp, pd, p, dir, y, node, w) BY <1>3, <1>5, <1>6 DEF IsLent, Q
  <1> QED BY <1>12, <1>14 DEF u, v, f

(* The colours that Lent gives are those of the turn. *)
LEMMA LendPaint ==
  ASSUME NEW t, NEW I, NEW b, NEW h, NEW gp, NEW pd, NEW p, NEW dir, NEW y, NEW node, NEW w,
         Lending(t, I, b, h, gp, pd, p, dir, y, node, w)
  PROVE  LET v == Hang(Rotate(t, p, dir), gp, pd)
         IN v.child[<<gp, pd>>] = y /\ Kids(v, y) = {p, w}
  <1> DEFINE v == Hang(Rotate(t, p, dir), gp, pd)
  <1>1. IsTurn(t.nodes, t.child, v.child, p, y, dir, gp, pd) BY LendTurn DEF IsLent
  <1> HIDE DEF v
  <1>2. w = t.child[<<y, Other(dir)>>] /\ dir \in Dir BY DEF Lending
  <1>3. v.child[<<gp, pd>>] = y /\ v.child[<<y, dir>>] = p /\ v.child[<<y, Other(dir)>>] = w
    BY <1>1, <1>2 DEF IsTurn
  <1>5. Dir = {dir, Other(dir)} BY <1>2 DEF Dir, Other
  <1>4. Kids(v, y) = {p, w} BY <1>3, <1>5 DEF Kids
  <1> QED BY <1>3, <1>4 DEF v

(* A node with a black sibling that has a red child. *)
Poor(t, I, b, h, gp, pd, p, last, y, x) ==
  /\ Certified(t, I, b, h) /\ gp \in t.nodes /\ pd \in Dir /\ p \in t.nodes \ {Fake}
  /\ last \in Dir /\ t.child[<<gp, pd>>] = p /\ (p \in t.red \/ gp = Fake)
  /\ x = t.child[<<p, last>>] /\ x # Nil /\ x \notin t.red /\ Calm(t, x)
  /\ y = t.child[<<p, Other(last)>>] /\ y # Nil /\ y \notin t.red

(* What is known where the red must come from the sibling. *)
LEMMA PoorFacts ==
  ASSUME NEW t, NEW I, NEW b, NEW h, NEW gp, NEW pd, NEW p, NEW last, NEW y, NEW x,
         Poor(t, I, b, h, gp, pd, p, last, y, x)
  PROVE  /\ IsTree(t) /\ Spans(t.nodes, t.child, I) /\ Even(t.nodes, t.child, t.red, b, h)
         /\ RedRule(t.child, t.red) /\ Shape(t.nodes, t.child) /\ t.red \subseteq t.nodes \ {Fake}
         /\ Nil \notin t.nodes /\ gp \notin t.red /\ Other(last) \in Dir /\ Other(last) # last
         /\ Other(Other(last)) = last /\ x \in t.nodes \ {Fake} /\ y \in t.nodes \ {Fake}
         /\ x # p /\ y # p /\ x # y /\ gp \notin {p, x, y}
  <1>1. /\ IsTree(t) /\ Spans(t.nodes, t.child, I) /\ Even(t.nodes, t.child, t.red, b, h)
        /\ RedRule(t.child, t.red) /\ Shape(t.nodes, t.child) /\ t.red \subseteq t.nodes \ {Fake}
        /\ gp \in t.nodes /\ pd \in Dir /\ p \in t.nodes \ {Fake} /\ p # Nil
        /\ last \in Dir /\ t.child[<<gp, pd>>] = p /\ (p \in t.red \/ gp = Fake)
        /\ x = t.child[<<p, last>>] /\ x # Nil /\ y = t.child[<<p, Other(last)>>] /\ y # Nil
    BY RBTreeAssumption DEF Poor, Certified, IsTree, Shape
  <1>2. /\ Other(last) \in Dir /\ Other(last) # last /\ Other(Other(last)) = last
        /\ Nil \notin t.nodes
    BY <1>1, Dirs, RBTreeAssumption DEF Shape
  <1>3. gp \notin t.red BY <1>1 DEF RedRule
  <1>4. x \in t.nodes /\ x # Fake /\ x # p /\ x # gp /\ gp # p BY <1>1, ParentFar
  <1>5. y \in t.nodes /\ y # Fake /\ y # p /\ y # gp BY <1>1, <1>2, ParentFar
  <1>6. x # y BY <1>1, <1>2 DEF Shape
  <1> QED BY <1>1, <1>2, <1>3, <1>4, <1>5, <1>6

(* A red child of the sibling on the outer side can lend its colour. *)
LEMMA PoorOuter ==
  ASSUME NEW t, NEW I, NEW b, NEW h, NEW gp, NEW pd, NEW p, NEW last, NEW y, NEW x,
         Poor(t, I, b, h, gp, pd, p, last, y, x), t.child[<<y, Other(last)>>] \in t.red
  PROVE  Lending(t, I, b, h, gp, pd, p, last, y, x, t.child[<<y, Other(last)>>])
  <1> DEFINE w == t.child[<<y, Other(last)>>]
  <1>1. /\ IsTree(t) /\ Spans(t.nodes, t.child, I) /\ Even(t.nodes, t.child, t.red, b, h)
        /\ RedRule(t.child, t.red) /\ gp \notin t.red
    BY PoorFacts
  <1>2. \A v \in t.red : \A d \in Dir : t.child[<<v, d>>] \in t.red => v = w
    BY <1>1 DEF RedRule
  <1> QED BY <1>1, <1>2 DEF Poor, Lending, Calm

(* The inner red child is turned outside first. *)
LEMMA PoorInner ==
  ASSUME NEW t, NEW I, NEW b, NEW h, NEW gp, NEW pd, NEW p, NEW last, NEW y, NEW x,
         Poor(t, I, b, h, gp, pd, p, last, y, x), t.child[<<y, last>>] \in t.red
  PROVE  LET w == t.child[<<y, last>>]
             v == Hang(Rotate(t, y, Other(last)), p, Other(last))
         IN /\ Lending(v, TurnSpans(I, y, w, Other(last)), b, h, gp, pd, p, last, w, x, y)
            /\ v.nodes = t.nodes /\ w \notin {x, p, y} /\ w # Nil
            /\ IsTurn(t.nodes, t.child, v.child, y, w, Other(last), p, Other(last))
  <1> DEFINE w == t.child[<<y, last>>]
             o == Other(last)
             N == t.nodes
             v == Hang(Rotate(t, y, o), p, o)
             J == TurnSpans(I, y, w, o)
  <1>1. /\ IsTree(t) /\ Spans(N, t.child, I) /\ Even(N, t.child, t.red, b, h)
        /\ RedRule(t.child, t.red) /\ Shape(N, t.child) /\ t.red \subseteq N \ {Fake}
        /\ Nil \notin N /\ gp \notin t.red /\ o \in Dir /\ o # last
        /\ Other(o) = last /\ x \in N \ {Fake} /\ y \in N \ {Fake}
        /\ x # p /\ y # p /\ x # y /\ gp \notin {p, x, y}
    BY PoorFacts
  <1>2. /\ gp \in N /\ pd \in Dir /\ p \in N \ {Fake} /\ last \in Dir
        /\ t.child[<<gp, pd>>] = p /\ (p \in t.red \/ gp = Fake)
        /\ x = t.child[<<p, last>>] /\ x # Nil /\ x \notin t.red /\ Calm(t, x)
        /\ y = t.child[<<p, o>>] /\ y # Nil /\ y \notin t.red
    BY DEF Poor
  <1>3. w \in N /\ w # Fake /\ w # Nil /\ w # p /\ w # y /\ w # x
    <2>1. w \in N /\ w # Fake /\ w # Nil BY <1>1
    <2>2. w # p /\ w # y
      <3> HIDE DEF N, o
      <3> QED BY <1>1, <1>2, <2>1, ParentFar
    <2>3. w # x BY <1>1, <1>2, <2>1 DEF Shape
    <2> QED BY <2>1, <2>2, <2>3
  <1>4. t.child[<<p, o>>] = y /\ t.child[<<y, Other(o)>>] = w BY <1>1, <1>2
  <1>5. /\ v.nodes = N /\ v.red = (t.red \cup {y}) \ {w} /\ IsTree(v)
        /\ IsTurn(N, t.child, v.child, y, w, o, p, o)
    BY <1>1, <1>2, <1>3, <1>4, RotateAt
  <1> HIDE DEF v, J, w
  <1>6. Shape(N, v.child) BY <1>5 DEF IsTree
  <1>7. Spans(N, v.child, J) BY <1>1, <1>5, TurnOrder DEF J
  <1>8. v.red = IF y \in t.red THEN t.red ELSE (t.red \cup {y}) \ {w} BY <1>2, <1>5
  <1>13. w \in t.red BY DEF w
  <1>9. Even(N, v.child, v.red, b, h)
    BY <1>1, <1>5, <1>8, <1>13, TurnEven
  <1>10. /\ v.child[<<p, o>>] = w /\ v.child[<<w, o>>] = y /\ v.child[<<p, last>>] = x
         /\ v.child[<<gp, pd>>] = p /\ \A d \in Dir : v.child[<<x, d>>] = t.child[<<x, d>>]
    BY <1>1, <1>2, <1>3, <1>5 DEF IsTurn
  <1>11. /\ p \in v.red \/ gp = Fake
         /\ gp \notin v.red /\ x \notin v.red /\ w \notin v.red /\ y \in v.red
    BY <1>1, <1>2, <1>3, <1>5
  <1>12. \A d \in Dir : v.child[<<x, d>>] \notin v.red
    <2> SUFFICES ASSUME NEW d \in Dir, v.child[<<x, d>>] \in v.red PROVE FALSE
      OBVIOUS
    <2>1. t.child[<<x, d>>] \notin t.red BY <1>2 DEF Calm
    <2>2. t.child[<<x, d>>] # y BY <1>1, <1>2 DEF Shape
    <2> QED BY <1>5, <1>10, <2>1, <2>2
  <1>14. \A z \in v.red : \A d \in Dir : v.child[<<z, d>>] \in v.red => z = y
    <2> SUFFICES ASSUME NEW z \in v.red, NEW d \in Dir, v.child[<<z, d>>] \in v.red, z # y PROVE FALSE
      OBVIOUS
    <2>1. z \in t.red /\ z \notin {y, w} /\ z \in N BY <1>1, <1>5
    <2>2. ~(z = p /\ d = o) BY <1>10, <1>11
    <2>3. v.child[<<z, d>>] = t.child[<<z, d>>] BY <1>5, <2>1, <2>2 DEF IsTurn
    <2>4. t.child[<<z, d>>] \notin t.red BY <1>1, <2>1 DEF RedRule
    <2>5. t.child[<<z, d>>] # y BY <1>1, <1>2, <2>1, <2>2 DEF Shape
    <2> QED BY <1>5, <2>3, <2>4, <2>5
  <1>15. Lending(v, J, b, h, gp, pd, p, last, w, x, y)
    <2>1. v.nodes = N BY <1>5
    <2> HIDE DEF N, o
    <2>2. y = v.child[<<w, Other(last)>>] /\ w = v.child[<<p, Other(last)>>] BY <1>10 DEF o
    <2> QED BY <1>2, <1>3, <1>5, <1>7, <1>9, <1>10, <1>11, <1>12, <1>14, <2>1, <2>2 DEF Lending
  <1> QED BY <1>3, <1>5, <1>15 DEF w, v, J

(* x has been made red below q, and it has the same keys as before on the  *)
(* side dir.                                                               *)
Reddened(t, I, u, q, x, dir) ==
  /\ u.nodes = t.nodes /\ q \in t.nodes /\ x \in u.red /\ \E d \in Dir : u.child[<<q, d>>] = x
  /\ \E J, f, g : Certified(u, J, f, g) /\ J[x] \cap Beside(x, dir) = I[x] \cap Beside(x, dir)

(* Lending (199-213) leaves node red, with p still above it. *)
LEMMA LentAt ==
  ASSUME NEW t, NEW I, NEW b, NEW h, NEW gp, NEW pd, NEW p, NEW last, NEW y, NEW x,
         Poor(t, I, b, h, gp, pd, p, last, y, x), ~Calm(t, y), NEW dir
  PROVE  Reddened(t, I, Lent(t, gp, p, x, last), p, x, dir)
  <1> DEFINE u == Lent(t, gp, p, x, last)
             o == Other(last)
             N == t.nodes
             gd == IF t.child[<<gp, "right">>] = p THEN "right" ELSE "left"
             w == t.child[<<y, last>>]
             v == Hang(Rotate(t, y, o), p, o)
  <1>1. /\ IsTree(t) /\ Spans(N, t.child, I) /\ Shape(N, t.child)
        /\ Nil \notin N /\ o \in Dir /\ o # last
        /\ Other(o) = last /\ x \in N \ {Fake} /\ y \in N \ {Fake}
        /\ x # p /\ y # p /\ x # y /\ gp \notin {p, x, y}
    BY PoorFacts
  <1>2. /\ gp \in N /\ pd \in Dir /\ p \in N \ {Fake} /\ last \in Dir
        /\ t.child[<<gp, pd>>] = p
        /\ x = t.child[<<p, last>>] /\ y = t.child[<<p, o>>]
    BY DEF Poor
  <1>3. gd = pd BY <1>1, <1>2 DEF Shape, Dir
  <1>4. \A d \in Dir : d = last \/ d = o BY <1>2, Dirs
  <1>5. CASE w \in t.red
    <2> DEFINE turned == Hang(Rotate(v, p, last), gp, pd)
               J == TurnSpans(I, y, w, o)
               K == TurnSpans(J, p, w, last)
               f == Swapped(b, p, w)
               uu == Paint(turned, {w, x}, {p, y})
    <2>1. /\ Lending(v, J, b, h, gp, pd, p, last, w, x, y)
          /\ v.nodes = N /\ w \notin {x, p, y} /\ w # Nil
      BY <1>5, PoorInner
    <2> HIDE DEF v, w, J
    <2>2. /\ Certified(uu, K, f, h) /\ IsTurn(v.nodes, v.child, turned.child, p, w, last, gp, pd)
          /\ uu.nodes = v.nodes /\ uu.child = turned.child /\ uu.red = (v.red \cup {w, x}) \ {p, y}
      <3>1. Certified(uu, K, f, h) BY <2>1, LendTurn
      <3>2. IsLent(v, turned, uu, gp, pd, p, last, w, x, y) BY <2>1, LendTurn
      <3> QED BY <3>1, <3>2 DEF IsLent
    <2>3. turned.child[<<gp, pd>>] = w /\ Kids(turned, w) = {p, y}
      BY <2>1, LendPaint
    <2>4. u = uu
      <3>1. DoubleRotate(t, p, last) = Rotate(v, p, last) BY <1>2 DEF DoubleRotate, v
      <3>2. u = LET tt == Hang(DoubleRotate(t, p, last), gp, gd)
                    gpc == tt.child[<<gp, gd>>]
                IN Paint(tt, {gpc, x}, Kids(tt, gpc))
        BY <1>2, <1>5 DEF Lent, Kids, w
      <3> HIDE DEF u, gd, v, w
      <3> QED BY <1>3, <2>3, <3>1, <3>2
    <2>5. uu.child[<<p, last>>] = x
      <3>1. v.child[<<p, last>>] = x BY <2>1 DEF Lending
      <3> QED BY <2>2, <3>1 DEF IsTurn
    <2>6. K[x] = I[x]
      <3>1. I \in [N -> SUBSET Point] BY <1>1 DEF Spans
      <3> QED BY <1>1, <2>1, <3>1 DEF TurnSpans, J
    <2> HIDE DEF u, uu, K, f, v, turned
    <2>8. x \in uu.red BY <1>1, <2>2
    <2>7. u.nodes = t.nodes /\ u.child[<<p, last>>] = x /\ x \in u.red
      BY <2>1, <2>2, <2>4, <2>5, <2>8
    <2>10. Reddened(t, I, u, p, x, dir) BY <1>2, <2>2, <2>4, <2>6, <2>7 DEF Reddened
    <2> QED BY <2>10 DEF u
  <1>6. CASE w \notin t.red
    <2> DEFINE turned == Hang(Rotate(t, p, last), gp, pd)
               r == t.child[<<y, o>>]
               K == TurnSpans(I, p, y, last)
               f == Swapped(b, p, y)
               uu == Paint(turned, {y, x}, {p, r})
    <2>1. r \in t.red BY <1>4, <1>6 DEF Calm
    <2>9. Lending(t, I, b, h, gp, pd, p, last, y, x, r) BY <2>1, PoorOuter
    <2> HIDE DEF r
    <2>2. /\ Certified(uu, K, f, h) /\ IsTurn(N, t.child, turned.child, p, y, last, gp, pd)
          /\ uu.nodes = N /\ uu.child = turned.child /\ uu.red = (t.red \cup {y, x}) \ {p, r}
      <3>1. Certified(uu, K, f, h) BY <2>9, LendTurn
      <3>2. IsLent(t, turned, uu, gp, pd, p, last, y, x, r) BY <2>9, LendTurn
      <3> QED BY <3>1, <3>2 DEF IsLent
    <2>3. turned.child[<<gp, pd>>] = y /\ Kids(turned, y) = {p, r}
      BY <2>9, LendPaint
    <2>4. u = uu
      <3>2. u = LET tt == Hang(Rotate(t, p, last), gp, gd)
                    gpc == tt.child[<<gp, gd>>]
                IN Paint(tt, {gpc, x}, Kids(tt, gpc))
        BY <1>2, <1>6 DEF Lent, Kids
      <3> HIDE DEF u, gd, r
      <3> QED BY <1>3, <2>3, <3>2
    <2>5. uu.child[<<p, last>>] = x BY <1>2, <2>2 DEF IsTurn
    <2>6. K[x] = I[x]
      <3>1. I \in [N -> SUBSET Point] BY <1>1 DEF Spans
      <3> QED BY <1>1, <3>1 DEF TurnSpans
    <2>8. x \in uu.red
      <3>1. x \notin t.red BY DEF Poor
      <3> HIDE DEF uu
      <3> QED BY <1>1, <2>1, <2>2, <3>1
    <2> HIDE DEF u, uu, K, f, turned
    <2>7. u.nodes = t.nodes /\ u.child[<<p, last>>] = x /\ x \in u.red
      BY <2>2, <2>4, <2>5, <2>8
    <2>10. Reddened(t, I, u, p, x, dir) BY <1>2, <2>2, <2>4, <2>6, <2>7 DEF Reddened
    <2> QED BY <2>10 DEF u
  <1> QED BY <1>5, <1>6

(* If the sibling has no red child, p gives its own red to both (194-198). *)
LEMMA FlipPush ==
  ASSUME NEW t, NEW I, NEW b, NEW h, NEW gp, NEW pd, NEW p, NEW last, NEW y, NEW x,
         Poor(t, I, b, h, gp, pd, p, last, y, x), Calm(t, y), NEW dir
  PROVE  Reddened(t, I, Paint(t, {y, x}, {p}), p, x, dir)
  <1> DEFINE u == Paint(t, {y, x}, {p})
             o == Other(last)
             N == t.nodes
             C == t.child
             R == t.red
             Q == (R \cup {y, x}) \ {p}
             f == [b EXCEPT ![p] = b[p] + 1]
  <1>1. /\ IsTree(t) /\ Spans(N, C, I) /\ Even(N, C, R, b, h)
        /\ RedRule(C, R) /\ Shape(N, C) /\ R \subseteq N \ {Fake}
        /\ Nil \notin N /\ gp \notin R /\ o \in Dir /\ o # last
        /\ Other(o) = last /\ x \in N \ {Fake} /\ y \in N \ {Fake}
        /\ x # p /\ y # p /\ x # y /\ gp \notin {p, x, y}
    BY PoorFacts
  <1>2. /\ gp \in N /\ pd \in Dir /\ p \in N \ {Fake} /\ last \in Dir
        /\ C[<<gp, pd>>] = p /\ (p \in R \/ gp = Fake)
        /\ x = C[<<p, last>>] /\ x \notin R
        /\ y = C[<<p, o>>] /\ y \notin R
    BY DEF Poor
  <1>3. /\ \A d \in Dir : C[<<x, d>>] \notin R
        /\ \A d \in Dir : C[<<y, d>>] \notin R
        /\ \A d \in Dir : d = last \/ d = o
    BY <1>2, Dirs DEF Poor, Calm
  <1>4. Record(t) BY <1>1 DEF IsTree
  <1>5. u.nodes = N /\ u.child = C /\ u.red = Q /\ Record(u) BY <1>4, PaintFields
  <1> HIDE DEF u
  <1>6. \A v, z \in N : \A d, e \in Dir :
          C[<<v, d>>] = C[<<z, e>>] /\ C[<<v, d>>] # Nil => v = z /\ d = e
    BY <1>1 DEF Shape
  <1>7. /\ \A v \in N : \A d \in Dir : C[<<v, d>>] \in {x, y} => v = p
        /\ \A v \in N : \A d \in Dir : C[<<v, d>>] = p => v = gp
    BY <1>1, <1>2, <1>6
  <1>8. RedRule(C, Q)
    <2> SUFFICES ASSUME NEW v \in Q, NEW d \in Dir, C[<<v, d>>] \in Q PROVE FALSE
      BY DEF RedRule
    <2>1. v \in N /\ v # p BY <1>1
    <2>2. C[<<v, d>>] \in R BY <1>7, <2>1
    <2>3. v \in R BY <1>3, <2>2
    <2> QED BY <1>1, <2>2, <2>3 DEF RedRule
  <1>9. /\ b \in [N -> Int] /\ h \in Int
        /\ \A z \in N \ {Fake} : \A d \in Dir :
             /\ b[z] <= h
             /\ C[<<z, d>>] = Nil => b[z] = h
             /\ C[<<z, d>>] # Nil /\ C[<<z, d>>] \in R => b[C[<<z, d>>]] = b[z]
             /\ C[<<z, d>>] # Nil /\ C[<<z, d>>] \notin R => b[C[<<z, d>>]] = b[z] + 1
    BY <1>1 DEF Even
  <1>10. /\ b[x] = b[p] + 1 /\ b[y] = b[p] + 1 /\ b[x] <= h /\ x # Nil /\ y # Nil
    BY ZenonT(60), <1>1, <1>2, <1>9
  <1>11. f \in [N -> Int] /\ f[p] = b[p] + 1 /\ \A z \in N : z # p => f[z] = b[z]
    BY <1>2, <1>9
  <1> HIDE DEF f
  <1>12. ASSUME NEW z \in N \ {Fake}, NEW d \in Dir
         PROVE  /\ f[z] <= h
                /\ C[<<z, d>>] = Nil => f[z] = h
                /\ C[<<z, d>>] # Nil /\ C[<<z, d>>] \in Q => f[C[<<z, d>>]] = f[z]
                /\ C[<<z, d>>] # Nil /\ C[<<z, d>>] \notin Q => f[C[<<z, d>>]] = f[z] + 1
    <2>1. CASE z = p
      <3>1. C[<<z, d>>] \in {x, y} BY <1>2, <1>3, <2>1
      <3>2. C[<<z, d>>] \in Q /\ C[<<z, d>>] # Nil BY <1>1, <1>10, <3>1
      <3>3. f[C[<<z, d>>]] = f[z] /\ f[z] <= h BY <1>1, <1>10, <1>11, <2>1, <3>1
      <3> QED BY <3>2, <3>3
    <2>2. CASE z # p /\ C[<<z, d>>] = p
      <3>1. z = gp /\ p \in R /\ p # Nil BY <1>1, <1>2, <1>7, <2>2
      <3>2. b[p] = b[z] /\ b[z] <= h BY <1>9, <2>2, <3>1
      <3>3. f[z] = b[z] /\ p \notin Q BY <1>11, <2>2
      <3>4. f[p] = f[z] + 1 BY <1>11, <3>2, <3>3
      <3> QED BY <2>2, <3>1, <3>2, <3>3, <3>4
    <2>3. CASE z # p /\ C[<<z, d>>] # p
      <3>1. C[<<z, d>>] \notin {x, y} BY <1>7, <2>3
      <3>2. C[<<z, d>>] \in Q <=> C[<<z, d>>] \in R BY <2>3, <3>1
      <3>3. f[z] = b[z] BY <1>11, <2>3
      <3>4. C[<<z, d>>] # Nil => f[C[<<z, d>>]] = b[C[<<z, d>>]]
        <4>1. C[<<z, d>>] # Nil => C[<<z, d>>] \in N BY <1>1 DEF Shape
        <4> QED BY <1>11, <2>3, <4>1
      <3> HIDE DEF Q
      <3> QED BY <1>9, <3>2, <3>3, <3>4
    <2> QED BY <2>1, <2>2, <2>3
  <1>13. Even(N, C, Q, f, h) BY <1>9, <1>11, <1>12 DEF Even
  <1>14. IsTree(u)
    <2>1. Q \subseteq N \ {Fake} BY <1>1
    <2> HIDE DEF Q
    <2> QED BY <1>1, <1>5, <2>1 DEF IsTree
  <1>15. x \in Q BY <1>1
  <1> HIDE DEF Q
  <1>16. Certified(u, I, f, h) BY <1>1, <1>5, <1>8, <1>13, <1>14 DEF Certified
  <1>17. u.nodes = t.nodes /\ u.child[<<p, last>>] = x /\ x \in u.red BY <1>2, <1>5, <1>15
  <1>18. Reddened(t, I, u, p, x, dir) BY <1>2, <1>16, <1>17 DEF Reddened
  <1> QED BY <1>18 DEF u

(* If the child on the other side is red, a turn brings it above node       *)
(* (186-189).                                                               *)
LEMMA NodePush ==
  ASSUME NEW t, NEW I, NEW b, NEW h, Certified(t, I, b, h), NEW p \in t.nodes, NEW last \in Dir,
         NEW x \in t.nodes \ {Fake}, t.child[<<p, last>>] = x, NEW dir \in Dir, x \notin t.red,
         t.child[<<x, dir>>] \notin t.red, t.child[<<x, Other(dir)>>] \in t.red
  PROVE  Reddened(t, I, Hang(Rotate(t, x, dir), p, last), Rotate(t, x, dir).top, x, dir)
  <1> DEFINE s == t.child[<<x, Other(dir)>>]
             u == Hang(Rotate(t, x, dir), p, last)
             N == t.nodes
             J == TurnSpans(I, x, s, dir)
  <1>1. /\ IsTree(t) /\ Spans(N, t.child, I) /\ Even(N, t.child, t.red, b, h)
        /\ RedRule(t.child, t.red) /\ Shape(N, t.child) /\ t.red \subseteq N \ {Fake}
        /\ Nil \notin N
    BY RBTreeAssumption DEF Certified, IsTree, Shape
  <1>2. s \in t.red /\ s # Nil /\ s \in N \ {Fake} /\ Other(dir) \in Dir BY <1>1, Dirs
  <1>3. /\ Rotate(t, x, dir).top = s /\ u.nodes = N /\ u.red = (t.red \cup {x}) \ {s} /\ IsTree(u)
        /\ IsTurn(N, t.child, u.child, x, s, dir, p, last)
    BY <1>1, <1>2, RotateAt
  <1> HIDE DEF u
  <1>4. Spans(N, u.child, J) BY <1>1, <1>3, TurnOrder
  <1>5. RedRule(u.child, (t.red \cup {x}) \ {s})
    <2>1. t.red \in SUBSET N BY <1>1
    <2>2. \A y \in t.red : \A d \in Dir : t.child[<<y, d>>] \notin t.red BY <1>1 DEF RedRule
    <2>3. \A y \in t.red : \A d \in Dir : t.child[<<y, d>>] \in t.red => y = s /\ d = Other(dir)
      BY <2>2
    <2> HIDE DEF s, N
    <2> QED BY <1>1, <1>2, <1>3, <2>1, <2>3, OuterFix
  <1>6. Even(N, u.child, u.red, b, h)
    <2>1. u.red = IF x \in t.red THEN t.red ELSE (t.red \cup {x}) \ {s} BY <1>3
    <2> HIDE DEF s, N
    <2> QED BY <1>1, <1>2, <1>3, <2>1, TurnEven
  <1>7. s # x /\ u.child[<<s, dir>>] = x BY <1>3 DEF IsTurn
  <1>8. J[x] \cap Beside(x, dir) = I[x] \cap Beside(x, dir)
    <2>1. I \in [N -> SUBSET Point] /\ s \in Beside(x, Other(dir)) /\ x \in Point /\ s \in Point
      <3>1. x \in Point /\ s \in Point
        <4> HIDE DEF s
        <4> QED BY <1>1, <1>2 DEF Shape
      <3>2. I \in [N -> SUBSET Point] BY <1>1 DEF Spans
      <3>3. s \in I[x] \cap Beside(x, Other(dir)) BY <1>1, <1>2 DEF Spans
      <3> QED BY <3>1, <3>2, <3>3
    <2>2. J[x] = I[x] \cap Beside(s, dir) BY <1>2, <1>7, <2>1 DEF TurnSpans
    <2>3. Other(Other(dir)) = dir BY Dirs
    <2>4. x \in Beside(s, dir)
      <3>1. s \in Beside(x, Other(dir)) <=> x \in Beside(s, Other(Other(dir)))
        BY <1>2, <2>1, Sides
      <3> QED BY <2>1, <2>3, <3>1
    <2>5. \A k \in Beside(x, dir) : k \in Point BY BesideType
    <2>6. \A k \in Beside(x, dir) : k \in Beside(s, dir) BY <2>1, <2>4, <2>5, Sides
    <2> HIDE DEF J
    <2> QED BY <2>2, <2>6
  <1> HIDE DEF J
  <1>9. Certified(u, J, b, h) BY <1>3, <1>4, <1>5, <1>6 DEF Certified
  <1>10. x \in u.red BY <1>3, <1>7
  <1>11. Reddened(t, I, u, s, x, dir)
    <2> HIDE DEF s
    <2> QED BY <1>2, <1>3, <1>7, <1>8, <1>9, <1>10 DEF Reddened
  <1> QED BY <1>3, <1>11 DEF u

(* The node x below p is red, or its child on the way is, or it is the     *)
(* root, and has no red child.                                             *)
Loaded(t, p, x, dir) ==
  x \in t.red \/ t.child[<<x, dir>>] \in t.red \/ (p = Fake /\ Calm(t, x))
(* What pushing the red leaves: node or the child it goes to is red. *)
Pushed(t, I, r, x, dir) ==
  /\ r.tree.nodes = t.nodes /\ r.parent \in t.nodes
  /\ \E d \in Dir : r.tree.child[<<r.parent, d>>] = x
  /\ \E J, f, g : Certified(r.tree, J, f, g) /\ J[x] \cap Beside(x, dir) = I[x] \cap Beside(x, dir)
  /\ Loaded(r.tree, r.parent, x, dir)

(* Every case of the push (184-216) does so. *)
LEMMA PushedAt ==
  ASSUME NEW t, NEW I, NEW b, NEW h, Certified(t, I, b, h), NEW gp, NEW p \in t.nodes,
         NEW last \in Dir, NEW x, x = t.child[<<p, last>>], x # Nil, NEW dir \in Dir,
         \/ p = Fake /\ last = "right"
         \/ /\ p # Fake /\ gp \in t.nodes /\ Loaded(t, gp, p, last)
            /\ \E d \in Dir : t.child[<<gp, d>>] = p
  PROVE  Pushed(t, I, PushRed(t, gp, p, x, dir, last), x, dir)
  <1> DEFINE r == PushRed(t, gp, p, x, dir, last)
             y == t.child[<<p, Other(last)>>]
             rot == Rotate(t, x, dir)
             plain == [tree |-> t, parent |-> p]
  <1>1. /\ IsTree(t) /\ Spans(t.nodes, t.child, I) /\ Even(t.nodes, t.child, t.red, b, h)
        /\ RedRule(t.child, t.red) /\ Shape(t.nodes, t.child) /\ t.red \subseteq t.nodes \ {Fake}
        /\ Nil \notin t.nodes
    BY RBTreeAssumption DEF Certified, IsTree, Shape
  <1>2. x \in t.nodes \ {Fake} BY <1>1 DEF Shape
  <1>3. \A d \in Dir : d = dir \/ d = Other(dir) BY Dirs
  <1>4. ASSUME r = plain, Loaded(t, p, x, dir) PROVE Pushed(t, I, r, x, dir)
    <2>1. r.tree = t /\ r.parent = p BY <1>4
    <2> HIDE DEF r
    <2> QED BY <1>4, <2>1 DEF Pushed
  <1>5. CASE x \in t.red \/ t.child[<<x, dir>>] \in t.red
    <2>1. r = plain BY <1>5 DEF PushRed
    <2> QED BY <1>4, <1>5, <2>1 DEF Loaded
  <1>6. CASE /\ x \notin t.red /\ t.child[<<x, dir>>] \notin t.red
             /\ t.child[<<x, Other(dir)>>] \in t.red
    <2>1. r = [tree |-> Hang(rot, p, last), parent |-> rot.top] BY <1>6 DEF PushRed
    <2>2. r.tree = Hang(rot, p, last) /\ r.parent = rot.top BY <2>1
    <2> DEFINE u == Hang(rot, p, last)
               s == rot.top
    <2>3. Reddened(t, I, u, s, x, dir) BY <1>2, <1>6, NodePush
    <2> HIDE DEF r, u, s, rot
    <2>4. r.tree = u /\ r.parent = s BY <2>2 DEF u, s
    <2>5. Pushed(t, I, r, x, dir) BY <2>3, <2>4 DEF Pushed, Loaded, Reddened
    <2> QED BY <2>5 DEF r
  <1>7. CASE x \notin t.red /\ Calm(t, x)
    <2>1. /\ x \notin t.red /\ t.child[<<x, dir>>] \notin t.red
          /\ t.child[<<x, Other(dir)>>] \notin t.red
      BY <1>7, Dirs DEF Calm
    <2>2. CASE p = Fake /\ last = "right"
      <3>1. y = Nil BY <1>1, <2>2 DEF Shape, Other
      <3>2. r = plain BY <2>1, <3>1 DEF PushRed
      <3> QED BY <1>4, <1>7, <2>2, <3>2 DEF Loaded
    <2>3. CASE p # Fake /\ gp \in t.nodes /\ Loaded(t, gp, p, last)
               /\ \E d \in Dir : t.child[<<gp, d>>] = p
      <3>1. p \in t.red \/ (gp = Fake /\ Calm(t, p)) BY <2>1, <2>3 DEF Loaded
      <3>2. Other(last) \in Dir BY Dirs
      <3>3. y \notin t.red BY <1>1, <3>1, <3>2 DEF RedRule, Calm
      <3>4. y # Nil
        <4> SUFFICES ASSUME y = Nil PROVE FALSE
          OBVIOUS
        <4>1. b \in [t.nodes -> Int] /\ h \in Int BY <1>1 DEF Even
        <4>2. b[p] = h BY <1>1, <2>3, <3>2 DEF Even
        <4>3. b[x] = b[p] + 1 BY <1>1, <2>1, <2>3 DEF Even
        <4>4. b[x] <= h BY <1>1, <1>2, <3>2 DEF Even
        <4> QED BY <4>1, <4>2, <4>3, <4>4
      <3>5. PICK pd \in Dir : t.child[<<gp, pd>>] = p BY <2>3
      <3>6. Poor(t, I, b, h, gp, pd, p, last, y, x)
        BY <1>7, <2>3, <3>1, <3>3, <3>4, <3>5 DEF Poor
      <3>7. CASE Calm(t, y)
        <4> DEFINE u == Paint(t, {y, x}, {p})
        <4>1. r = [tree |-> u, parent |-> p] BY <2>1, <3>4, <3>7 DEF PushRed, Calm
        <4>2. r.tree = u /\ r.parent = p BY <4>1
        <4>3. Reddened(t, I, u, p, x, dir) BY <3>6, <3>7, FlipPush
        <4> HIDE DEF r, u
        <4>4. Pushed(t, I, r, x, dir) BY <4>2, <4>3 DEF Pushed, Loaded, Reddened
        <4> QED BY <4>4 DEF r
      <3>8. CASE ~Calm(t, y)
        <4> DEFINE u == Lent(t, gp, p, x, last)
        <4>1. r = [tree |-> u, parent |-> p] BY <2>1, <3>4, <3>8 DEF PushRed, Calm
        <4>2. r.tree = u /\ r.parent = p BY <4>1
        <4>3. Reddened(t, I, u, p, x, dir) BY <3>6, <3>8, LentAt
        <4> HIDE DEF r, u
        <4>4. Pushed(t, I, r, x, dir) BY <4>2, <4>3 DEF Pushed, Loaded, Reddened
        <4> QED BY <4>4 DEF r
      <3> QED BY <3>7, <3>8
    <2> QED BY <2>2, <2>3
  <1> QED BY <1>3, <1>5, <1>6, <1>7 DEF Calm

(* The keys that may be below a node lie together. *)
LEMMA Convex ==
  ASSUME NEW N, NEW C, Shape(N, C), NEW I, Spans(N, C, I), NEW c \in N, NEW u \in I[c],
         NEW v \in I[c], NEW z \in Beside(u, "right"), z \in Beside(v, "left")
  PROVE  z \in I[c]
  <1> DEFINE S == {y \in N : u \in I[y] /\ v \in I[y] => z \in I[y]}
  <1>1. S \in SUBSET N OBVIOUS
  <1>2. /\ I[Fake] = Point /\ Fake \in N /\ N \subseteq Point \cup {Fake}
        /\ I \in [N -> SUBSET Point] /\ z \in Point
    BY BesideType DEF Shape, Spans, Dir
  <1>3. Fake \in S BY <1>2
  <1>4. ASSUME NEW y \in S, NEW d \in Dir, C[<<y, d>>] # Nil PROVE C[<<y, d>>] \in S
    <2> DEFINE e == C[<<y, d>>]
    <2>1. e \in N /\ I[e] = I[y] \cap Beside(y, d) BY <1>4 DEF Shape, Spans
    <2> HIDE DEF e
    <2>2. ASSUME u \in I[e], v \in I[e] PROVE z \in I[e]
      <3>1. z \in I[y] BY <2>1, <2>2
      <3>2. z \in Beside(y, d)
        <4>1. CASE y = Fake BY <1>2, <4>1 DEF Beside
        <4>2. CASE y # Fake
          <5>1. y \in Point /\ u \in Point /\ v \in Point /\ u \in Beside(y, d) /\ v \in Beside(y, d)
            BY <1>2, <2>1, <2>2, <4>2
          <5>2. d = "left" \/ d = "right" BY DEF Dir
          <5>3. CASE d = "left" BY <1>2, <5>1, <5>3, Sides DEF Dir
          <5>4. CASE d = "right" BY <1>2, <5>1, <5>4, Sides DEF Dir
          <5> QED BY <5>2, <5>3, <5>4
        <4> QED BY <4>1, <4>2
      <3> QED BY <2>1, <3>1, <3>2
    <2>3. e \in S BY <2>1, <2>2
    <2> QED BY <2>3 DEF e
  <1> HIDE DEF S
  <1>5. S = N BY <1>1, <1>3, <1>4 DEF Shape
  <1> QED BY <1>5 DEF S

(* Where the walk to take key out is: on the side dir of node is key, or   *)
(* are the keys just below it.                                             *)
Slot(I, node, dir) == I[node] \cap Beside(node, dir)
(* The key sought is in the interval the walk is at, or it has been found   *)
(* above.                                                                   *)
Sought(t, I, node, dir, key, hit) ==
  \/ hit = Nil /\ key \in Slot(I, node, dir)
  \/ /\ hit = key /\ key \in t.nodes
     /\ \/ node = key /\ dir = "left"
        \/ /\ node # Fake /\ dir = "right" /\ node \in Beside(key, "left")
           /\ Slot(I, node, dir) = Beside(node, "right") \cap Beside(key, "left")

(* A step down stays on the way to the key. *)
LEMMA SoughtNext ==
  ASSUME NEW t, NEW I, IsTree(t), Spans(t.nodes, t.child, I), NEW node \in t.nodes,
         NEW dir \in Dir, NEW key \in Point, NEW hit, Sought(t, I, node, dir, key, hit),
         NEW x, x = t.child[<<node, dir>>], x # Nil, NEW J,
         Slot(J, x, Toward(x, key)) = Slot(I, x, Toward(x, key)),
         NEW u, u.nodes = t.nodes
  PROVE  Sought(u, J, x, Toward(x, key), key, IF x = key THEN key ELSE hit)
  <1>1. /\ Shape(t.nodes, t.child) /\ x \in t.nodes \ {Fake} /\ x \in Point
        /\ I[x] = Slot(I, node, dir) /\ x \in Slot(I, node, dir)
    <2>1. Shape(t.nodes, t.child) /\ <<node, dir>> \in t.nodes \X Dir BY DEF IsTree
    <2>2. x \in t.nodes \ {Fake} BY <2>1 DEF Shape
    <2>3. x \in Point BY <2>1, <2>2 DEF Shape
    <2>4. I[x] = I[node] \cap Beside(node, dir) /\ x \in I[node] \cap Beside(node, dir)
      BY DEF Spans
    <2> QED BY <2>1, <2>2, <2>3, <2>4 DEF Slot
  <1>2. CASE x = key
    <2>1. Toward(x, key) = "left"
      <3>1. ~Less(key, key) BY DEF Less, Point
      <3> QED BY <1>2, <3>1 DEF Toward
    <2> QED BY <1>1, <1>2, <2>1 DEF Sought
  <1>3. CASE x # key /\ hit = Nil
    <2>1. key # Nil BY RBTreeAssumption
    <2>2. key \in Slot(I, node, dir) BY <1>3, <2>1 DEF Sought
    <2>3. key \in Beside(x, Toward(x, key))
      <3>1. Toward(x, key) \in Dir BY DEF Toward, Dir
      <3> QED BY <1>1, <1>3, <3>1, Sides
    <2>4. key \in Slot(J, x, Toward(x, key)) BY <1>1, <2>2, <2>3 DEF Slot
    <2> QED BY <1>3, <2>4 DEF Sought
  <1>4. CASE x # key /\ hit = key
    <2>1. key # Nil BY RBTreeAssumption
    <2>2. /\ key \in t.nodes
          /\ \/ node = key /\ dir = "left"
             \/ /\ node # Fake /\ dir = "right" /\ node \in Beside(key, "left")
                /\ Slot(I, node, dir) = Beside(node, "right") \cap Beside(key, "left")
      BY <1>4, <2>1 DEF Sought
    <2>3. x \in Beside(key, "left") BY <1>1, <2>2 DEF Slot
    <2>4. "left" \in Dir /\ "right" \in Dir /\ Other("left") = "right" BY DEF Dir, Other
    <2>5. key \in Beside(x, "right")
      <3>1. x \in Beside(key, "left") <=> key \in Beside(x, Other("left")) BY <1>1, <2>4, Sides
      <3> QED BY <2>3, <2>4, <3>1
    <2>6. Toward(x, key) = "right" BY <1>1, <1>4, <2>4, <2>5, Sides
    <2>7. Slot(I, x, "right") = Beside(x, "right") \cap Beside(key, "left")
      <3>1. CASE node = key /\ dir = "left"
        <4>1. I[x] = I[key] \cap Beside(key, "left") BY <1>1, <3>1 DEF Slot
        <4>2. key \in I[key]
          <5>1. key # Fake BY RBTreeAssumption
          <5> QED BY <1>1, <2>2, <5>1, SpanOwn
        <4>3. x \in I[key] BY <1>1, <3>1 DEF Slot
        <4>4. \A z \in Beside(x, "right") : z \in Beside(key, "left") => z \in I[key]
          BY <1>1, <2>2, <4>2, <4>3, Convex
        <4> QED BY <4>1, <4>4 DEF Slot
      <3>2. CASE /\ node # Fake
                 /\ Slot(I, node, dir) = Beside(node, "right") \cap Beside(key, "left")
        <4>1. node \in Point BY <1>1, <3>2 DEF Shape
        <4>2. x \in Beside(node, "right") BY <1>1, <3>2
        <4>3. \A z \in Beside(x, "right") : z \in Point BY <2>4, BesideType
        <4>4. \A z \in Beside(x, "right") : z \in Beside(node, "right")
          BY <1>1, <2>4, <4>1, <4>2, <4>3, Sides
        <4> QED BY <1>1, <3>2, <4>4 DEF Slot
      <3> QED BY <2>2, <3>1, <3>2
    <2> QED BY <1>1, <1>4, <2>2, <2>3, <2>6, <2>7 DEF Sought
  <1> QED BY <1>2, <1>3, <1>4 DEF Sought

(* Where the loop of remove is after n of its K passes: below node, which  *)
(* its parent and the fake root aside is red or leads to a red node.       *)
Hangs(t, p, node, dir) ==
  \/ node = Fake /\ dir = "right"
  \/ /\ node # Fake /\ p \in t.nodes /\ Loaded(t, p, node, dir)
     /\ \E d \in Dir : t.child[<<p, d>>] = node
(* Where the loop of remove is: node, the red it pushed down, and the       *)
(* passes left for the keys below.                                          *)
Sinking(s, key, I, n, K) ==
  /\ s.node \in s.tree.nodes /\ s.dir \in Dir /\ Hangs(s.tree, s.p, s.node, s.dir)
  /\ Sought(s.tree, I, s.node, s.dir, key, s.found)
  /\ s.tree.child[<<s.node, s.dir>>] # Nil =>
       n + Cardinality(Room(s.tree, I, s.node, s.dir)) <= K
(* The invariant of remove's loop (167-217): the tree keeps its keys and    *)
(* stays certified.                                                         *)
RemoveInv(s, key, N0, n, K) ==
  /\ s.tree.nodes = N0
  /\ \E I, b, h : Certified(s.tree, I, b, h) /\ Sinking(s, key, I, n, K)

(* A pass of the loop goes one node down.                                  *)
LEMMA StepRemove ==
  ASSUME NEW s, NEW key \in Point, NEW N0, NEW n \in Nat, NEW K \in Nat,
         RemoveInv(s, key, N0, n, K)
  PROVE  RemoveInv(RemoveStep(s, key), key, N0, n + 1, K)
  <1> DEFINE t == s.tree
             x == t.child[<<s.node, s.dir>>]
             dir == Toward(x, key)
             push == PushRed(t, s.p, s.node, x, dir, s.dir)
             r == RemoveStep(s, key)
  <1>1. PICK I, b, h : Certified(t, I, b, h) /\ Sinking(s, key, I, n, K) BY DEF RemoveInv
  <1>2. t.nodes = N0 BY DEF RemoveInv
  <1>3. /\ s.node \in t.nodes /\ s.dir \in Dir /\ Hangs(t, s.p, s.node, s.dir)
        /\ Sought(t, I, s.node, s.dir, key, s.found)
        /\ x # Nil => n + Cardinality(Room(t, I, s.node, s.dir)) <= K
    BY <1>1 DEF Sinking
  <1>4. CASE x = Nil
    <2>1. r = s BY <1>4 DEF RemoveStep
    <2>2. Sinking(s, key, I, n + 1, K) BY <1>3, <1>4 DEF Sinking
    <2> HIDE DEF r
    <2>3. RemoveInv(r, key, N0, n + 1, K) BY <1>1, <1>2, <2>1, <2>2 DEF RemoveInv
    <2> QED BY <2>3 DEF r
  <1>5. CASE x # Nil
    <2>1. dir \in Dir BY DEF Toward, Dir
    <2>2. r = [tree |-> push.tree, p |-> push.parent, node |-> x, dir |-> dir,
               found |-> IF x = key THEN key ELSE s.found]
      BY <1>5 DEF RemoveStep
    <2>3. /\ r.tree = push.tree /\ r.p = push.parent /\ r.node = x /\ r.dir = dir
          /\ r.found = IF x = key THEN key ELSE s.found
      BY <2>2
    <2>4. Pushed(t, I, push, x, dir)
      <3>1. x = t.child[<<s.node, s.dir>>] OBVIOUS
      <3>2. \/ s.node = Fake /\ s.dir = "right"
            \/ /\ s.node # Fake /\ s.p \in t.nodes /\ Loaded(t, s.p, s.node, s.dir)
               /\ \E d \in Dir : t.child[<<s.p, d>>] = s.node
        BY <1>3 DEF Hangs
      <3> HIDE DEF t, x, dir
      <3> QED BY <1>1, <1>3, <1>5, <2>1, <3>1, <3>2, PushedAt
    <2> HIDE DEF r, push
    <2>5. /\ r.tree.nodes = t.nodes /\ r.p \in t.nodes
          /\ \E d \in Dir : r.tree.child[<<r.p, d>>] = x
          /\ Loaded(r.tree, r.p, x, dir)
      BY <2>3, <2>4 DEF Pushed
    <2>6. PICK J, f, g : /\ Certified(r.tree, J, f, g)
                         /\ J[x] \cap Beside(x, dir) = I[x] \cap Beside(x, dir)
      BY <2>3, <2>4 DEF Pushed
    <2>7. /\ IsTree(t) /\ Spans(t.nodes, t.child, I) /\ Shape(t.nodes, t.child)
      BY <1>1 DEF Certified, IsTree
    <2>8. x = t.child[<<s.node, s.dir>>] OBVIOUS
    <2>9. Slot(J, x, Toward(x, key)) = Slot(I, x, Toward(x, key)) BY <2>6 DEF Slot
    <2>10. Sought(r.tree, J, x, Toward(x, key), key, IF x = key THEN key ELSE s.found)
      <3> HIDE DEF t, x, dir
      <3> QED BY ZenonT(60), <1>3, <1>5, <2>5, <2>7, <2>8, <2>9, SoughtNext
    <2>11. x \in t.nodes \ {Fake} /\ x \in Point /\ I[x] = I[s.node] \cap Beside(s.node, s.dir)
           /\ x \in I[s.node] \cap Beside(s.node, s.dir)
      <3>1. <<s.node, s.dir>> \in t.nodes \X Dir BY <1>3
      <3>2. x \in t.nodes \ {Fake} BY <1>5, <2>7, <3>1 DEF Shape
      <3>3. x \in Point BY <2>7, <3>2 DEF Shape
      <3> HIDE DEF t
      <3>4. I[x] = I[s.node] \cap Beside(s.node, s.dir) /\ x \in I[s.node] \cap Beside(s.node, s.dir)
        BY <1>3, <1>5, <2>7, <3>1 DEF Spans
      <3> QED BY <3>2, <3>3, <3>4
    <2>12. n + 1 + Cardinality(Room(r.tree, J, x, dir)) <= K
      <3> DEFINE V == Room(r.tree, J, x, dir)
                 W == Room(t, I, s.node, s.dir)
      <3>1. V = t.nodes \cap I[x] \cap Beside(x, dir) BY <2>5, <2>6 DEF Room
      <3>2. V \in SUBSET W /\ x \in W BY <2>11, <3>1 DEF Room
      <3>3. x \notin V BY <2>1, <2>11, <3>1, Sides
      <3>4. IsFiniteSet(W)
        <4>1. IsFiniteSet(t.nodes) BY <2>7 DEF Shape
        <4> QED BY <4>1, FS_Subset DEF Room
      <3> HIDE DEF V, W, x, dir, t
      <3>5. /\ Cardinality(V) \in Nat /\ Cardinality(W) \in Nat
            /\ Cardinality(V) + 1 <= Cardinality(W)
        BY <3>2, <3>3, <3>4, Shrinks
      <3>6. n + Cardinality(W) <= K BY <1>3, <1>5 DEF W, x, t
      <3>7. n + 1 + Cardinality(V) <= K BY <3>5, <3>6
      <3> QED BY <3>7 DEF V
    <2>13. Sinking(r, key, J, n + 1, K)
      <3>1. x # Fake /\ x \in r.tree.nodes BY <2>5, <2>11
      <3>2. Hangs(r.tree, r.p, x, dir) BY <2>5, <3>1 DEF Hangs
      <3> HIDE DEF x
      <3> QED BY <2>1, <2>3, <2>10, <2>12, <3>1, <3>2 DEF Sinking
    <2>14. RemoveInv(r, key, N0, n + 1, K) BY <1>2, <2>5, <2>6, <2>13 DEF RemoveInv
    <2> QED BY <2>14 DEF r
  <1> QED BY <1>4, <1>5

(* Where the loop starts. *)
RemoveFrom(t) == [tree |-> t, p |-> Nil, node |-> Fake, dir |-> "right", found |-> Nil]

(* The loop runs: its passes one after the other. *)
LEMMA RemoveRuns ==
  ASSUME NEW t, NEW key, Cardinality(KeysOf(t)) \in Nat
  PROVE  \E f : /\ f[0] = RemoveFrom(t) /\ RemoveWalk(t, key) = f[Cardinality(KeysOf(t))]
                /\ \A n \in 1..Cardinality(KeysOf(t)) : f[n] = RemoveStep(f[n - 1], key)
  <1> DEFINE m == Cardinality(KeysOf(t))
             Runs(f, k) == f = [n \in 0..k |-> IF n = 0 THEN RemoveFrom(t) ELSE RemoveStep(f[n - 1], key)]
             S == {k \in Nat : \E f : Runs(f, k)}
  <1>1. Runs([n \in 0..0 |-> RemoveFrom(t)], 0) OBVIOUS
  <1>2. ASSUME NEW k \in Nat, k \in S PROVE k + 1 \in S
    <2>1. PICK f : Runs(f, k) BY <1>2
    <2> DEFINE g == [n \in 0..k + 1 |-> IF n = 0 THEN RemoveFrom(t) ELSE RemoveStep(f[n - 1], key)]
    <2>2. \A n \in 0..k : g[n] = f[n]
      <3>1. \A n \in 0..k : f[n] = IF n = 0 THEN RemoveFrom(t) ELSE RemoveStep(f[n - 1], key) BY <2>1
      <3>2. \A n \in 0..k : n \in 0..k + 1 OBVIOUS
      <3> HIDE <2>1
      <3> QED BY <3>1, <3>2
    <2>3. \A n \in 0..k + 1 : n # 0 => n - 1 \in 0..k OBVIOUS
    <2>4. \A n \in 0..k + 1 : n # 0 => g[n - 1] = f[n - 1] BY <2>2, <2>3
    <2>5. g = [n \in 0..k + 1 |-> IF n = 0 THEN RemoveFrom(t) ELSE RemoveStep(g[n - 1], key)]
      BY <2>4
    <2> HIDE DEF g
    <2>6. Runs(g, k + 1) BY <2>5
    <2> HIDE DEF Runs
    <2>7. \E e : Runs(e, k + 1) BY <2>6
    <2> QED BY <2>7
  <1> HIDE DEF Runs
  <1>3. Nat \subseteq S BY <1>1, <1>2, Inductive
  <1>4. \E f : Runs(f, m) BY <1>3
  <1> DEFINE f == CHOOSE f : Runs(f, m)
  <1>5. Runs(f, m) BY <1>4
  <1>6. RemoveWalk(t, key) = f[m] BY DEF RemoveWalk, Runs, RemoveFrom
  <1> HIDE DEF f
  <1>7. f = [n \in 0..m |-> IF n = 0 THEN RemoveFrom(t) ELSE RemoveStep(f[n - 1], key)]
    BY <1>5 DEF Runs
  <1>8. f[0] = RemoveFrom(t) BY <1>7
  <1>9. \A n \in 1..m : n \in 0..m /\ n # 0 OBVIOUS
  <1>10. \A n \in 1..m : f[n] = RemoveStep(f[n - 1], key) BY <1>7, <1>9
  <1> QED BY <1>6, <1>8, <1>10

(* The loop ends at the bottom of the tree.                                *)
Sunk(s, key, N0) ==
  /\ s.tree.nodes = N0 /\ s.node \in N0 /\ s.dir \in Dir
  /\ s.tree.child[<<s.node, s.dir>>] = Nil /\ Hangs(s.tree, s.p, s.node, s.dir)
  /\ \E I, b, h : /\ Certified(s.tree, I, b, h)
                  /\ Sought(s.tree, I, s.node, s.dir, key, s.found)

(* The loop ends at a red leaf or the only node left, next in order to the  *)
(* key if that is in the tree.                                              *)
LEMMA RemoveWalked ==
  ASSUME NEW t, NEW I, NEW b, NEW h, Certified(t, I, b, h), NEW key \in Point
  PROVE  Sunk(RemoveWalk(t, key), key, t.nodes)
  <1> DEFINE K == Cardinality(KeysOf(t))
             N0 == t.nodes
             s == RemoveWalk(t, key)
  <1>1. /\ Shape(t.nodes, t.child) /\ IsFiniteSet(t.nodes) /\ Fake \in t.nodes
        /\ I[Fake] = Point /\ t.nodes \subseteq Point \cup {Fake}
    BY DEF Certified, IsTree, Shape, Spans
  <1>2. K \in Nat BY <1>1, FS_Subset, FS_CardinalityType DEF KeysOf
  <1>3. PICK f : /\ f[0] = RemoveFrom(t) /\ s = f[K]
                 /\ \A n \in 1..K : f[n] = RemoveStep(f[n - 1], key)
    BY <1>2, RemoveRuns
  <1> HIDE DEF s, K
  <1> DEFINE S == {n \in Nat : n <= K => RemoveInv(f[n], key, N0, n, K)}
  <1>4. 0 \in S
    <2> DEFINE e == f[0]
    <2>1. e.tree = t /\ e.node = Fake /\ e.dir = "right" /\ e.found = Nil BY <1>3 DEF RemoveFrom
    <2> HIDE DEF e
    <2>2. Beside(Fake, "right") = Point BY DEF Beside
    <2>3. Sought(t, I, Fake, "right", key, Nil) BY <1>1, <2>2 DEF Sought, Slot
    <2>4. 0 + Cardinality(Room(t, I, Fake, "right")) <= K
      <3>1. Room(t, I, Fake, "right") = KeysOf(t)
        BY <1>1, <2>2, RBTreeAssumption DEF Room, KeysOf
      <3> QED BY <1>2, <3>1 DEF K
    <2>5. Sinking(e, key, I, 0, K) BY <1>1, <2>1, <2>3, <2>4 DEF Sinking, Hangs, Dir
    <2>6. RemoveInv(e, key, N0, 0, K) BY <2>1, <2>5 DEF RemoveInv
    <2> QED BY <2>6 DEF e
  <1>5. ASSUME NEW n \in Nat, n \in S PROVE n + 1 \in S
    <2> SUFFICES ASSUME n + 1 <= K PROVE RemoveInv(f[n + 1], key, N0, n + 1, K)
      OBVIOUS
    <2>1. n <= K /\ n + 1 \in 1..K /\ (n + 1) - 1 = n BY <1>2
    <2>2. RemoveInv(f[n], key, N0, n, K) BY <1>5, <2>1
    <2>3. f[n + 1] = RemoveStep(f[n], key) BY <1>3, <2>1
    <2> QED BY <1>2, <2>2, <2>3, StepRemove
  <1>6. K \in S
    <2> HIDE DEF S
    <2>1. Nat \subseteq S BY <1>4, <1>5, Inductive
    <2> QED BY <1>2, <2>1
  <1>7. RemoveInv(s, key, N0, K, K) BY <1>2, <1>3, <1>6
  <1>8. PICK J, e, g : Certified(s.tree, J, e, g) /\ Sinking(s, key, J, K, K)
    BY <1>7 DEF RemoveInv
  <1>9. /\ s.tree.nodes = N0 /\ s.node \in N0 /\ s.dir \in Dir
        /\ Hangs(s.tree, s.p, s.node, s.dir) /\ Sought(s.tree, J, s.node, s.dir, key, s.found)
        /\ s.tree.child[<<s.node, s.dir>>] # Nil =>
             K + Cardinality(Room(s.tree, J, s.node, s.dir)) <= K
    BY <1>7, <1>8 DEF RemoveInv, Sinking
  <1>10. s.tree.child[<<s.node, s.dir>>] = Nil
    <2> SUFFICES ASSUME s.tree.child[<<s.node, s.dir>>] # Nil PROVE FALSE
      OBVIOUS
    <2> DEFINE x == s.tree.child[<<s.node, s.dir>>]
               W == Room(s.tree, J, s.node, s.dir)
    <2>1. /\ Shape(s.tree.nodes, s.tree.child) /\ Spans(s.tree.nodes, s.tree.child, J)
          /\ IsFiniteSet(s.tree.nodes)
      BY <1>8 DEF Certified, IsTree, Shape
    <2>2. x \in W
      <3>1. x \in N0 BY <1>9, <2>1 DEF Shape
      <3>2. x \in J[s.node] \cap Beside(s.node, s.dir) BY <1>9, <2>1 DEF Spans
      <3> QED BY <1>9, <3>1, <3>2 DEF Room
    <2>3. IsFiniteSet(W) BY <2>1, FS_Subset DEF Room
    <2>4. K + Cardinality(W) <= K BY <1>9
    <2> HIDE DEF x, W
    <2>5. /\ Cardinality({}) \in Nat /\ Cardinality(W) \in Nat
          /\ Cardinality({}) + 1 <= Cardinality(W)
      BY <2>2, <2>3, Shrinks
    <2> QED BY <1>2, <2>4, <2>5
  <1>11. Sunk(s, key, N0) BY <1>8, <1>9, <1>10 DEF Sunk
  <1> QED BY <1>11 DEF s

(* Below each side of a node are keys of that side only. *)
Ordered(N, C) ==
  \A x \in N \ {Fake} : \A d \in Dir :
    C[<<x, d>>] # Nil => Sub(N, C, C[<<x, d>>]) \subseteq Beside(x, d)

(* The keys that may be below c, as the nodes above c leave them. *)
Left(N, C) ==
  [c \in N |-> {z \in Point : \A a \in N \ {Fake} :
                  c \in Sub(N, C, a) /\ c # a => z \in Beside(a, Toward(a, c))}]

(* A node is below itself, and what is below is closed. *)
LEMMA SubHeld ==
  ASSUME NEW N, NEW C, Shape(N, C), NEW y \in N
  PROVE  /\ y \in Sub(N, C, y) /\ Sub(N, C, y) \subseteq N
         /\ \A v \in Sub(N, C, y) : \A d \in Dir : C[<<v, d>>] # Nil => C[<<v, d>>] \in Sub(N, C, y)
  <1>1. y \in Sub(N, C, y) /\ Sub(N, C, y) \subseteq N BY DEF Sub
  <1>2. ASSUME NEW v \in Sub(N, C, y), NEW d \in Dir, C[<<v, d>>] # Nil
        PROVE  C[<<v, d>>] \in Sub(N, C, y)
    <2>1. C[<<v, d>>] \in N BY <1>2 DEF Shape, Sub
    <2>2. \A T \in SUBSET N : y \in T /\ Held(C, T) => C[<<v, d>>] \in T
      BY <1>2 DEF Sub, Held
    <2> QED BY <2>1, <2>2 DEF Sub
  <1> QED BY <1>1, <1>2

(* From the intervals: all that is below a child is on its side. *)
LEMMA SpansOrdered ==
  ASSUME NEW N, NEW C, Shape(N, C), NEW I, Spans(N, C, I)
  PROVE  Ordered(N, C)
  <1> SUFFICES ASSUME NEW x \in N \ {Fake}, NEW d \in Dir, C[<<x, d>>] # Nil
               PROVE  Sub(N, C, C[<<x, d>>]) \subseteq Beside(x, d)
    BY DEF Ordered
  <1>1. C[<<x, d>>] \in N \ {Fake} BY DEF Shape
  <1>2. Sub(N, C, C[<<x, d>>]) \subseteq I[C[<<x, d>>]] BY <1>1, SubSpan
  <1>3. I[C[<<x, d>>]] \subseteq Beside(x, d) BY DEF Spans
  <1> QED BY <1>2, <1>3

(* Above a child are its parent, and the nodes above that one. *)
LEMMA AboveChild ==
  ASSUME NEW N, NEW C, Shape(N, C), Ordered(N, C), NEW x \in N, NEW d \in Dir, C[<<x, d>>] # Nil,
         NEW a \in N \ {Fake}
  PROVE  /\ C[<<x, d>>] \in Sub(N, C, a) /\ C[<<x, d>>] # a <=> x \in Sub(N, C, a)
         /\ Fake \notin Sub(N, C, a)
         /\ x \in Sub(N, C, a) /\ x # a => Toward(a, C[<<x, d>>]) = Toward(a, x)
         /\ x = a => Toward(a, C[<<x, d>>]) = d
  <1> DEFINE c == C[<<x, d>>]
  <1>1. c \in N \ {Fake} /\ a \in Point /\ N \subseteq Point \cup {Fake} BY DEF Shape
  <1>2. c = C[<<x, d>>] /\ c # Nil OBVIOUS
  <1> HIDE DEF c
  <1>3. Fake \notin Sub(N, C, a)
    <2>1. \A v \in N \ {Fake} : \A e \in Dir : C[<<v, e>>] = Nil \/ C[<<v, e>>] \in N \ {Fake}
      <3>1. C \in [N \X Dir -> (N \ {Fake}) \cup {Nil}] BY DEF Shape
      <3>2. \A v \in N \ {Fake} : \A e \in Dir : <<v, e>> \in N \X Dir OBVIOUS
      <3> QED BY <3>1, <3>2
    <2>2. Held(C, N \ {Fake})
      <3> DEFINE M == N \ {Fake}
      <3>1. \A v \in M : \A e \in Dir : C[<<v, e>>] = Nil \/ C[<<v, e>>] \in M BY <2>1
      <3> HIDE DEF M
      <3>2. Held(C, M) BY <3>1 DEF Held
      <3> QED BY <3>2 DEF M
    <2>3. N \ {Fake} \in SUBSET N /\ a \in N \ {Fake} OBVIOUS
    <2> QED BY <2>2, <2>3 DEF Sub
  <1>4. ASSUME x \in Sub(N, C, a) PROVE c \in Sub(N, C, a)
    BY <1>2, <1>4, SubHeld
  <1>5. ASSUME x \in Sub(N, C, a) PROVE c # a
    <2> SUFFICES ASSUME c = a PROVE FALSE
      OBVIOUS
    <2>1. x # Fake BY <1>3, <1>5
    <2>4. x \in Sub(N, C, C[<<x, d>>]) BY <1>2, <1>5
    <2>5. Sub(N, C, C[<<x, d>>]) \subseteq Beside(x, d) BY <1>2, <2>1 DEF Ordered
    <2>2. x \in Beside(x, d) BY <2>4, <2>5
    <2>3. x \in Point BY <1>1, <2>1
    <2> QED BY <2>2, <2>3, Sides
  <1>6. ASSUME c \in Sub(N, C, a), c # a PROVE x \in Sub(N, C, a)
    <2>1. ASSUME NEW S \in SUBSET N, a \in S, Held(C, S), x \notin S PROVE FALSE
      <3>1. ASSUME NEW v \in S \ {c}, NEW e \in Dir, C[<<v, e>>] # Nil
            PROVE  C[<<v, e>>] \in S \ {c}
        <4>1. C[<<v, e>>] \in S BY <2>1, <3>1 DEF Held
        <4>2. v \in N /\ v # x BY <2>1
        <4>3. C[<<v, e>>] # C[<<x, d>>] BY <1>2, <3>1, <4>2 DEF Shape
        <4> QED BY <1>2, <4>1, <4>3
      <3>2. Held(C, S \ {c}) BY <3>1 DEF Held
      <3>3. S \ {c} \in SUBSET N /\ a \in S \ {c} BY <1>6, <2>1
      <3> QED BY <1>6, <3>2, <3>3 DEF Sub
    <2> QED BY <2>1 DEF Sub
  <1>7. ASSUME x \in Sub(N, C, a), x # a PROVE Toward(a, c) = Toward(a, x)
    <2>1. PICK e \in Dir : C[<<a, e>>] # Nil /\ x \in Sub(N, C, C[<<a, e>>])
      BY <1>7, SubUnfold
    <2>2. C[<<a, e>>] \in N BY <2>1 DEF Shape
    <2>3. c \in Sub(N, C, C[<<a, e>>]) BY <1>2, <2>1, <2>2, SubHeld
    <2>4. x \in Beside(a, e) /\ c \in Beside(a, e) BY <2>1, <2>3 DEF Ordered
    <2> QED BY <2>4 DEF Beside
  <1>8. ASSUME x = a PROVE Toward(a, c) = d
    <2>1. c \in Sub(N, C, c) BY <1>1, SubHeld
    <2>2. c \in Beside(a, d) BY <1>2, <1>8, <2>1 DEF Ordered
    <2> QED BY <2>2 DEF Beside
  <1> QED BY <1>3, <1>4, <1>5, <1>6, <1>7, <1>8 DEF c

(* And back: the intervals can be had from the order. *)
LEMMA OrderedSpans ==
  ASSUME NEW N, NEW C, Shape(N, C), Ordered(N, C)
  PROVE  Spans(N, C, Left(N, C))
  <1> DEFINE J == Left(N, C)
  <1>1. J \in [N -> SUBSET Point] BY DEF Left
  <1>2. Fake \in N /\ N \subseteq Point \cup {Fake} BY DEF Shape
  <1>3. \A c \in N : \A z : z \in J[c] <=>
          /\ z \in Point
          /\ \A a \in N \ {Fake} : c \in Sub(N, C, a) /\ c # a => z \in Beside(a, Toward(a, c))
    BY DEF Left
  <1> HIDE DEF J
  <1>4. J[Fake] = Point
    <2>1. \A a \in N \ {Fake} : Fake \notin Sub(N, C, a)
      <3> SUFFICES ASSUME NEW a \in N \ {Fake} PROVE Fake \notin Sub(N, C, a)
        OBVIOUS
      <3>1. PICK y \in N, e \in Dir : C[<<y, e>>] = a BY HasParent
      <3>2. a # Nil BY RBTreeAssumption DEF Shape
      <3> QED BY <3>1, <3>2, AboveChild
    <2> QED BY <1>2, <1>3, <2>1
  <1>5. ASSUME NEW x \in N, NEW d \in Dir, C[<<x, d>>] # Nil
        PROVE  /\ C[<<x, d>>] \in J[x] \cap Beside(x, d)
               /\ J[C[<<x, d>>]] = J[x] \cap Beside(x, d)
    <2> DEFINE c == C[<<x, d>>]
    <2>1. c \in N \ {Fake} BY <1>5 DEF Shape
    <2>2. \A a \in N \ {Fake} :
            /\ c \in Sub(N, C, a) /\ c # a <=> x \in Sub(N, C, a)
            /\ x \in Sub(N, C, a) /\ x # a => Toward(a, c) = Toward(a, x)
            /\ x = a => Toward(a, c) = d
      BY <1>5, AboveChild
    <2>3. \A e \in Dir : \A y : Beside(y, e) \subseteq Point BY BesideType
    <2>4. x # Fake => x \in Sub(N, C, x) BY SubHeld
    <2> HIDE DEF c
    <2>5. \A z : z \in J[c] <=>
            /\ z \in Point
            /\ \A a \in N \ {Fake} : x \in Sub(N, C, a) => z \in Beside(a, Toward(a, c))
      BY <1>3, <2>1, <2>2
    <2>6. ASSUME NEW z \in J[c] PROVE z \in J[x] /\ z \in Beside(x, d)
      <3>1. z \in J[x] BY <1>3, <2>2, <2>5
      <3>2. z \in Beside(x, d)
        <4>1. CASE x = Fake BY <2>5, <4>1 DEF Beside
        <4>2. CASE x # Fake
          <5>1. z \in Beside(x, Toward(x, c)) BY <2>4, <2>5, <4>2
          <5>2. Toward(x, c) = d BY <2>2, <4>2
          <5> QED BY <5>1, <5>2
        <4> QED BY <4>1, <4>2
      <3> QED BY <3>1, <3>2
    <2>7. ASSUME NEW z \in J[x], z \in Beside(x, d) PROVE z \in J[c]
      <3>1. z \in Point BY <1>3
      <3>2. ASSUME NEW a \in N \ {Fake}, x \in Sub(N, C, a) PROVE z \in Beside(a, Toward(a, c))
        <4>1. CASE x = a BY <2>2, <2>7, <3>2, <4>1
        <4>2. CASE x # a
          <5>1. z \in Beside(a, Toward(a, x)) BY <1>3, <2>7, <3>2, <4>2
          <5>2. Toward(a, c) = Toward(a, x) BY <2>2, <3>2, <4>2
          <5> QED BY <5>1, <5>2
        <4> QED BY <4>1, <4>2
      <3> QED BY <2>5, <3>1, <3>2
    <2>8. c \in J[c]
      <3>1. c \in Point BY <1>2, <2>1
      <3>2. ASSUME NEW a \in N \ {Fake}, c # a PROVE c \in Beside(a, Toward(a, c))
        BY <3>1, <3>2 DEF Beside
      <3> QED BY <1>3, <2>1, <3>1, <3>2
    <2>9. J[c] = J[x] \cap Beside(x, d) BY <2>6, <2>7
    <2>10. c \in J[x] \cap Beside(x, d) BY <2>8, <2>9
    <2> QED BY <2>9, <2>10 DEF c
  <1>6. Spans(N, C, J) BY <1>1, <1>4, <1>5 DEF Spans
  <1> QED BY <1>6 DEF J

(* D is C without a leaf, where the node that was W[x] is now x.           *)
IsCut(N, C, M, D, W, leaf) ==
  /\ leaf \in N \ {Fake} /\ \A d \in Dir : C[<<leaf, d>>] = Nil
  /\ M \subseteq N /\ Fake \in M
  /\ W \in [M -> N \ {leaf}] /\ W[Fake] = Fake
  /\ \A x, y \in M : W[x] = W[y] => x = y
  /\ \A y \in N \ {leaf} : \E x \in M : W[x] = y
  /\ D \in [M \X Dir -> (M \ {Fake}) \cup {Nil}]
  /\ \A x \in M : \A d \in Dir :
       /\ C[<<W[x], d>>] \in {Nil, leaf} => D[<<x, d>>] = Nil
       /\ C[<<W[x], d>>] \notin {Nil, leaf} =>
            D[<<x, d>>] # Nil /\ W[D[<<x, d>>]] = C[<<W[x], d>>]
  /\ \A x, y \in M \ {Fake} : \A d \in Dir : W[y] \in Beside(W[x], d) => y \in Beside(x, d)

(* Cutting a leaf keeps the rest hanging together. *)
LEMMA CutShape ==
  ASSUME NEW N, NEW C, Shape(N, C), NEW M, NEW D, NEW W, NEW leaf, IsCut(N, C, M, D, W, leaf)
  PROVE  Shape(M, D)
  <1>1. /\ leaf \in N \ {Fake} /\ \A d \in Dir : C[<<leaf, d>>] = Nil
        /\ M \subseteq N /\ Fake \in M
        /\ W \in [M -> N \ {leaf}] /\ W[Fake] = Fake
        /\ \A x, y \in M : W[x] = W[y] => x = y
        /\ \A y \in N \ {leaf} : \E x \in M : W[x] = y
        /\ D \in [M \X Dir -> (M \ {Fake}) \cup {Nil}]
    BY DEF IsCut
  <1>2. \A x \in M : \A d \in Dir :
          /\ C[<<W[x], d>>] \in {Nil, leaf} => D[<<x, d>>] = Nil
          /\ C[<<W[x], d>>] \notin {Nil, leaf} =>
               D[<<x, d>>] # Nil /\ W[D[<<x, d>>]] = C[<<W[x], d>>]
    BY DEF IsCut
  <1>3. /\ N \subseteq Point \cup {Fake} /\ IsFiniteSet(N) /\ C[<<Fake, "left">>] = Nil
        /\ C \in [N \X Dir -> (N \ {Fake}) \cup {Nil}]
        /\ \A x, y \in N : \A d, e \in Dir :
             C[<<x, d>>] = C[<<y, e>>] /\ C[<<x, d>>] # Nil => x = y /\ d = e
    BY DEF Shape
  <1>4. \A x \in M : W[x] \in N /\ W[x] # leaf BY <1>1
  <1>5. IsFiniteSet(M) /\ M \subseteq Point \cup {Fake} BY <1>1, <1>3, FS_Subset
  <1>6. D[<<Fake, "left">>] = Nil BY <1>1, <1>2, <1>3 DEF Dir
  <1>7. ASSUME NEW x \in M, NEW y \in M, NEW d \in Dir, NEW e \in Dir,
               D[<<x, d>>] = D[<<y, e>>], D[<<x, d>>] # Nil
        PROVE  x = y /\ d = e
    <2>1. /\ C[<<W[x], d>>] \notin {Nil, leaf} /\ C[<<W[y], e>>] \notin {Nil, leaf}
      BY <1>2, <1>7
    <2>2. C[<<W[x], d>>] = C[<<W[y], e>>] /\ C[<<W[x], d>>] # Nil BY <1>2, <1>7, <2>1
    <2>3. W[x] = W[y] /\ d = e BY <1>3, <1>4, <2>2
    <2> QED BY <1>1, <2>3
  <1>8. ASSUME NEW S \in SUBSET M, Fake \in S,
               \A x \in S : \A d \in Dir : D[<<x, d>>] = Nil \/ D[<<x, d>>] \in S
        PROVE  S = M
    <2> DEFINE T == {leaf} \cup {W[x] : x \in S}
    <2>1. T \in SUBSET N /\ Fake \in T
      <3>1. \A x \in S : W[x] \in N BY <1>4
      <3>2. T \subseteq N BY <1>1, <3>1
      <3>3. Fake \in T BY <1>1, <1>8
      <3> QED BY <3>2, <3>3
    <2>2. ASSUME NEW v \in T, NEW d \in Dir, C[<<v, d>>] # Nil PROVE C[<<v, d>>] \in T
      <3>1. v # leaf BY <1>1, <2>2
      <3>2. PICK x \in S : v = W[x] BY <3>1
      <3>3. CASE C[<<v, d>>] = leaf BY <3>3
      <3>4. CASE C[<<v, d>>] # leaf
        <4>1. C[<<W[x], d>>] \notin {Nil, leaf} BY <2>2, <3>2, <3>4
        <4>2. D[<<x, d>>] # Nil /\ W[D[<<x, d>>]] = C[<<v, d>>] BY <1>2, <3>2, <4>1
        <4>3. D[<<x, d>>] \in S BY <1>8, <4>2
        <4>4. W[D[<<x, d>>]] \in T BY <4>3
        <4> QED BY <4>2, <4>4
      <3> QED BY <3>3, <3>4
    <2>3. T = N
      <3>1. \A x \in T : \A d \in Dir : C[<<x, d>>] = Nil \/ C[<<x, d>>] \in T BY <2>2
      <3> HIDE DEF T
      <3> QED BY <2>1, <3>1 DEF Shape
    <2>4. ASSUME NEW x \in M PROVE x \in S
      <3>1. W[x] \in T /\ W[x] # leaf BY <1>4, <2>3
      <3>2. PICK y \in S : W[x] = W[y] BY <3>1
      <3> QED BY <1>1, <3>2
    <2> QED BY <2>4
  <1> QED BY <1>1, <1>5, <1>6, <1>7, <1>8 DEF Shape

(* And keeps the order. *)
LEMMA CutOrdered ==
  ASSUME NEW N, NEW C, Shape(N, C), Ordered(N, C), NEW M, NEW D, NEW W, NEW leaf,
         IsCut(N, C, M, D, W, leaf)
  PROVE  Ordered(M, D)
  <1>1. /\ M \subseteq N /\ Fake \in M /\ W \in [M -> N \ {leaf}] /\ W[Fake] = Fake
        /\ \A x, y \in M : W[x] = W[y] => x = y
        /\ D \in [M \X Dir -> (M \ {Fake}) \cup {Nil}]
    BY DEF IsCut
  <1>2. \A x \in M : \A d \in Dir :
          /\ C[<<W[x], d>>] \in {Nil, leaf} => D[<<x, d>>] = Nil
          /\ C[<<W[x], d>>] \notin {Nil, leaf} =>
               D[<<x, d>>] # Nil /\ W[D[<<x, d>>]] = C[<<W[x], d>>]
    BY DEF IsCut
  <1>3. \A x, y \in M \ {Fake} : \A d \in Dir : W[y] \in Beside(W[x], d) => y \in Beside(x, d)
    BY DEF IsCut
  <1>4. ASSUME NEW y \in M, NEW z \in Sub(M, D, y) PROVE W[z] \in Sub(N, C, W[y])
    <2>1. z \in M /\ W[z] \in N /\ W[y] \in N BY <1>1, <1>4 DEF Sub
    <2>2. ASSUME NEW S \in SUBSET N, W[y] \in S, Held(C, S) PROVE W[z] \in S
      <3> DEFINE T == {v \in M : W[v] \in S}
      <3>1. ASSUME NEW v \in T, NEW d \in Dir, D[<<v, d>>] # Nil PROVE D[<<v, d>>] \in T
        <4>1. v \in M /\ W[v] \in S OBVIOUS
        <4>2. D[<<v, d>>] \in M
          <5>1. <<v, d>> \in M \X Dir BY <4>1
          <5> QED BY <1>1, <3>1, <5>1
        <4>3. C[<<W[v], d>>] \notin {Nil, leaf} BY <1>2, <3>1, <4>1
        <4>4. W[D[<<v, d>>]] = C[<<W[v], d>>] BY <1>2, <4>1, <4>3
        <4>5. C[<<W[v], d>>] \in S BY <2>2, <4>1, <4>3 DEF Held
        <4> QED BY <4>2, <4>4, <4>5
      <3>2. T \in SUBSET M /\ y \in T BY <2>2
      <3>3. Held(D, T)
        <4> HIDE DEF T
        <4> QED BY <3>1 DEF Held
      <3>4. z \in T
        <4> HIDE DEF T
        <4> QED BY <1>4, <3>2, <3>3 DEF Sub
      <3> QED BY <3>4
    <2> QED BY <2>1, <2>2 DEF Sub
  <1>5. Shape(M, D) BY CutShape
  <1>6. ASSUME NEW x \in M \ {Fake}, NEW d \in Dir, D[<<x, d>>] # Nil, NEW z \in Sub(M, D, D[<<x, d>>])
        PROVE  z \in Beside(x, d)
    <2>1. D[<<x, d>>] \in M \ {Fake} BY <1>1, <1>6
    <2>2. W[x] \in N \ {Fake}
      <3>1. W[x] \in N BY <1>1
      <3>2. W[x] # Fake BY <1>1
      <3> QED BY <3>1, <3>2
    <2>3. C[<<W[x], d>>] \notin {Nil, leaf} BY <1>2, <1>6
    <2>4. W[D[<<x, d>>]] = C[<<W[x], d>>] BY <1>2, <2>3
    <2>5. W[z] \in Sub(N, C, C[<<W[x], d>>]) BY <1>4, <1>6, <2>1, <2>4
    <2>6. W[z] \in Beside(W[x], d) BY <2>2, <2>3, <2>5 DEF Ordered
    <2>7. z \in M \ {Fake}
      <3>1. z \in M BY <1>6 DEF Sub
      <3>2. Fake \notin Beside(W[x], d) BY BesideType, RBTreeAssumption
      <3>3. z # Fake BY <1>1, <2>6, <3>2
      <3> QED BY <3>1, <3>3
    <2> QED BY <1>3, <2>6, <2>7
  <1>7. \A x \in M \ {Fake} : \A d \in Dir :
          D[<<x, d>>] # Nil => Sub(M, D, D[<<x, d>>]) \subseteq Beside(x, d)
    BY <1>6
  <1> QED BY <1>7 DEF Ordered

(* The colours and the black heights of the nodes, by their new names.     *)
KeptRed(M, W, R) == {x \in M : W[x] \in R}
KeptHeight(M, W, b) == [x \in M |-> b[W[x]]]

(* A leaf that is taken out was red, or the root. *)
LEMMA CutColours ==
  ASSUME NEW N, NEW C, Shape(N, C), NEW M, NEW D, NEW W, NEW leaf, IsCut(N, C, M, D, W, leaf),
         NEW R \in SUBSET (N \ {Fake}), NEW b, NEW h, Even(N, C, R, b, h), RedRule(C, R),
         leaf \in R \/ \E d \in Dir : C[<<Fake, d>>] = leaf
  PROVE  /\ Even(M, D, KeptRed(M, W, R), KeptHeight(M, W, b), h)
         /\ RedRule(D, KeptRed(M, W, R))
  <1> DEFINE Q == KeptRed(M, W, R)
             f == KeptHeight(M, W, b)
  <1>1. /\ leaf \in N \ {Fake} /\ \A d \in Dir : C[<<leaf, d>>] = Nil
        /\ M \subseteq N /\ Fake \in M
        /\ W \in [M -> N \ {leaf}] /\ W[Fake] = Fake
        /\ \A x, y \in M : W[x] = W[y] => x = y
        /\ D \in [M \X Dir -> (M \ {Fake}) \cup {Nil}]
    BY DEF IsCut
  <1>2. \A x \in M : \A d \in Dir :
          /\ C[<<W[x], d>>] \in {Nil, leaf} => D[<<x, d>>] = Nil
          /\ C[<<W[x], d>>] \notin {Nil, leaf} =>
               D[<<x, d>>] # Nil /\ W[D[<<x, d>>]] = C[<<W[x], d>>]
    BY DEF IsCut
  <1>3. /\ b \in [N -> Int] /\ h \in Int
        /\ \A z \in N \ {Fake} : \A d \in Dir :
             /\ b[z] <= h
             /\ C[<<z, d>>] = Nil => b[z] = h
             /\ C[<<z, d>>] # Nil /\ C[<<z, d>>] \in R => b[C[<<z, d>>]] = b[z]
             /\ C[<<z, d>>] # Nil /\ C[<<z, d>>] \notin R => b[C[<<z, d>>]] = b[z] + 1
    BY DEF Even
  <1>4. \A x \in M : W[x] \in N /\ W[x] # leaf BY <1>1
  <1>5. \A x \in M \ {Fake} : W[x] \in N \ {Fake} BY <1>1, <1>4
  <1>6. \A x \in M : (x \in Q <=> W[x] \in R) /\ f[x] = b[W[x]] BY DEF KeptRed, KeptHeight
  <1>7. Q \subseteq M /\ f \in [M -> Int]
    <2>1. \A x \in M : b[W[x]] \in Int BY <1>3, <1>4
    <2> QED BY <2>1 DEF KeptRed, KeptHeight
  <1>8. Nil \notin N /\ \A x, y \in N : \A d, e \in Dir :
             C[<<x, d>>] = C[<<y, e>>] /\ C[<<x, d>>] # Nil => x = y /\ d = e
    BY RBTreeAssumption DEF Shape
  <1> HIDE DEF Q, f
  <1>9. ASSUME NEW y \in M \ {Fake}, NEW d \in Dir
        PROVE  /\ f[y] <= h
               /\ D[<<y, d>>] = Nil => f[y] = h
               /\ D[<<y, d>>] # Nil /\ D[<<y, d>>] \in Q => f[D[<<y, d>>]] = f[y]
               /\ D[<<y, d>>] # Nil /\ D[<<y, d>>] \notin Q => f[D[<<y, d>>]] = f[y] + 1
    <2>1. W[y] \in N \ {Fake} /\ f[y] = b[W[y]] BY <1>5, <1>6
    <2>2. f[y] <= h BY <1>3, <2>1
    <2>3. CASE C[<<W[y], d>>] = Nil
      <3>1. D[<<y, d>>] = Nil BY <1>2, <2>3
      <3>2. f[y] = h BY <1>3, <2>1, <2>3
      <3> QED BY <2>2, <3>1, <3>2
    <2>4. CASE C[<<W[y], d>>] = leaf
      <3>1. D[<<y, d>>] = Nil BY <1>2, <2>4
      <3>2. leaf # Nil /\ Fake \in N BY <1>1, <1>8
      <3>3. leaf \in R
        <4> SUFFICES ASSUME NEW e \in Dir, C[<<Fake, e>>] = leaf PROVE FALSE
          OBVIOUS
        <4>1. W[y] = Fake BY <1>8, <2>1, <2>4, <3>2
        <4> QED BY <2>1, <4>1
      <3>4. b[leaf] = b[W[y]] BY <1>3, <2>1, <2>4, <3>2, <3>3
      <3>5. b[leaf] = h BY <1>1, <1>3
      <3> QED BY <2>1, <2>2, <3>1, <3>4, <3>5
    <2>5. CASE C[<<W[y], d>>] \notin {Nil, leaf}
      <3>1. D[<<y, d>>] # Nil /\ W[D[<<y, d>>]] = C[<<W[y], d>>] BY <1>2, <2>5
      <3>2. D[<<y, d>>] \in M BY <1>1, <3>1
      <3>3. /\ f[D[<<y, d>>]] = b[C[<<W[y], d>>]]
            /\ D[<<y, d>>] \in Q <=> C[<<W[y], d>>] \in R
        BY <1>6, <3>1, <3>2
      <3>4. /\ C[<<W[y], d>>] # Nil /\ C[<<W[y], d>>] \in R => b[C[<<W[y], d>>]] = b[W[y]]
            /\ C[<<W[y], d>>] # Nil /\ C[<<W[y], d>>] \notin R => b[C[<<W[y], d>>]] = b[W[y]] + 1
        BY <1>3, <2>1
      <3> QED BY <2>1, <2>2, <2>5, <3>1, <3>3, <3>4
    <2> QED BY <2>3, <2>4, <2>5
  <1>10. Even(M, D, Q, f, h) BY <1>3, <1>7, <1>9 DEF Even
  <1>11. RedRule(D, Q)
    <2> SUFFICES ASSUME NEW y \in Q, NEW d \in Dir, D[<<y, d>>] \in Q PROVE FALSE
      BY DEF RedRule
    <2>1. y \in M /\ D[<<y, d>>] \in M /\ W[y] \in R BY <1>6, <1>7
    <2>2. D[<<y, d>>] # Nil BY <1>1, <1>8, <2>1
    <2>3. C[<<W[y], d>>] \notin {Nil, leaf} BY <1>2, <2>1, <2>2
    <2>4. W[D[<<y, d>>]] = C[<<W[y], d>>] BY <1>2, <2>1, <2>3
    <2>5. C[<<W[y], d>>] \in R BY <1>6, <2>1, <2>4
    <2> QED BY <2>1, <2>5 DEF RedRule
  <1> QED BY <1>10, <1>11 DEF Q, f

(* No other node is between a and c. *)
Near(N, a, c) ==
  \A z \in N \ {Fake, a, c} : \A d \in Dir : z \in Beside(a, d) <=> z \in Beside(c, d)

(* What Splice calls the nodes it keeps. *)
Was(t, hit, node) ==
  [x \in t.nodes \ {hit} |-> IF x = node THEN hit ELSE x]

(* Splicing (219-225) cuts the leaf the walk ended at and writes its key    *)
(* over the one removed: a renaming that keeps the order.                   *)
LEMMA SpliceAt ==
  ASSUME NEW t, IsTree(t), NEW node \in t.nodes \ {Fake}, \A d \in Dir : t.child[<<node, d>>] = Nil,
         NEW p \in t.nodes, \E d \in Dir : t.child[<<p, d>>] = node,
         NEW hit \in t.nodes \ {Fake}, Near(t.nodes, hit, node),
         NEW u, u = Splice(t, hit, p, node), NEW W, W = Was(t, hit, node)
  PROVE  /\ Record(u) /\ u.nodes = t.nodes \ {hit}
         /\ u.red = {x \in u.nodes : W[x] \in t.red}
         /\ IsCut(t.nodes, t.child, u.nodes, u.child, W, node)
  <1> DEFINE N == t.nodes
             C == t.child
             M == N \ {hit}
             pd == IF C[<<p, "right">>] = node THEN "right" ELSE "left"
             t1 == SetChild(t, p, pd, IF C[<<node, "left">>] = Nil THEN C[<<node, "right">>]
                                      ELSE C[<<node, "left">>])
             was(x) == IF x = node THEN hit ELSE x
             is(x) == IF x = hit THEN node ELSE x
             D == [slot \in M \X Dir |-> is(t1.child[<<was(slot[1]), slot[2]>>])]
  <1>1. /\ Record(t) /\ Shape(N, C) /\ Fake \in N /\ N \subseteq Point \cup {Fake} /\ Nil \notin N
        /\ C \in [N \X Dir -> (N \ {Fake}) \cup {Nil}]
        /\ \A x, y \in N : \A d, e \in Dir :
             C[<<x, d>>] = C[<<y, e>>] /\ C[<<x, d>>] # Nil => x = y /\ d = e
    BY RBTreeAssumption DEF IsTree, Shape
  <1>2. /\ C[<<node, "left">>] = Nil /\ C[<<node, "right">>] = Nil /\ pd \in Dir
        /\ C[<<p, pd>>] = node
    BY DEF Dir
  <1>3. u = [nodes |-> M, red |-> {x \in M : was(x) \in t.red}, child |-> D] BY DEF Splice
  <1>4. t1 = SetChild(t, p, pd, Nil) BY <1>2
  <1> HIDE DEF pd
  <1>5. t1.child = [C EXCEPT ![<<p, pd>>] = Nil]
    <2>1. SetChild(t, p, pd, Nil)
            = [nodes |-> t.nodes, red |-> t.red, child |-> [t.child EXCEPT ![<<p, pd>>] = Nil]]
      BY <1>1, SetChildAt
    <2> HIDE DEF t1
    <2> QED BY <1>4, <2>1
  <1>6. ASSUME NEW y \in N, NEW d \in Dir
        PROVE  /\ C[<<y, d>>] \in {Nil, node} => t1.child[<<y, d>>] = Nil
               /\ C[<<y, d>>] \notin {Nil, node} => t1.child[<<y, d>>] = C[<<y, d>>]
    <2>1. C[<<y, d>>] = node <=> y = p /\ d = pd BY <1>1, <1>2
    <2>2. <<y, d>> = <<p, pd>> <=> y = p /\ d = pd OBVIOUS
    <2> HIDE DEF t1, N, C
    <2>3. <<y, d>> \in N \X Dir OBVIOUS
    <2>4. t1.child[<<y, d>>] = IF <<y, d>> = <<p, pd>> THEN Nil ELSE C[<<y, d>>]
      BY <1>1, <1>5, <2>3
    <2> QED BY <1>2, <2>1, <2>2, <2>4
  <1> HIDE DEF t1
  <1>7. /\ u.nodes = M /\ u.child = D /\ u.red = {x \in M : was(x) \in t.red}
        /\ Record(u)
    <2> HIDE DEF D, M
    <2> QED BY <1>3 DEF Record
  <1>8. /\ W = [x \in M |-> was(x)] /\ hit # Nil /\ hit # Fake /\ node # Nil /\ node # Fake
        /\ hit \in N /\ node \in N /\ M \subseteq N /\ Fake \in M
    BY <1>1 DEF Was
  <1>9. \A x \in M : /\ W[x] = was(x) /\ W[x] \in N \ {node}
                     /\ x = node => W[x] = hit
                     /\ x # node => W[x] = x
    BY <1>8
  <1>10. W \in [M -> N \ {node}] /\ W[Fake] = Fake BY <1>8, <1>9
  <1>11. \A x, y \in M : W[x] = W[y] => x = y BY <1>9
  <1>12. ASSUME NEW y \in N \ {node} PROVE \E x \in M : W[x] = y
    <2>1. CASE y = hit
      <3>1. node \in M BY <1>8, <2>1
      <3> QED BY <1>9, <2>1, <3>1
    <2>2. CASE y # hit
      <3>1. y \in M BY <2>2
      <3> QED BY <1>9, <3>1
    <2> QED BY <2>1, <2>2
  <1>13. ASSUME NEW x \in M, NEW d \in Dir
         PROVE  /\ D[<<x, d>>] \in (M \ {Fake}) \cup {Nil}
                /\ C[<<W[x], d>>] \in {Nil, node} => D[<<x, d>>] = Nil
                /\ C[<<W[x], d>>] \notin {Nil, node} =>
                     D[<<x, d>>] # Nil /\ W[D[<<x, d>>]] = C[<<W[x], d>>]
    <2> DEFINE z == C[<<W[x], d>>]
    <2>1. W[x] \in N /\ W[x] = was(x) BY <1>9
    <2>2. D[<<x, d>>] = is(t1.child[<<W[x], d>>]) BY <2>1
    <2>3. z \in (N \ {Fake}) \cup {Nil}
      <3>1. <<W[x], d>> \in N \X Dir BY <2>1
      <3> QED BY <1>1, <3>1
    <2>4. /\ z \in {Nil, node} => t1.child[<<W[x], d>>] = Nil
          /\ z \notin {Nil, node} => t1.child[<<W[x], d>>] = z
      BY <1>6, <2>1
    <2> HIDE DEF z, D
    <2>5. CASE z \in {Nil, node}
      <3>1. D[<<x, d>>] = Nil BY <1>8, <2>2, <2>4, <2>5
      <3> QED BY <2>5, <3>1 DEF z
    <2>6. CASE z \notin {Nil, node} /\ z = hit
      <3>1. D[<<x, d>>] = node BY <2>2, <2>4, <2>6
      <3>2. node \in M BY <1>8, <2>6
      <3>3. W[node] = hit BY <1>9, <3>2
      <3>4. /\ D[<<x, d>>] \in (M \ {Fake}) \cup {Nil} /\ D[<<x, d>>] # Nil
            /\ W[D[<<x, d>>]] = z
        BY <1>8, <2>6, <3>1, <3>2, <3>3
      <3> QED BY <2>6, <3>4 DEF z
    <2>7. CASE z \notin {Nil, node} /\ z # hit
      <3>1. D[<<x, d>>] = z BY <2>2, <2>4, <2>7
      <3>2. z \in M \ {Fake} BY <2>3, <2>7
      <3>3. W[z] = z BY <1>9, <2>7, <3>2
      <3> QED BY <2>7, <3>1, <3>2, <3>3 DEF z
    <2> QED BY <2>5, <2>6, <2>7
  <1>14. D \in [M \X Dir -> (M \ {Fake}) \cup {Nil}]
    <2> DEFINE E(slot) == is(t1.child[<<was(slot[1]), slot[2]>>])
    <2>1. D = [slot \in M \X Dir |-> E(slot)] OBVIOUS
    <2>2. \A slot \in M \X Dir : E(slot) = D[<<slot[1], slot[2]>>] /\ slot[1] \in M /\ slot[2] \in Dir
      OBVIOUS
    <2> HIDE DEF D, E
    <2>4. \A x \in M : \A d \in Dir : D[<<x, d>>] \in (M \ {Fake}) \cup {Nil} BY <1>13
    <2> HIDE DEF M
    <2>3. \A slot \in M \X Dir : E(slot) \in (M \ {Fake}) \cup {Nil}
      <3> SUFFICES ASSUME NEW slot \in M \X Dir PROVE E(slot) \in (M \ {Fake}) \cup {Nil}
        OBVIOUS
      <3>1. E(slot) = D[<<slot[1], slot[2]>>] /\ slot[1] \in M /\ slot[2] \in Dir BY <2>2
      <3> QED BY <2>4, <3>1
    <2> QED BY <2>1, <2>3
  <1>15. ASSUME NEW x \in M \ {Fake}, NEW y \in M \ {Fake}, NEW d \in Dir, W[y] \in Beside(W[x], d)
         PROVE  y \in Beside(x, d)
    <2>1. /\ x \in Point /\ y \in Point /\ node \in Point /\ hit \in Point
          /\ x # hit /\ y # hit
      BY <1>1, <1>8
    <2>2. \A z \in N \ {Fake, hit, node} : \A e \in Dir : z \in Beside(hit, e) <=> z \in Beside(node, e)
      BY DEF Near
    <2>3. CASE x # node /\ y # node BY <1>9, <1>15, <2>3
    <2>4. CASE x = node /\ y = node
      <3>1. W[x] = hit /\ W[y] = hit BY <1>9, <2>4
      <3> QED BY <1>15, <2>1, <3>1, Sides
    <2>5. CASE x = node /\ y # node
      <3>1. W[x] = hit /\ W[y] = y BY <1>9, <2>5
      <3>2. y \in N \ {Fake, hit, node} BY <1>8, <2>1, <2>5
      <3> QED BY <1>15, <2>2, <2>5, <3>1, <3>2
    <2>6. CASE x # node /\ y = node
      <3>1. W[x] = x /\ W[y] = hit BY <1>9, <2>6
      <3>2. x \in N \ {Fake, hit, node} BY <1>8, <2>1, <2>6
      <3>3. Other(d) \in Dir BY Dirs
      <3>4. x \in Beside(hit, Other(d)) <=> x \in Beside(node, Other(d)) BY <2>2, <3>2, <3>3
      <3>5. hit \in Beside(x, d) <=> x \in Beside(hit, Other(d)) BY <2>1, Sides
      <3>6. node \in Beside(x, d) <=> x \in Beside(node, Other(d)) BY <2>1, Sides
      <3> QED BY <1>15, <2>6, <3>1, <3>4, <3>5, <3>6
    <2> QED BY <2>3, <2>4, <2>5, <2>6
  <1> HIDE DEF D
  <1>16. IsCut(N, C, M, D, W, node)
    <2> HIDE DEF N, C, M
    <2>1. \A d \in Dir : C[<<node, d>>] = Nil BY DEF C
    <2> QED BY <1>8, <1>10, <1>11, <1>12, <1>13, <1>14, <1>15, <2>1 DEF IsCut
  <1>17. {x \in M : was(x) \in t.red} = {x \in M : W[x] \in t.red} BY <1>9
  <1> QED BY <1>7, <1>16, <1>17

(* Where the walk ends, the key is the leaf's or next to it in order; if it *)
(* was not found it is not in the tree.                                     *)
LEMMA SoughtNear ==
  ASSUME NEW t, NEW I, IsTree(t), Spans(t.nodes, t.child, I), NEW node \in t.nodes \ {Fake},
         NEW dir \in Dir, NEW key \in Point, NEW hit, Sought(t, I, node, dir, key, hit),
         t.child[<<node, dir>>] = Nil
  PROVE  /\ hit = Nil => key \notin t.nodes
         /\ hit # Nil => hit = key /\ key \in t.nodes /\ Near(t.nodes, key, node)
  <1>1. /\ Shape(t.nodes, t.child) /\ key # Nil /\ key # Fake /\ node \in Point
        /\ t.nodes \subseteq Point \cup {Fake}
    BY RBTreeAssumption DEF IsTree, Shape
  <1>2. ASSUME hit = Nil, key \in t.nodes PROVE FALSE
    <2>1. key \in I[node] /\ key \in Beside(node, dir) BY <1>1, <1>2 DEF Sought, Slot
    <2> QED BY <1>1, <1>2, <2>1, EmptySlot
  <1>3. ASSUME hit # Nil PROVE hit = key /\ key \in t.nodes /\ Near(t.nodes, key, node)
    <2>1. /\ hit = key /\ key \in t.nodes
          /\ \/ node = key
             \/ /\ dir = "right" /\ node \in Beside(key, "left")
                /\ Slot(I, node, dir) = Beside(node, "right") \cap Beside(key, "left")
      BY <1>3 DEF Sought
    <2>2. CASE node = key BY <2>1, <2>2 DEF Near
    <2>3. CASE /\ dir = "right" /\ node \in Beside(key, "left")
               /\ Slot(I, node, dir) = Beside(node, "right") \cap Beside(key, "left")
      <3>1. ASSUME NEW z \in t.nodes \ {Fake, key, node}
            PROVE  /\ z \in Beside(key, "left") <=> z \in Beside(node, "left")
                   /\ z \in Beside(key, "right") <=> z \in Beside(node, "right")
        <4>1. z \in Point /\ z # key /\ z # node BY <1>1
        <4>2. "left" \in Dir /\ "right" \in Dir /\ Other("left") = "right" BY DEF Dir, Other
        <4>3. /\ z \in Beside(key, "left") <=> z \notin Beside(key, "right")
              /\ z \in Beside(node, "left") <=> z \notin Beside(node, "right")
          <5>1. z \in Beside(key, "left") <=> z \notin Beside(key, Other("left"))
            BY <4>1, <4>2, Sides
          <5>2. z \in Beside(node, "left") <=> z \notin Beside(node, Other("left"))
            BY <1>1, <4>1, <4>2, Sides
          <5> QED BY <4>2, <5>1, <5>2
        <4>4. z \in Beside(node, "left") => z \in Beside(key, "left")
          BY <1>1, <2>3, <4>1, <4>2, Sides
        <4>5. ~(z \in Beside(node, "right") /\ z \in Beside(key, "left"))
          <5> SUFFICES ASSUME z \in Beside(node, "right"), z \in Beside(key, "left") PROVE FALSE
            OBVIOUS
          <5>1. z \in I[node] /\ z \in Beside(node, dir) BY <2>3 DEF Slot
          <5> QED BY <1>1, <5>1, EmptySlot
        <4> QED BY <4>3, <4>4, <4>5
      <3> QED BY <2>1, <3>1 DEF Near, Dir
    <2> QED BY <2>1, <2>2, <2>3
  <1> QED BY <1>2, <1>3

(* At the bottom of the tree is a leaf: red, or the root. *)
LEMMA SunkLeaf ==
  ASSUME NEW t, NEW I, NEW b, NEW h, Certified(t, I, b, h), NEW node \in t.nodes \ {Fake},
         NEW dir \in Dir, NEW p, t.child[<<node, dir>>] = Nil, Hangs(t, p, node, dir)
  PROVE  /\ \A d \in Dir : t.child[<<node, d>>] = Nil
         /\ p \in t.nodes /\ \E d \in Dir : t.child[<<p, d>>] = node
         /\ node \in t.red \/ \E d \in Dir : t.child[<<Fake, d>>] = node
  <1>1. /\ Shape(t.nodes, t.child) /\ t.red \subseteq t.nodes \ {Fake} /\ Nil \notin t.nodes
        /\ Even(t.nodes, t.child, t.red, b, h) /\ RedRule(t.child, t.red)
    BY RBTreeAssumption DEF Certified, IsTree, Shape
  <1>2. /\ p \in t.nodes /\ Loaded(t, p, node, dir) /\ \E d \in Dir : t.child[<<p, d>>] = node
    BY DEF Hangs
  <1>3. node \in t.red \/ (p = Fake /\ Calm(t, node)) BY <1>1, <1>2 DEF Loaded
  <1>4. \A d \in Dir : t.child[<<node, d>>] \notin t.red BY <1>1, <1>3 DEF RedRule, Calm
  <1>5. ASSUME NEW d \in Dir, t.child[<<node, d>>] # Nil PROVE FALSE
    <2>1. t.child[<<node, d>>] \in t.nodes \ {Fake} BY <1>1, <1>5 DEF Shape
    <2>2. b[node] = h /\ h \in Int BY <1>1 DEF Even
    <2>3. b[t.child[<<node, d>>]] = b[node] + 1 BY <1>1, <1>4, <1>5 DEF Even
    <2>4. b[t.child[<<node, d>>]] <= h BY <1>1, <2>1 DEF Even
    <2> QED BY <2>2, <2>3, <2>4
  <1> QED BY <1>2, <1>3, <1>5

(* The splice leaves a certified tree without the key. *)
LEMMA Spliced ==
  ASSUME NEW t, NEW I, NEW b, NEW h, Certified(t, I, b, h), NEW node \in t.nodes \ {Fake},
         NEW dir \in Dir, NEW p, t.child[<<node, dir>>] = Nil, Hangs(t, p, node, dir),
         NEW hit \in t.nodes \ {Fake}, Near(t.nodes, hit, node)
  PROVE  LET u == Splice(t, hit, p, node)
         IN u.nodes = t.nodes \ {hit} /\ \E J, f, g : Certified(u, J, f, g)
  <1> DEFINE u == Splice(t, hit, p, node)
             W == Was(t, hit, node)
             N == t.nodes
             C == t.child
  <1>1. /\ IsTree(t) /\ Shape(N, C) /\ Spans(N, C, I) /\ t.red \in SUBSET (N \ {Fake})
        /\ Even(N, C, t.red, b, h) /\ RedRule(C, t.red)
    BY DEF Certified, IsTree
  <1>2. /\ \A d \in Dir : C[<<node, d>>] = Nil
        /\ p \in N /\ \E d \in Dir : C[<<p, d>>] = node
        /\ node \in t.red \/ \E d \in Dir : C[<<Fake, d>>] = node
    BY SunkLeaf
  <1>3. /\ Record(u) /\ u.nodes = N \ {hit} /\ u.red = {x \in u.nodes : W[x] \in t.red}
        /\ IsCut(N, C, u.nodes, u.child, W, node)
    BY <1>1, <1>2, SpliceAt
  <1> HIDE DEF u, W, N, C
  <1>4. Shape(u.nodes, u.child) BY <1>1, <1>3, CutShape
  <1>5. Ordered(N, C) BY <1>1, SpansOrdered
  <1>6. Ordered(u.nodes, u.child) BY <1>1, <1>3, <1>5, CutOrdered
  <1>7. Spans(u.nodes, u.child, Left(u.nodes, u.child)) BY <1>4, <1>6, OrderedSpans
  <1> DEFINE f == KeptHeight(u.nodes, W, b)
  <1>8. Even(u.nodes, u.child, u.red, f, h) /\ RedRule(u.child, u.red)
    <2>1. /\ Even(u.nodes, u.child, KeptRed(u.nodes, W, t.red), KeptHeight(u.nodes, W, b), h)
          /\ RedRule(u.child, KeptRed(u.nodes, W, t.red))
      <3> HIDE DEF f
      <3> QED BY <1>1, <1>2, <1>3, CutColours
    <2>2. u.red = KeptRed(u.nodes, W, t.red) BY <1>3 DEF KeptRed
    <2> QED BY <2>1, <2>2
  <1> HIDE DEF f
  <1>9. u.red \subseteq u.nodes \ {Fake}
    <2>1. W[Fake] = Fake BY <1>3 DEF IsCut
    <2>2. Fake \notin t.red BY <1>1
    <2> QED BY <1>3, <2>1, <2>2
  <1>10. IsTree(u) BY <1>3, <1>4, <1>9 DEF IsTree
  <1>11. Certified(u, Left(u.nodes, u.child), f, h) BY <1>7, <1>8, <1>10 DEF Certified
  <1>12. u.nodes = t.nodes \ {hit} BY <1>3 DEF N
  <1>13. \E J, e, g : Certified(u, J, e, g) BY <1>11
  <1> QED BY <1>12, <1>13 DEF u

(* Removal: a red-black tree with the keys it had, but this one. *)
THEOREM RemoveSound ==
  ASSUME NEW t, NEW keys, Sound(t, keys), NEW key \in Point
  PROVE  Sound(RemoveNode(t, key), keys \ {key})
  <1> DEFINE s == RemoveWalk(t, key)
             t1 == IF s.found = Nil THEN s.tree ELSE Splice(s.tree, s.found, s.p, s.node)
             u == RemoveNode(t, key)
  <1>1. PICK I, b, h : Certified(t, I, b, h) BY DEF Sound
  <1>2. /\ Shape(t.nodes, t.child) /\ Fake \in t.nodes /\ KeysOf(t) = keys
    BY <1>1 DEF Certified, IsTree, Shape, Sound
  <1>3. t.child[<<Fake, "right">>] = Nil => t.nodes = {Fake}
    <2> SUFFICES ASSUME t.child[<<Fake, "right">>] = Nil PROVE t.nodes = {Fake}
      OBVIOUS
    <2> DEFINE S == {Fake}
    <2>1. \A d \in Dir : t.child[<<Fake, d>>] = Nil BY <1>2 DEF Shape, Dir
    <2>2. \A T \in SUBSET t.nodes :
            Fake \in T /\ (\A x \in T : \A d \in Dir : t.child[<<x, d>>] = Nil
                         \/ t.child[<<x, d>>] \in T)
              => T = t.nodes
      BY <1>2 DEF Shape
    <2>3. /\ S \in SUBSET t.nodes
          /\ \A x \in S : \A d \in Dir : t.child[<<x, d>>] = Nil \/ t.child[<<x, d>>] \in S
      BY <1>2, <2>1
    <2> QED BY <2>2, <2>3
  <1>4. CASE Root(t) = Nil
    <2>1. u = t BY <1>4 DEF RemoveNode
    <2>2. keys = {} BY <1>2, <1>3, <1>4 DEF Root, KeysOf
    <2>3. keys \ {key} = keys BY <2>2
    <2> HIDE DEF u
    <2>4. Sound(u, keys \ {key}) BY <2>1, <2>3
    <2> QED BY <2>4 DEF u
  <1>5. CASE Root(t) # Nil
    <2>1. u = Paint(t1, {}, {Root(t1)}) BY <1>5 DEF RemoveNode
    <2>2. Sunk(s, key, t.nodes) BY <1>1, RemoveWalked
    <2> HIDE DEF s, u
    <2>3. PICK J, f, g : /\ Certified(s.tree, J, f, g)
                         /\ Sought(s.tree, J, s.node, s.dir, key, s.found)
      BY <2>2 DEF Sunk
    <2>4. /\ s.tree.nodes = t.nodes /\ s.node \in t.nodes /\ s.dir \in Dir
          /\ s.tree.child[<<s.node, s.dir>>] = Nil /\ Hangs(s.tree, s.p, s.node, s.dir)
      BY <2>2 DEF Sunk
    <2>5. /\ IsTree(s.tree) /\ Shape(s.tree.nodes, s.tree.child)
          /\ Spans(s.tree.nodes, s.tree.child, J)
      BY <2>3 DEF Certified, IsTree
    <2>6. s.node # Fake
      <3> SUFFICES ASSUME s.node = Fake PROVE FALSE
        OBVIOUS
      <3>1. s.dir = "right" BY <2>4 DEF Hangs
      <3>2. \A d \in Dir : s.tree.child[<<Fake, d>>] = Nil BY <2>4, <2>5, <3>1 DEF Shape, Dir
      <3> DEFINE S == {Fake}
      <3>3. \A T \in SUBSET t.nodes :
              Fake \in T /\ (\A x \in T : \A d \in Dir : s.tree.child[<<x, d>>] = Nil
                           \/ s.tree.child[<<x, d>>] \in T)
                => T = t.nodes
        BY <2>4, <2>5 DEF Shape
      <3>4. /\ S \in SUBSET t.nodes
            /\ \A x \in S : \A d \in Dir : s.tree.child[<<x, d>>] = Nil \/ s.tree.child[<<x, d>>] \in S
        BY <1>2, <3>2
      <3>5. t.nodes = {Fake} BY <3>3, <3>4
      <3>6. Root(t) \in t.nodes \ {Fake} BY <1>2, <1>5 DEF Shape, Root, Dir
      <3> QED BY <3>5, <3>6
    <2>7. /\ s.found = Nil => key \notin t.nodes
          /\ s.found # Nil => s.found = key /\ key \in t.nodes /\ Near(t.nodes, key, s.node)
      BY <2>3, <2>4, <2>5, <2>6, SoughtNear
    <2>8. t1.nodes = t.nodes \ {key} /\ \E II, bb, hh : Certified(t1, II, bb, hh)
      <3>1. CASE s.found = Nil
        <4>1. t1 = s.tree BY <3>1
        <4>2. t.nodes = t.nodes \ {key} BY <2>7, <3>1
        <4> HIDE DEF t1
        <4> QED BY <2>3, <2>4, <4>1, <4>2
      <3>2. CASE s.found # Nil
        <4>1. key # Fake BY RBTreeAssumption
        <4>2. t1 = Splice(s.tree, key, s.p, s.node) BY <2>7, <3>2
        <4>3. key \in s.tree.nodes \ {Fake} /\ Near(s.tree.nodes, key, s.node)
          BY <2>4, <2>7, <3>2, <4>1
        <4>4. s.node \in s.tree.nodes \ {Fake} BY <2>4, <2>6
        <4> HIDE DEF t1
        <4>5. t1.nodes = s.tree.nodes \ {key} /\ \E II, bb, hh : Certified(t1, II, bb, hh)
          BY <2>3, <2>4, <4>2, <4>3, <4>4, Spliced
        <4> QED BY <2>4, <4>5
      <3> QED BY <3>1, <3>2
    <2> HIDE DEF t1
    <2>9. PICK II, bb, hh : Certified(t1, II, bb, hh) BY <2>8
    <2>10. Sound(u, KeysOf(t1)) BY <2>1, <2>9, PaintRoot
    <2>11. KeysOf(t1) = keys \ {key} BY <1>2, <2>8 DEF KeysOf
    <2>12. Sound(u, keys \ {key}) BY <2>10, <2>11
    <2> QED BY <2>12 DEF u
  <1> QED BY <1>4, <1>5

(* The tree the ring starts with is sound. *)
LEMMA EmptySound == Sound(EmptyTree, {})
  <1> DEFINE t == EmptyTree
             N == {Fake}
             C == [slot \in {Fake} \X Dir |-> Nil]
             I == [x \in N |-> Point]
             b == [x \in N |-> 0]
  <1>1. t = [nodes |-> N, red |-> {}, child |-> C] BY DEF EmptyTree
  <1>2. t.nodes = N /\ t.red = {} /\ t.child = C BY <1>1
  <1>3. \A x \in N : \A d \in Dir : C[<<x, d>>] = Nil OBVIOUS
  <1>4. C \in [N \X Dir -> (N \ {Fake}) \cup {Nil}] OBVIOUS
  <1>5. Shape(N, C)
    <2>1. IsFiniteSet(N) BY FS_Singleton
    <2>2. Fake \in N /\ N \subseteq Point \cup {Fake} /\ C[<<Fake, "left">>] = Nil BY <1>3 DEF Dir
    <2>3. \A S \in SUBSET N : Fake \in S => S = N OBVIOUS
    <2> HIDE DEF N, C
    <2> QED BY <1>3, <1>4, <2>1, <2>2, <2>3 DEF Shape
  <1>6. Spans(N, C, I)
    <2>1. I \in [N -> SUBSET Point] /\ I[Fake] = Point OBVIOUS
    <2> HIDE DEF I, C
    <2> QED BY <1>3, <2>1 DEF Spans
  <1>7. Even(N, C, {}, b, 0)
    <2>1. b \in [N -> Int] /\ N \ {Fake} = {} OBVIOUS
    <2> HIDE DEF b, C, N
    <2> QED BY <2>1 DEF Even
  <1>8. RedRule(C, {}) BY DEF RedRule
  <1> HIDE DEF t, N, C, I, b
  <1>9. Record(t) BY <1>1, <1>2 DEF Record
  <1>10. IsTree(t) BY <1>2, <1>5, <1>9 DEF IsTree
  <1>11. Certified(t, I, b, 0) BY <1>2, <1>6, <1>7, <1>8, <1>10 DEF Certified
  <1>12. Root(t) \notin t.red BY <1>2
  <1>13. KeysOf(t) = {} BY <1>2 DEF KeysOf, N
  <1>14. Sound(t, {}) BY <1>11, <1>12, <1>13 DEF Sound
  <1> QED BY <1>14 DEF t

(* The loops of the ring run: their passes one after the other. *)
LEMMA AddRuns ==
  ASSUME NEW t, NEW s, Len(HashOf[s]) \in Nat
  PROVE  \E f : /\ f[0] = t /\ AddReplicas(t, s) = f[Len(HashOf[s])]
                /\ \A n \in 1..Len(HashOf[s]) : f[n] = Insert(f[n - 1], <<HashOf[s][n], s>>)
  <1> DEFINE m == Len(HashOf[s])
             Runs(f, k) == f = [i \in 0..k |->
                    IF i = 0 THEN t ELSE Insert(f[i - 1], <<HashOf[s][i], s>>)]
             S == {k \in Nat : \E f : Runs(f, k)}
  <1>1. Runs([i \in 0..0 |-> t], 0) OBVIOUS
  <1>2. ASSUME NEW k \in Nat, k \in S PROVE k + 1 \in S
    <2>1. PICK f : Runs(f, k) BY <1>2
    <2> DEFINE g == [i \in 0..k + 1 |-> IF i = 0 THEN t ELSE Insert(f[i - 1], <<HashOf[s][i], s>>)]
    <2>2. \A n \in 0..k : g[n] = f[n]
      <3>1. \A i \in 0..k : f[i] = IF i = 0 THEN t ELSE Insert(f[i - 1], <<HashOf[s][i], s>>) BY <2>1
      <3>2. \A n \in 0..k : n \in 0..k + 1 OBVIOUS
      <3> HIDE <2>1
      <3> QED BY <3>1, <3>2
    <2>3. \A n \in 0..k + 1 : n # 0 => n - 1 \in 0..k OBVIOUS
    <2>4. \A n \in 0..k + 1 : n # 0 => g[n - 1] = f[n - 1] BY <2>2, <2>3
    <2>5. g = [i \in 0..k + 1 |-> IF i = 0 THEN t ELSE Insert(g[i - 1], <<HashOf[s][i], s>>)]
      BY <2>4
    <2> HIDE DEF g
    <2>6. Runs(g, k + 1) BY <2>5
    <2> HIDE DEF Runs
    <2>7. \E e : Runs(e, k + 1) BY <2>6
    <2> QED BY <2>7
  <1> HIDE DEF Runs
  <1>3. Nat \subseteq S BY <1>1, <1>2, Inductive
  <1>4. \E f : Runs(f, m) BY <1>3
  <1> DEFINE f == CHOOSE f : Runs(f, m)
  <1>5. Runs(f, m) BY <1>4
  <1>6. AddReplicas(t, s) = f[m] BY DEF AddReplicas, Runs
  <1> HIDE DEF f
  <1>7. f = [i \in 0..m |-> IF i = 0 THEN t ELSE Insert(f[i - 1], <<HashOf[s][i], s>>)]
    BY <1>5 DEF Runs
  <1>8. f[0] = t BY <1>7
  <1>9. \A n \in 1..m : n \in 0..m /\ n # 0 OBVIOUS
  <1>10. \A n \in 1..m : f[n] = Insert(f[n - 1], <<HashOf[s][n], s>>) BY <1>7, <1>9
  <1> QED BY <1>6, <1>8, <1>10

(* removeServerReplicas, pass by pass. *)
LEMMA RemovalRuns ==
  ASSUME NEW t, NEW s, Len(HashOf[s]) \in Nat
  PROVE  \E f : /\ f[0] = t /\ RemoveReplicas(t, s) = f[Len(HashOf[s])]
                /\ \A n \in 1..Len(HashOf[s]) : f[n] = RemoveNode(f[n - 1], <<HashOf[s][n], s>>)
  <1> DEFINE m == Len(HashOf[s])
             Runs(f, k) == f = [i \in 0..k |->
                    IF i = 0 THEN t ELSE RemoveNode(f[i - 1], <<HashOf[s][i], s>>)]
             S == {k \in Nat : \E f : Runs(f, k)}
  <1>1. Runs([i \in 0..0 |-> t], 0) OBVIOUS
  <1>2. ASSUME NEW k \in Nat, k \in S PROVE k + 1 \in S
    <2>1. PICK f : Runs(f, k) BY <1>2
    <2> DEFINE g == [i \in 0..k + 1 |-> IF i = 0 THEN t ELSE RemoveNode(f[i - 1], <<HashOf[s][i], s>>)]
    <2>2. \A n \in 0..k : g[n] = f[n]
      <3>1. \A i \in 0..k : f[i] = IF i = 0 THEN t ELSE RemoveNode(f[i - 1], <<HashOf[s][i], s>>) BY <2>1
      <3>2. \A n \in 0..k : n \in 0..k + 1 OBVIOUS
      <3> HIDE <2>1
      <3> QED BY <3>1, <3>2
    <2>3. \A n \in 0..k + 1 : n # 0 => n - 1 \in 0..k OBVIOUS
    <2>4. \A n \in 0..k + 1 : n # 0 => g[n - 1] = f[n - 1] BY <2>2, <2>3
    <2>5. g = [i \in 0..k + 1 |-> IF i = 0 THEN t ELSE RemoveNode(g[i - 1], <<HashOf[s][i], s>>)]
      BY <2>4
    <2> HIDE DEF g
    <2>6. Runs(g, k + 1) BY <2>5
    <2> HIDE DEF Runs
    <2>7. \E e : Runs(e, k + 1) BY <2>6
    <2> QED BY <2>7
  <1> HIDE DEF Runs
  <1>3. Nat \subseteq S BY <1>1, <1>2, Inductive
  <1>4. \E f : Runs(f, m) BY <1>3
  <1> DEFINE f == CHOOSE f : Runs(f, m)
  <1>5. Runs(f, m) BY <1>4
  <1>6. RemoveReplicas(t, s) = f[m] BY DEF RemoveReplicas, Runs
  <1> HIDE DEF f
  <1>7. f = [i \in 0..m |-> IF i = 0 THEN t ELSE RemoveNode(f[i - 1], <<HashOf[s][i], s>>)]
    BY <1>5 DEF Runs
  <1>8. f[0] = t BY <1>7
  <1>9. \A n \in 1..m : n \in 0..m /\ n # 0 OBVIOUS
  <1>10. \A n \in 1..m : f[n] = RemoveNode(f[n - 1], <<HashOf[s][n], s>>) BY <1>7, <1>9
  <1> QED BY <1>6, <1>8, <1>10

(* The first loop of addRemoveServers, pass by pass. *)
LEMMA WithRuns ==
  ASSUME NEW r, NEW list, Len(list) \in Nat
  PROVE  \E f : /\ f[0] = r /\ WithServers(r, list) = f[Len(list)]
                /\ \A n \in 1..Len(list) : f[n] = WithServer(f[n - 1], list[n])
  <1> DEFINE m == Len(list)
             Runs(f, k) == f = [i \in 0..k |-> IF i = 0 THEN r ELSE WithServer(f[i - 1], list[i])]
             S == {k \in Nat : \E f : Runs(f, k)}
  <1>1. Runs([i \in 0..0 |-> r], 0) OBVIOUS
  <1>2. ASSUME NEW k \in Nat, k \in S PROVE k + 1 \in S
    <2>1. PICK f : Runs(f, k) BY <1>2
    <2> DEFINE g == [i \in 0..k + 1 |-> IF i = 0 THEN r ELSE WithServer(f[i - 1], list[i])]
    <2>2. \A n \in 0..k : g[n] = f[n]
      <3>1. \A i \in 0..k : f[i] = IF i = 0 THEN r ELSE WithServer(f[i - 1], list[i]) BY <2>1
      <3>2. \A n \in 0..k : n \in 0..k + 1 OBVIOUS
      <3> HIDE <2>1
      <3> QED BY <3>1, <3>2
    <2>3. \A n \in 0..k + 1 : n # 0 => n - 1 \in 0..k OBVIOUS
    <2>4. \A n \in 0..k + 1 : n # 0 => g[n - 1] = f[n - 1] BY <2>2, <2>3
    <2>5. g = [i \in 0..k + 1 |-> IF i = 0 THEN r ELSE WithServer(g[i - 1], list[i])]
      BY <2>4
    <2> HIDE DEF g
    <2>6. Runs(g, k + 1) BY <2>5
    <2> HIDE DEF Runs
    <2>7. \E e : Runs(e, k + 1) BY <2>6
    <2> QED BY <2>7
  <1> HIDE DEF Runs
  <1>3. Nat \subseteq S BY <1>1, <1>2, Inductive
  <1>4. \E f : Runs(f, m) BY <1>3
  <1> DEFINE f == CHOOSE f : Runs(f, m)
  <1>5. Runs(f, m) BY <1>4
  <1>6. WithServers(r, list) = f[m] BY DEF WithServers, Runs
  <1> HIDE DEF f
  <1>7. f = [i \in 0..m |-> IF i = 0 THEN r ELSE WithServer(f[i - 1], list[i])]
    BY <1>5 DEF Runs
  <1>8. f[0] = r BY <1>7
  <1>9. \A n \in 1..m : n \in 0..m /\ n # 0 OBVIOUS
  <1>10. \A n \in 1..m : f[n] = WithServer(f[n - 1], list[n]) BY <1>7, <1>9
  <1> QED BY <1>6, <1>8, <1>10

(* The second. *)
LEMMA WithoutRuns ==
  ASSUME NEW r, NEW list, Len(list) \in Nat
  PROVE  \E f : /\ f[0] = r /\ WithoutServers(r, list) = f[Len(list)]
                /\ \A n \in 1..Len(list) : f[n] = WithoutServer(f[n - 1], list[n])
  <1> DEFINE m == Len(list)
             Runs(f, k) == f = [i \in 0..k |-> IF i = 0 THEN r ELSE WithoutServer(f[i - 1], list[i])]
             S == {k \in Nat : \E f : Runs(f, k)}
  <1>1. Runs([i \in 0..0 |-> r], 0) OBVIOUS
  <1>2. ASSUME NEW k \in Nat, k \in S PROVE k + 1 \in S
    <2>1. PICK f : Runs(f, k) BY <1>2
    <2> DEFINE g == [i \in 0..k + 1 |-> IF i = 0 THEN r ELSE WithoutServer(f[i - 1], list[i])]
    <2>2. \A n \in 0..k : g[n] = f[n]
      <3>1. \A i \in 0..k : f[i] = IF i = 0 THEN r ELSE WithoutServer(f[i - 1], list[i]) BY <2>1
      <3>2. \A n \in 0..k : n \in 0..k + 1 OBVIOUS
      <3> HIDE <2>1
      <3> QED BY <3>1, <3>2
    <2>3. \A n \in 0..k + 1 : n # 0 => n - 1 \in 0..k OBVIOUS
    <2>4. \A n \in 0..k + 1 : n # 0 => g[n - 1] = f[n - 1] BY <2>2, <2>3
    <2>5. g = [i \in 0..k + 1 |-> IF i = 0 THEN r ELSE WithoutServer(g[i - 1], list[i])]
      BY <2>4
    <2> HIDE DEF g
    <2>6. Runs(g, k + 1) BY <2>5
    <2> HIDE DEF Runs
    <2>7. \E e : Runs(e, k + 1) BY <2>6
    <2> QED BY <2>7
  <1> HIDE DEF Runs
  <1>3. Nat \subseteq S BY <1>1, <1>2, Inductive
  <1>4. \E f : Runs(f, m) BY <1>3
  <1> DEFINE f == CHOOSE f : Runs(f, m)
  <1>5. Runs(f, m) BY <1>4
  <1>6. WithoutServers(r, list) = f[m] BY DEF WithoutServers, Runs
  <1> HIDE DEF f
  <1>7. f = [i \in 0..m |-> IF i = 0 THEN r ELSE WithoutServer(f[i - 1], list[i])]
    BY <1>5 DEF Runs
  <1>8. f[0] = r BY <1>7
  <1>9. \A n \in 1..m : n \in 0..m /\ n # 0 OBVIOUS
  <1>10. \A n \in 1..m : f[n] = WithoutServer(f[n - 1], list[n]) BY <1>7, <1>9
  <1> QED BY <1>6, <1>8, <1>10

(* The points of a server, and of the servers of a ring. *)
PointsOf(s) == {<<HashOf[s][i], s>> : i \in DOMAIN HashOf[s]}
(* Those of all of S. *)
RingPoints(S) == UNION {PointsOf(s) : s \in S}
(* The first n of a server. *)
FirstPoints(s, n) == {<<HashOf[s][i], s>> : i \in 1..n}

(* The points of a server are had one by one. *)
LEMMA ReplicaPoints ==
  ASSUME NEW s \in Server
  PROVE  /\ Len(HashOf[s]) \in Nat /\ PointsOf(s) = FirstPoints(s, Len(HashOf[s]))
         /\ FirstPoints(s, 0) = {}
         /\ \A n \in 1..Len(HashOf[s]) :
              /\ <<HashOf[s][n], s>> \in Point
              /\ FirstPoints(s, n) = FirstPoints(s, n - 1) \cup {<<HashOf[s][n], s>>}
  <1>1. HashOf[s] \in Seq(Nat) /\ s \in Nat BY HashRingAssumption
  <1>2. Len(HashOf[s]) \in Nat /\ DOMAIN HashOf[s] = 1..Len(HashOf[s]) BY <1>1
  <1>3. \A n \in 1..Len(HashOf[s]) : HashOf[s][n] \in Nat BY <1>1
  <1>4. \A n \in 1..Len(HashOf[s]) : <<HashOf[s][n], s>> \in Point BY <1>1, <1>3 DEF Point
  <1>5. PointsOf(s) = FirstPoints(s, Len(HashOf[s])) BY <1>2 DEF PointsOf, FirstPoints
  <1>6. FirstPoints(s, 0) = {} BY DEF FirstPoints
  <1>7. \A n \in 1..Len(HashOf[s]) :
          FirstPoints(s, n) = FirstPoints(s, n - 1) \cup {<<HashOf[s][n], s>>}
    <2> SUFFICES ASSUME NEW n \in 1..Len(HashOf[s])
                 PROVE  FirstPoints(s, n) = FirstPoints(s, n - 1) \cup {<<HashOf[s][n], s>>}
      OBVIOUS
    <2>1. 1..n = (1..(n - 1)) \cup {n} BY <1>2
    <2> QED BY <2>1 DEF FirstPoints
  <1> QED BY <1>2, <1>4, <1>5, <1>6, <1>7

(* addServerReplicas adds the points of a server. *)
LEMMA AddReplicasSound ==
  ASSUME NEW t, NEW keys, Sound(t, keys), NEW s \in Server
  PROVE  Sound(AddReplicas(t, s), keys \cup PointsOf(s))
  <1> DEFINE m == Len(HashOf[s])
  <1>1. /\ m \in Nat /\ PointsOf(s) = FirstPoints(s, m) /\ FirstPoints(s, 0) = {}
        /\ \A n \in 1..m : /\ <<HashOf[s][n], s>> \in Point
                           /\ FirstPoints(s, n) = FirstPoints(s, n - 1) \cup {<<HashOf[s][n], s>>}
    BY ReplicaPoints
  <1>2. PICK f : /\ f[0] = t /\ AddReplicas(t, s) = f[m]
                 /\ \A n \in 1..m : f[n] = Insert(f[n - 1], <<HashOf[s][n], s>>)
    <2>1. Len(HashOf[s]) \in Nat BY <1>1
    <2> QED BY ONLY <2>1, AddRuns DEF m
  <1> HIDE DEF m
  <1> DEFINE S == {n \in Nat : n <= m => Sound(f[n], keys \cup FirstPoints(s, n))}
  <1>3. 0 \in S
    <2>1. keys \cup FirstPoints(s, 0) = keys BY <1>1
    <2> QED BY <1>2, <2>1
  <1>4. ASSUME NEW n \in Nat, n \in S PROVE n + 1 \in S
    <2> SUFFICES ASSUME n + 1 <= m PROVE Sound(f[n + 1], keys \cup FirstPoints(s, n + 1))
      OBVIOUS
    <2>1. n <= m /\ n + 1 \in 1..m /\ (n + 1) - 1 = n BY <1>1
    <2>2. Sound(f[n], keys \cup FirstPoints(s, n)) BY <1>4, <2>1
    <2> DEFINE key == <<HashOf[s][n + 1], s>>
    <2>3. /\ key \in Point /\ f[n + 1] = Insert(f[n], key)
          /\ FirstPoints(s, n + 1) = FirstPoints(s, n) \cup {key}
      BY <1>1, <1>2, <2>1
    <2> HIDE DEF key
    <2>4. Sound(Insert(f[n], key), (keys \cup FirstPoints(s, n)) \cup {key})
      BY <2>2, <2>3, InsertSound
    <2>5. (keys \cup FirstPoints(s, n)) \cup {key} = keys \cup FirstPoints(s, n + 1) BY <2>3
    <2> QED BY <2>3, <2>4, <2>5
  <1>5. m \in S
    <2> HIDE DEF S
    <2>1. Nat \subseteq S BY <1>3, <1>4, Inductive
    <2> QED BY <1>1, <2>1
  <1> QED BY <1>1, <1>2, <1>5

(* removeServerReplicas removes them. *)
LEMMA RemoveReplicasSound ==
  ASSUME NEW t, NEW keys, Sound(t, keys), NEW s \in Server
  PROVE  Sound(RemoveReplicas(t, s), keys \ PointsOf(s))
  <1> DEFINE m == Len(HashOf[s])
  <1>1. /\ m \in Nat /\ PointsOf(s) = FirstPoints(s, m) /\ FirstPoints(s, 0) = {}
        /\ \A n \in 1..m : /\ <<HashOf[s][n], s>> \in Point
                           /\ FirstPoints(s, n) = FirstPoints(s, n - 1) \cup {<<HashOf[s][n], s>>}
    BY ReplicaPoints
  <1>2. PICK f : /\ f[0] = t /\ RemoveReplicas(t, s) = f[m]
                 /\ \A n \in 1..m : f[n] = RemoveNode(f[n - 1], <<HashOf[s][n], s>>)
    <2>1. Len(HashOf[s]) \in Nat BY <1>1
    <2> QED BY ONLY <2>1, RemovalRuns DEF m
  <1> HIDE DEF m
  <1> DEFINE S == {n \in Nat : n <= m => Sound(f[n], keys \ FirstPoints(s, n))}
  <1>3. 0 \in S
    <2>1. keys \ FirstPoints(s, 0) = keys BY <1>1
    <2> QED BY <1>2, <2>1
  <1>4. ASSUME NEW n \in Nat, n \in S PROVE n + 1 \in S
    <2> SUFFICES ASSUME n + 1 <= m PROVE Sound(f[n + 1], keys \ FirstPoints(s, n + 1))
      OBVIOUS
    <2>1. n <= m /\ n + 1 \in 1..m /\ (n + 1) - 1 = n BY <1>1
    <2>2. Sound(f[n], keys \ FirstPoints(s, n)) BY <1>4, <2>1
    <2> DEFINE key == <<HashOf[s][n + 1], s>>
    <2>3. /\ key \in Point /\ f[n + 1] = RemoveNode(f[n], key)
          /\ FirstPoints(s, n + 1) = FirstPoints(s, n) \cup {key}
      BY <1>1, <1>2, <2>1
    <2> HIDE DEF key
    <2>4. Sound(RemoveNode(f[n], key), (keys \ FirstPoints(s, n)) \ {key})
      BY <2>2, <2>3, RemoveSound
    <2>5. (keys \ FirstPoints(s, n)) \ {key} = keys \ FirstPoints(s, n + 1) BY <2>3
    <2> QED BY <2>3, <2>4, <2>5
  <1>5. m \in S
    <2> HIDE DEF S
    <2>1. Nat \subseteq S BY <1>3, <1>4, Inductive
    <2> QED BY <1>1, <2>1
  <1> QED BY <1>1, <1>2, <1>5

(* The tree of a ring has the points of its servers. *)
Kept(r) == r.servers \subseteq Server /\ Sound(r.tree, RingPoints(r.servers))

(* Adding or removing one server keeps tree and servers together. *)
LEMMA WithServerKept ==
  ASSUME NEW r, Kept(r), NEW s \in Server
  PROVE  Kept(WithServer(r, s)) /\ Kept(WithoutServer(r, s))
  <1>1. r.servers \subseteq Server /\ Sound(r.tree, RingPoints(r.servers)) BY DEF Kept
  <1>2. Kept(WithServer(r, s))
    <2> DEFINE v == WithServer(r, s)
    <2>1. CASE s \in r.servers BY <2>1 DEF WithServer
    <2>2. CASE s \notin r.servers
      <3>1. v = [servers |-> r.servers \cup {s}, tree |-> AddReplicas(r.tree, s)]
        BY <2>2 DEF WithServer
      <3>2. v.servers = r.servers \cup {s} /\ v.tree = AddReplicas(r.tree, s) BY <3>1
      <3> HIDE DEF v
      <3>3. Sound(v.tree, RingPoints(r.servers) \cup PointsOf(s))
        BY <1>1, <3>2, AddReplicasSound
      <3>4. RingPoints(v.servers) = RingPoints(r.servers) \cup PointsOf(s)
        BY <3>2 DEF RingPoints
      <3>5. Kept(v) BY <1>1, <3>2, <3>3, <3>4 DEF Kept
      <3> QED BY <3>5 DEF v
    <2> QED BY <2>1, <2>2
  <1>3. Kept(WithoutServer(r, s))
    <2> DEFINE v == WithoutServer(r, s)
    <2>1. CASE s \notin r.servers BY <2>1 DEF WithoutServer
    <2>2. CASE s \in r.servers
      <3>1. v = [servers |-> r.servers \ {s}, tree |-> RemoveReplicas(r.tree, s)]
        BY <2>2 DEF WithoutServer
      <3>2. v.servers = r.servers \ {s} /\ v.tree = RemoveReplicas(r.tree, s) BY <3>1
      <3> HIDE DEF v
      <3>3. Sound(v.tree, RingPoints(r.servers) \ PointsOf(s))
        BY <1>1, <3>2, RemoveReplicasSound
      <3>4. RingPoints(v.servers) = RingPoints(r.servers) \ PointsOf(s)
        <4>1. \A q : \A z \in PointsOf(q) : z[2] = q BY DEF PointsOf
        <4>2. \A z : z \in RingPoints(r.servers) <=> \E q \in r.servers : z \in PointsOf(q)
          BY DEF RingPoints
        <4>3. \A z : z \in RingPoints(v.servers) <=> \E q \in v.servers : z \in PointsOf(q)
          BY DEF RingPoints
        <4>4. \A z : z \in RingPoints(v.servers) <=> z \in RingPoints(r.servers) /\ z \notin PointsOf(s)
          <5> SUFFICES ASSUME NEW z
                       PROVE  z \in RingPoints(v.servers)
                                <=> z \in RingPoints(r.servers) /\ z \notin PointsOf(s)
            OBVIOUS
          <5>1. ASSUME z \in RingPoints(v.servers)
                PROVE  z \in RingPoints(r.servers) /\ z \notin PointsOf(s)
            <6>1. PICK q \in v.servers : z \in PointsOf(q) BY <4>3, <5>1
            <6>2. q \in r.servers /\ q # s /\ z[2] = q BY <3>2, <4>1, <6>1
            <6>3. z \notin PointsOf(s) BY <4>1, <6>2
            <6> QED BY <4>2, <6>1, <6>2, <6>3
          <5>2. ASSUME z \in RingPoints(r.servers), z \notin PointsOf(s)
                PROVE  z \in RingPoints(v.servers)
            <6>1. PICK q \in r.servers : z \in PointsOf(q) BY <4>2, <5>2
            <6>2. q \in v.servers BY <3>2, <5>2, <6>1
            <6> QED BY <4>3, <6>1, <6>2
          <5> QED BY <5>1, <5>2
        <4> QED BY <4>4
      <3>5. Kept(v) BY <1>1, <3>2, <3>3, <3>4 DEF Kept
      <3> QED BY <3>5 DEF v
    <2> QED BY <2>1, <2>2
  <1> QED BY <1>2, <1>3

(* A list of servers is a sequence of them. *)
LEMMA ListOfServers ==
  ASSUME NEW list \in Lists
  PROVE  Len(list) \in Nat /\ \A i \in 1..Len(list) : list[i] \in Server
  <1>1. CASE list = << >> BY <1>1
  <1>2. CASE \E s \in Server : list = <<s>> BY <1>2
  <1>3. CASE list \in Server \X Server
    <2>1. PICK a \in Server, c \in Server : list = <<a, c>> BY <1>3
    <2>2. Len(list) = 2 /\ list[1] = a /\ list[2] = c BY <2>1
    <2>3. \A i \in 1..2 : i = 1 \/ i = 2 OBVIOUS
    <2> QED BY <2>2, <2>3
  <1> QED BY <1>1, <1>2, <1>3 DEF Lists

(* So does a list of them (addRemoveServers). *)
LEMMA WithServersKept ==
  ASSUME NEW r, Kept(r), NEW list \in Lists
  PROVE  Kept(WithServers(r, list)) /\ Kept(WithoutServers(r, list))
  <1> DEFINE m == Len(list)
  <1>1. m \in Nat /\ \A i \in 1..m : list[i] \in Server BY ListOfServers
  <1>2. Kept(WithServers(r, list))
    <2>1. PICK f : /\ f[0] = r /\ WithServers(r, list) = f[m]
                   /\ \A n \in 1..m : f[n] = WithServer(f[n - 1], list[n])
      <3>1. Len(list) \in Nat BY <1>1
      <3> QED BY ONLY <3>1, WithRuns
    <2> HIDE DEF m
    <2> DEFINE S == {n \in Nat : n <= m => Kept(f[n])}
    <2>2. 0 \in S BY <2>1
    <2>3. ASSUME NEW n \in Nat, n \in S PROVE n + 1 \in S
      <3> SUFFICES ASSUME n + 1 <= m PROVE Kept(f[n + 1])
        OBVIOUS
      <3>1. n <= m /\ n + 1 \in 1..m /\ (n + 1) - 1 = n BY <1>1
      <3>2. Kept(f[n]) /\ list[n + 1] \in Server BY <1>1, <2>3, <3>1
      <3>3. f[n + 1] = WithServer(f[n], list[n + 1]) BY <2>1, <3>1
      <3> QED BY <3>2, <3>3, WithServerKept
    <2>4. m \in S
      <3> HIDE DEF S
      <3>1. Nat \subseteq S BY <2>2, <2>3, Inductive
      <3> QED BY <1>1, <3>1
    <2> QED BY <1>1, <2>1, <2>4
  <1>3. Kept(WithoutServers(r, list))
    <2>1. PICK f : /\ f[0] = r /\ WithoutServers(r, list) = f[m]
                   /\ \A n \in 1..m : f[n] = WithoutServer(f[n - 1], list[n])
      <3>1. Len(list) \in Nat BY <1>1
      <3> QED BY ONLY <3>1, WithoutRuns
    <2> HIDE DEF m
    <2> DEFINE S == {n \in Nat : n <= m => Kept(f[n])}
    <2>2. 0 \in S BY <2>1
    <2>3. ASSUME NEW n \in Nat, n \in S PROVE n + 1 \in S
      <3> SUFFICES ASSUME n + 1 <= m PROVE Kept(f[n + 1])
        OBVIOUS
      <3>1. n <= m /\ n + 1 \in 1..m /\ (n + 1) - 1 = n BY <1>1
      <3>2. Kept(f[n]) /\ list[n + 1] \in Server BY <1>1, <2>3, <3>1
      <3>3. f[n + 1] = WithoutServer(f[n], list[n + 1]) BY <2>1, <3>1
      <3> QED BY <3>2, <3>3, WithServerKept
    <2>4. m \in S
      <3> HIDE DEF S
      <3>1. Nat \subseteq S BY <2>2, <2>3, Inductive
      <3> QED BY <1>1, <3>1
    <2> QED BY <1>1, <2>1, <2>4
  <1> QED BY <1>2, <1>3

(* The inductive invariant of the ring. *)
RingInv == Kept(Ring)

(* It holds of the empty ring. *)
LEMMA RingInit_Inv ==
  ASSUME RingInit
  PROVE  RingInv
  <1>1. Ring.servers = {} /\ Ring.tree = EmptyTree BY DEF RingInit, Ring
  <1>2. RingPoints({}) = {} BY DEF RingPoints
  <1> QED BY <1>1, <1>2, EmptySound DEF RingInv, Kept

(* Every operation of the ring keeps it (index.js 62-180). *)
LEMMA RingNext_Inv ==
  ASSUME RingInv, [RingNext]_ringVars
  PROVE  RingInv'
  <1> DEFINE r == Ring
  <1>1. r.servers = servers /\ r.tree = tree /\ Kept(r) BY DEF RingInv, Ring
  <1>3. ASSUME NEW v, Kept(v), Becomes(v) PROVE RingInv'
    <2>1. servers' = v.servers /\ tree' = v.tree BY <1>3 DEF Becomes
    <2>2. v.servers \subseteq Server /\ Sound(v.tree, RingPoints(v.servers)) BY <1>3 DEF Kept
    <2>3. Ring'.servers = v.servers /\ Ring'.tree = v.tree BY <2>1 DEF Ring
    <2>4. Kept(Ring') BY <2>2, <2>3 DEF Kept
    <2> QED BY <2>4 DEF RingInv
  <1>4. ASSUME UNCHANGED <<tree, servers>> PROVE RingInv'
    <2>1. Ring' = Ring BY <1>4 DEF Ring
    <2> QED BY <2>1 DEF RingInv
  <1>5. ASSUME NEW s \in Server, AddServer(s) \/ RemoveServer(s) PROVE RingInv'
    <2>1. CASE AddServer(s)
      <3>1. Becomes(WithServer(r, s)) BY <2>1 DEF AddServer
      <3>2. Kept(WithServer(r, s)) BY <1>1, WithServerKept
      <3> QED BY <1>3, <3>1, <3>2
    <2>2. CASE RemoveServer(s)
      <3>1. Becomes(WithoutServer(r, s)) BY <2>2 DEF RemoveServer
      <3>2. Kept(WithoutServer(r, s)) BY <1>1, WithServerKept
      <3> QED BY <1>3, <3>1, <3>2
    <2> QED BY <1>5, <2>1, <2>2
  <1>6. ASSUME NEW add \in Lists, NEW remove \in Lists, AddRemoveServers(add, remove) PROVE RingInv'
    <2> DEFINE between == WithServers(r, add)
    <2>1. Becomes(WithoutServers(between, remove)) BY <1>6 DEF AddRemoveServers
    <2>2. Kept(between) BY <1>1, WithServersKept
    <2> HIDE DEF between
    <2>3. Kept(WithoutServers(between, remove)) BY <2>2, WithServersKept
    <2> QED BY <1>3, <2>1, <2>3
  <1>7. ASSUME NEW h \in KeyHash, Lookup(h) \/ \E n \in 1..MaxWanted : LookupN(h, n) PROVE RingInv'
    <2>1. UNCHANGED <<tree, servers>> BY <1>7 DEF Lookup, LookupN
    <2> QED BY <1>4, <2>1
  <1>8. CASE UNCHANGED ringVars
    <2>1. UNCHANGED <<tree, servers>> BY <1>8 DEF ringVars
    <2> QED BY <1>4, <2>1
  <1>9. CASE RingNext BY <1>5, <1>6, <1>7, <1>9 DEF RingNext
  <1> QED BY <1>8, <1>9

(* It is what the run checks. *)
LEMMA RingInv_RedBlack ==
  ASSUME RingInv
  PROVE  TreeIsRedBlack
  <1>1. Sound(tree, RingPoints(servers))
    <2>1. Ring.servers = servers /\ Ring.tree = tree BY DEF Ring
    <2> QED BY <2>1 DEF RingInv, Kept
  <1>2. IsRedBlack(tree) /\ KeysOf(tree) = RingPoints(servers) BY <1>1, SoundIsRedBlack
  <1> QED BY <1>2 DEF TreeIsRedBlack, RingPoints, PointsOf

(* Whatever servers come and go, in whatever order, and whichever of their *)
(* hashes collide, the tree of the ring is a red-black tree of exactly     *)
(* their points (rbtree.js 72-234, index.js 62-180).                       *)
THEOREM RingIsRedBlack == RingSpec => []TreeIsRedBlack
  <1>1. RingInit => RingInv BY RingInit_Inv
  <1>2. RingInv /\ [RingNext]_ringVars => RingInv' BY RingNext_Inv
  <1>3. RingInv => TreeIsRedBlack BY RingInv_RedBlack
  <1> QED BY <1>1, <1>2, <1>3, PTL DEF RingSpec

----------------------------------------------------------------------------
(* The iterator: the way that an iterator came, and what it reaches       *)
(* (rbtree.js 237-344).                                                   *)

(* Less is a strict total order, and the sides are what is less and what is *)
(* greater.                                                                 *)
LEMMA LessOrder ==
  ASSUME NEW x \in Point, NEW y \in Point, NEW z \in Point
  PROVE  /\ ~Less(x, x) /\ (Less(x, y) => ~Less(y, x)) /\ (x # y => Less(x, y) \/ Less(y, x))
         /\ (Less(x, y) /\ Less(y, z) => Less(x, z))
         /\ y \in Beside(x, "left") <=> Less(y, x)
         /\ y \in Beside(x, "right") <=> Less(x, y)
  <1>1. x # Fake BY RBTreeAssumption
  <1>2. /\ ~Less(x, x) /\ (Less(x, y) => ~Less(y, x)) /\ (x # y => Less(x, y) \/ Less(y, x))
        /\ (Less(x, y) /\ Less(y, z) => Less(x, z))
    BY DEF Less, Point
  <1>3. Toward(x, y) = IF Less(x, y) THEN "right" ELSE "left" BY DEF Toward
  <1> QED BY <1>1, <1>2, <1>3 DEF Beside

(* A tree with the intervals of its nodes. *)
Spanned(t, I) == IsTree(t) /\ Spans(t.nodes, t.child, I)

(* w goes down from the root, from a node to a child of it. *)
Way(t, I, w) ==
  /\ w \in Seq(KeysOf(t)) /\ w # << >> /\ w[1] = Root(t)
  /\ \A k \in 1..Len(w) - 1 : \E d \in Dir : t.child[<<w[k], d>>] = w[k + 1]
  /\ \A k \in 1..Len(w) : \A j \in 1..k : I[w[k]] \subseteq I[w[j]]
(* An iterator at a key, with the way it came. *)
IsIter(t, I, i) ==
  /\ i = [cursor |-> i.cursor, ancestors |-> i.ancestors]
  /\ i.ancestors \in Seq(KeysOf(t)) /\ i.cursor \in KeysOf(t)
  /\ Way(t, I, Append(i.ancestors, i.cursor))
(* An iterator at the least of the keys S, or at the end if there is none. *)
Reaches(t, I, i, S) ==
  \/ S = {} /\ i = NoIterator
  \/ IsIter(t, I, i) /\ i.cursor \in S /\ \A z \in S : z = i.cursor \/ Less(i.cursor, z)

(* What is known of a key and its children. *)
LEMMA KeyAt ==
  ASSUME NEW t, NEW I, Spanned(t, I), NEW x \in KeysOf(t)
  PROVE  /\ x \in t.nodes \ {Fake} /\ x \in Point /\ x # Nil /\ x \in I[x] /\ I[x] \subseteq Point
         /\ \A d \in Dir : t.child[<<x, d>>] # Nil =>
              /\ t.child[<<x, d>>] \in KeysOf(t) /\ t.child[<<x, d>>] \in I[x]
              /\ I[t.child[<<x, d>>]] = I[x] \cap Beside(x, d)
         /\ \A d \in Dir : \A z \in KeysOf(t) :
              t.child[<<x, d>>] = Nil => ~(z \in I[x] /\ z \in Beside(x, d))
  <1> DEFINE N == t.nodes
             C == t.child
  <1>1. Shape(N, C) /\ Spans(N, C, I) /\ KeysOf(t) = N \ {Fake} BY DEF Spanned, IsTree, KeysOf
  <1>2. x \in N \ {Fake} /\ x \in Point BY <1>1 DEF Shape
  <1>3. x # Nil BY <1>2, RBTreeAssumption
  <1>4. x \in I[x] BY <1>1, <1>2, SpanOwn
  <1>5. I[x] \subseteq Point BY <1>1, <1>2 DEF Spans
  <1>6. ASSUME NEW d \in Dir, C[<<x, d>>] # Nil
        PROVE  /\ C[<<x, d>>] \in KeysOf(t) /\ C[<<x, d>>] \in I[x]
               /\ I[C[<<x, d>>]] = I[x] \cap Beside(x, d)
    <2>1. <<x, d>> \in N \X Dir BY <1>2
    <2>2. C[<<x, d>>] \in N \ {Fake} BY <1>1, <1>6, <2>1 DEF Shape
    <2>3. /\ C[<<x, d>>] \in I[x] \cap Beside(x, d)
          /\ I[C[<<x, d>>]] = I[x] \cap Beside(x, d)
      BY <1>1, <1>2, <1>6 DEF Spans
    <2> QED BY <1>1, <2>2, <2>3
  <1>7. ASSUME NEW d \in Dir, NEW z \in KeysOf(t), C[<<x, d>>] = Nil, z \in I[x], z \in Beside(x, d)
        PROVE  FALSE
    <2>1. z \in N BY <1>1
    <2> QED BY <1>1, <1>2, <1>7, <2>1, EmptySlot
  <1> QED BY <1>2, <1>3, <1>4, <1>5, <1>6, <1>7

(* The root is above every key. *)
LEMMA RootAt ==
  ASSUME NEW t, NEW I, Spanned(t, I)
  PROVE  /\ Root(t) = Nil => KeysOf(t) = {}
         /\ Root(t) # Nil => Root(t) \in KeysOf(t) /\ I[Root(t)] = Point
         /\ IsFiniteSet(t.nodes) /\ Fake \in t.nodes /\ KeysOf(t) = t.nodes \ {Fake}
  <1> DEFINE N == t.nodes
             C == t.child
  <1>1. Shape(N, C) /\ Spans(N, C, I) /\ KeysOf(t) = N \ {Fake} BY DEF Spanned, IsTree, KeysOf
  <1>2. /\ IsFiniteSet(N) /\ Fake \in N /\ N \subseteq Point \cup {Fake} BY <1>1 DEF Shape
  <1>3. <<Fake, "right">> \in N \X Dir BY <1>2 DEF Dir
  <1>4. Root(t) = C[<<Fake, "right">>] BY DEF Root
  <1>5. ASSUME Root(t) = Nil PROVE KeysOf(t) = {}
    <2> DEFINE S == {Fake}
    <2>1. \A d \in Dir : C[<<Fake, d>>] = Nil BY <1>1, <1>4, <1>5 DEF Shape, Dir
    <2>2. \A T \in SUBSET N :
            Fake \in T /\ (\A x \in T : \A d \in Dir : C[<<x, d>>] = Nil \/ C[<<x, d>>] \in T) => T = N
      BY <1>1 DEF Shape
    <2>3. S \in SUBSET N /\ \A x \in S : \A d \in Dir : C[<<x, d>>] = Nil \/ C[<<x, d>>] \in S
      BY <1>2, <2>1
    <2>4. S = N BY <2>2, <2>3
    <2> QED BY <1>1, <2>4
  <1>6. ASSUME Root(t) # Nil PROVE Root(t) \in KeysOf(t) /\ I[Root(t)] = Point
    <2>1. Root(t) \in N \ {Fake} BY <1>1, <1>3, <1>4, <1>6 DEF Shape
    <2>2. I[Fake] = Point /\ Beside(Fake, "right") = Point /\ "right" \in Dir
      BY <1>1 DEF Spans, Beside, Dir
    <2>3. I[Root(t)] = I[Fake] \cap Beside(Fake, "right") BY <1>1, <1>2, <1>4, <1>6, <2>2 DEF Spans
    <2> QED BY <1>1, <2>1, <2>2, <2>3
  <1> QED BY <1>1, <1>2, <1>5, <1>6

(* The root alone is a way. *)
LEMMA WayStart ==
  ASSUME NEW t, NEW I, Spanned(t, I), Root(t) # Nil
  PROVE  Way(t, I, Append(<< >>, Root(t))) /\ << >> \in Seq(KeysOf(t))
  <1>1. Root(t) \in KeysOf(t) BY RootAt
  <1> DEFINE w == Append(<< >>, Root(t))
  <1>2. w \in Seq(KeysOf(t)) /\ Len(w) = 1 /\ w[1] = Root(t) /\ w # << >> BY <1>1
  <1> HIDE DEF w
  <1>3. \A k \in 1..Len(w) - 1 : FALSE BY <1>2
  <1>4. \A k \in 1..Len(w) : \A j \in 1..k : j = k BY <1>2
  <1>5. Way(t, I, w) BY <1>2, <1>3, <1>4 DEF Way
  <1> QED BY <1>5 DEF w

(* A way may go on to a child. *)
LEMMA WayDown ==
  ASSUME NEW t, NEW I, Spanned(t, I), NEW a \in Seq(KeysOf(t)), NEW x \in KeysOf(t),
         Way(t, I, Append(a, x)), NEW d \in Dir, t.child[<<x, d>>] # Nil
  PROVE  /\ Append(a, x) \in Seq(KeysOf(t)) /\ t.child[<<x, d>>] \in KeysOf(t)
         /\ Way(t, I, Append(Append(a, x), t.child[<<x, d>>]))
  <1> DEFINE P == KeysOf(t)
             w == Append(a, x)
             c == t.child[<<x, d>>]
             n == Len(w)
             v == Append(w, c)
  <1>1. c \in P /\ I[c] \subseteq I[x] BY KeyAt
  <1>2. w \in Seq(P) /\ n = Len(a) + 1 /\ w[n] = x OBVIOUS
  <1>3. /\ w[1] = Root(t)
        /\ \A k \in 1..n - 1 : \E e \in Dir : t.child[<<w[k], e>>] = w[k + 1]
        /\ \A k \in 1..n : \A j \in 1..k : I[w[k]] \subseteq I[w[j]]
    BY DEF Way
  <1>c. t.child[<<x, d>>] = c OBVIOUS
  <1> HIDE DEF c, w
  <1>4. n \in Nat /\ n >= 1 BY <1>2
  <1>5. v \in Seq(P) /\ Len(v) = n + 1 /\ v[n + 1] = c /\ \A k \in 1..n : v[k] = w[k]
    BY <1>1, <1>2
  <1> HIDE DEF v
  <1>6. v # << >> /\ v[1] = Root(t) BY <1>3, <1>4, <1>5
  <1>7. ASSUME NEW k \in 1..Len(v) - 1 PROVE \E e \in Dir : t.child[<<v[k], e>>] = v[k + 1]
    <2>1. CASE k = n
      <3>1. n \in 1..n BY <1>4
      <3>2. v[k] = x /\ v[k + 1] = c BY <1>2, <1>5, <2>1, <3>1
      <3>3. t.child[<<v[k], d>>] = v[k + 1] BY <1>c, <3>2
      <3> QED BY <3>3
    <2>2. CASE k # n
      <3>1. k \in 1..n - 1 /\ k \in 1..n /\ k + 1 \in 1..n BY <1>4, <1>5, <2>2
      <3> QED BY <1>3, <1>5, <3>1
    <2> QED BY <2>1, <2>2
  <1>8. ASSUME NEW k \in 1..Len(v), NEW j \in 1..k PROVE I[v[k]] \subseteq I[v[j]]
    <2>1. CASE k \in 1..n
      <3>1. j \in 1..n BY <1>4, <2>1
      <3> QED BY <1>3, <1>5, <2>1, <3>1
    <2>2. CASE k = n + 1 /\ j = n + 1 BY <2>2
    <2>3. CASE k = n + 1 /\ j \in 1..n
      <3>1. I[x] \subseteq I[w[j]] BY <1>2, <1>3, <1>4, <2>3
      <3> QED BY <1>1, <1>5, <2>3, <3>1
    <2> QED BY <1>4, <1>5, <2>1, <2>2, <2>3
  <1>9. Way(t, I, v) BY <1>5, <1>6, <1>7, <1>8 DEF Way
  <1> QED BY <1>1, <1>2, <1>9 DEF v, w, c

(* MinNode's walk, pass by pass. *)
MinOn(t, i) ==
  IF t.child[<<i.cursor, "left">>] = Nil THEN i
  ELSE [cursor |-> t.child[<<i.cursor, "left">>], ancestors |-> Append(i.ancestors, i.cursor)]
(* WayTo's. *)
ToOn(t, key, i) ==
  IF i.cursor \in {Nil, key} THEN i
  ELSE [cursor |-> t.child[<<i.cursor, Toward(i.cursor, key)>>],
        ancestors |-> Append(i.ancestors, i.cursor)]
(* And upperBound's. *)
UpperOn(t, key, i) ==
  IF i.cursor # Nil /\ Less(i.cursor, key) THEN NextOf(t, i) ELSE i

(* MinNode runs: its passes one after the other. *)
LEMMA MinRuns ==
  ASSUME NEW t, NEW anc, NEW start, Cardinality(t.nodes) \in Nat
  PROVE  \E f : /\ f[0] = [cursor |-> start, ancestors |-> anc]
                /\ MinNode(t, anc, start) = f[Cardinality(t.nodes)]
                /\ \A n \in 1..Cardinality(t.nodes) : f[n] = MinOn(t, f[n - 1])
  <1> DEFINE m == Cardinality(t.nodes)
             from == [cursor |-> start, ancestors |-> anc]
             Runs(f, k) == f = [n \in 0..k |-> IF n = 0 THEN from ELSE MinOn(t, f[n - 1])]
             S == {k \in Nat : \E f : Runs(f, k)}
  <1>1. Runs([n \in 0..0 |-> from], 0) OBVIOUS
  <1>2. ASSUME NEW k \in Nat, k \in S PROVE k + 1 \in S
    <2>1. PICK f : Runs(f, k) BY <1>2
    <2> DEFINE g == [n \in 0..k + 1 |-> IF n = 0 THEN from ELSE MinOn(t, f[n - 1])]
    <2>2. \A n \in 0..k : g[n] = f[n]
      <3>1. \A n \in 0..k : f[n] = IF n = 0 THEN from ELSE MinOn(t, f[n - 1]) BY <2>1
      <3>2. \A n \in 0..k : n \in 0..k + 1 OBVIOUS
      <3> HIDE <2>1
      <3> QED BY <3>1, <3>2
    <2>3. \A n \in 0..k + 1 : n # 0 => n - 1 \in 0..k OBVIOUS
    <2>4. \A n \in 0..k + 1 : n # 0 => g[n - 1] = f[n - 1] BY <2>2, <2>3
    <2>5. g = [n \in 0..k + 1 |-> IF n = 0 THEN from ELSE MinOn(t, g[n - 1])]
      BY <2>4
    <2> HIDE DEF g
    <2>6. Runs(g, k + 1) BY <2>5
    <2> HIDE DEF Runs
    <2>7. \E e : Runs(e, k + 1) BY <2>6
    <2> QED BY <2>7
  <1> HIDE DEF Runs
  <1>3. Nat \subseteq S BY <1>1, <1>2, Inductive
  <1>4. \E f : Runs(f, m) BY <1>3
  <1> DEFINE f == CHOOSE f : Runs(f, m)
  <1>5. Runs(f, m) BY <1>4
  <1>6. MinNode(t, anc, start) = f[m] BY DEF MinNode, Runs, MinOn
  <1> HIDE DEF f
  <1>7. f = [n \in 0..m |-> IF n = 0 THEN from ELSE MinOn(t, f[n - 1])]
    BY <1>5 DEF Runs
  <1>8. f[0] = from BY <1>7
  <1>9. \A n \in 1..m : n \in 0..m /\ n # 0 OBVIOUS
  <1>10. \A n \in 1..m : f[n] = MinOn(t, f[n - 1]) BY <1>7, <1>9
  <1> QED BY <1>6, <1>8, <1>10

(* lowerBound's way down runs. *)
LEMMA ToRuns ==
  ASSUME NEW t, NEW key, Cardinality(t.nodes) \in Nat
  PROVE  \E f : /\ f[0] = [cursor |-> Root(t), ancestors |-> << >>]
                /\ WayTo(t, key) = f[Cardinality(t.nodes)]
                /\ \A n \in 1..Cardinality(t.nodes) : f[n] = ToOn(t, key, f[n - 1])
  <1> DEFINE m == Cardinality(t.nodes)
             from == [cursor |-> Root(t), ancestors |-> << >>]
             Runs(f, k) == f = [n \in 0..k |-> IF n = 0 THEN from ELSE ToOn(t, key, f[n - 1])]
             S == {k \in Nat : \E f : Runs(f, k)}
  <1>1. Runs([n \in 0..0 |-> from], 0) OBVIOUS
  <1>2. ASSUME NEW k \in Nat, k \in S PROVE k + 1 \in S
    <2>1. PICK f : Runs(f, k) BY <1>2
    <2> DEFINE g == [n \in 0..k + 1 |-> IF n = 0 THEN from ELSE ToOn(t, key, f[n - 1])]
    <2>2. \A n \in 0..k : g[n] = f[n]
      <3>1. \A n \in 0..k : f[n] = IF n = 0 THEN from ELSE ToOn(t, key, f[n - 1]) BY <2>1
      <3>2. \A n \in 0..k : n \in 0..k + 1 OBVIOUS
      <3> HIDE <2>1
      <3> QED BY <3>1, <3>2
    <2>3. \A n \in 0..k + 1 : n # 0 => n - 1 \in 0..k OBVIOUS
    <2>4. \A n \in 0..k + 1 : n # 0 => g[n - 1] = f[n - 1] BY <2>2, <2>3
    <2>5. g = [n \in 0..k + 1 |-> IF n = 0 THEN from ELSE ToOn(t, key, g[n - 1])]
      BY <2>4
    <2> HIDE DEF g
    <2>6. Runs(g, k + 1) BY <2>5
    <2> HIDE DEF Runs
    <2>7. \E e : Runs(e, k + 1) BY <2>6
    <2> QED BY <2>7
  <1> HIDE DEF Runs
  <1>3. Nat \subseteq S BY <1>1, <1>2, Inductive
  <1>4. \E f : Runs(f, m) BY <1>3
  <1> DEFINE f == CHOOSE f : Runs(f, m)
  <1>5. Runs(f, m) BY <1>4
  <1>6. WayTo(t, key) = f[m] BY DEF WayTo, Runs, ToOn
  <1> HIDE DEF f
  <1>7. f = [n \in 0..m |-> IF n = 0 THEN from ELSE ToOn(t, key, f[n - 1])]
    BY <1>5 DEF Runs
  <1>8. f[0] = from BY <1>7
  <1>9. \A n \in 1..m : n \in 0..m /\ n # 0 OBVIOUS
  <1>10. \A n \in 1..m : f[n] = ToOn(t, key, f[n - 1]) BY <1>7, <1>9
  <1> QED BY <1>6, <1>8, <1>10

(* And upperBound's. *)
LEMMA UpperRuns ==
  ASSUME NEW t, NEW key, Cardinality(t.nodes) \in Nat
  PROVE  \E f : /\ f[0] = LowerBound(t, key)
                /\ UpperBound(t, key) = f[Cardinality(t.nodes)]
                /\ \A n \in 1..Cardinality(t.nodes) : f[n] = UpperOn(t, key, f[n - 1])
  <1> DEFINE m == Cardinality(t.nodes)
             from == LowerBound(t, key)
             Runs(f, k) == f = [n \in 0..k |-> IF n = 0 THEN from ELSE UpperOn(t, key, f[n - 1])]
             S == {k \in Nat : \E f : Runs(f, k)}
  <1>1. Runs([n \in 0..0 |-> from], 0) OBVIOUS
  <1>2. ASSUME NEW k \in Nat, k \in S PROVE k + 1 \in S
    <2>1. PICK f : Runs(f, k) BY <1>2
    <2> DEFINE g == [n \in 0..k + 1 |-> IF n = 0 THEN from ELSE UpperOn(t, key, f[n - 1])]
    <2>2. \A n \in 0..k : g[n] = f[n]
      <3>1. \A n \in 0..k : f[n] = IF n = 0 THEN from ELSE UpperOn(t, key, f[n - 1]) BY <2>1
      <3>2. \A n \in 0..k : n \in 0..k + 1 OBVIOUS
      <3> HIDE <2>1
      <3> QED BY <3>1, <3>2
    <2>3. \A n \in 0..k + 1 : n # 0 => n - 1 \in 0..k OBVIOUS
    <2>4. \A n \in 0..k + 1 : n # 0 => g[n - 1] = f[n - 1] BY <2>2, <2>3
    <2>5. g = [n \in 0..k + 1 |-> IF n = 0 THEN from ELSE UpperOn(t, key, g[n - 1])]
      BY <2>4
    <2> HIDE DEF g
    <2>6. Runs(g, k + 1) BY <2>5
    <2> HIDE DEF Runs
    <2>7. \E e : Runs(e, k + 1) BY <2>6
    <2> QED BY <2>7
  <1> HIDE DEF Runs
  <1>3. Nat \subseteq S BY <1>1, <1>2, Inductive
  <1>4. \E f : Runs(f, m) BY <1>3
  <1> DEFINE f == CHOOSE f : Runs(f, m)
  <1>5. Runs(f, m) BY <1>4
  <1>6. UpperBound(t, key) = f[m] BY DEF UpperBound, Runs, UpperOn
  <1> HIDE DEF f
  <1>7. f = [n \in 0..m |-> IF n = 0 THEN from ELSE UpperOn(t, key, f[n - 1])]
    BY <1>5 DEF Runs
  <1>8. f[0] = from BY <1>7
  <1>9. \A n \in 1..m : n \in 0..m /\ n # 0 OBVIOUS
  <1>10. \A n \in 1..m : f[n] = UpperOn(t, key, f[n - 1]) BY <1>7, <1>9
  <1> QED BY <1>6, <1>8, <1>10

(* A set of numbers with a bound has a greatest one. *)
LEMMA Greatest ==
  ASSUME NEW m \in Nat, NEW H \in SUBSET (1..m), H # {}
  PROVE  (CHOOSE i \in H : \A j \in H : j <= i) \in H
         /\ \A j \in H : j <= (CHOOSE i \in H : \A j1 \in H : j1 <= i)
  <1> DEFINE S == {b \in Nat : \A G \in SUBSET (1..b) : G # {} => \E i \in G : \A j \in G : j <= i}
  <1>1. 0 \in S
    <2>1. \A G \in SUBSET (1..0) : G = {} OBVIOUS
    <2> QED BY <2>1
  <1>2. ASSUME NEW b \in Nat, b \in S PROVE b + 1 \in S
    <2> SUFFICES ASSUME NEW G \in SUBSET (1..b + 1), G # {}
                 PROVE  \E i \in G : \A j \in G : j <= i
      OBVIOUS
    <2>1. CASE b + 1 \in G BY <2>1
    <2>2. CASE b + 1 \notin G
      <3>1. G \in SUBSET (1..b) BY <2>2
      <3> QED BY <1>2, <3>1
    <2> QED BY <2>1, <2>2
  <1> HIDE DEF S
  <1>3. Nat \subseteq S BY <1>1, <1>2, Inductive
  <1>4. m \in S BY <1>3
  <1>5. \E i \in H : \A j \in H : j <= i BY <1>4 DEF S
  <1> QED BY <1>5

(* What a way is, node by node. *)
LEMMA WayAt ==
  ASSUME NEW t, NEW I, NEW w, Way(t, I, w)
  PROVE  /\ w \in Seq(KeysOf(t)) /\ Len(w) \in Nat /\ Len(w) >= 1 /\ w[1] = Root(t)
         /\ \A k \in 1..Len(w) : w[k] \in KeysOf(t)
         /\ \A k \in 1..Len(w) - 1 : \E d \in Dir : t.child[<<w[k], d>>] = w[k + 1]
         /\ \A k \in 1..Len(w) : \A j \in 1..k : I[w[k]] \subseteq I[w[j]]
  <1> DEFINE P == KeysOf(t)
  <1>1. w \in Seq(P) /\ w # << >> BY DEF Way
  <1> HIDE DEF P
  <1>2. Len(w) \in Nat /\ Len(w) >= 1 BY <1>1
  <1>3. \A k \in 1..Len(w) : w[k] \in P BY <1>1
  <1> QED BY <1>1, <1>2, <1>3 DEF Way, P

(* A key that lies between the one sought and all the nodes of the way that *)
(* are greater, from some node on, is under every node from there on.       *)
LEMMA Descend ==
  ASSUME NEW t, NEW I, Spanned(t, I), NEW w, Way(t, I, w), NEW key \in Point,
         key \in I[w[Len(w)]], NEW z \in KeysOf(t), Less(key, z), NEW a \in 1..Len(w),
         z \in I[w[a]], \A j \in a..Len(w) - 1 : Less(key, w[j]) => Less(z, w[j])
  PROVE  z \in I[w[Len(w)]]
  <1> DEFINE m == Len(w)
             P == KeysOf(t)
             S == {j \in Nat : a <= j /\ j <= m => z \in I[w[j]]}
  <1>1. /\ w \in Seq(P) /\ m \in Nat /\ \A k \in 1..m : w[k] \in P
        /\ \A k \in 1..m - 1 : \E d \in Dir : t.child[<<w[k], d>>] = w[k + 1]
        /\ \A k \in 1..m : \A j \in 1..k : I[w[k]] \subseteq I[w[j]]
    BY WayAt
  <1>2. z \in Point BY KeyAt
  <1>3. 0 \in S OBVIOUS
  <1>4. ASSUME NEW j \in Nat, j \in S PROVE j + 1 \in S
    <2> SUFFICES ASSUME a <= j + 1, j + 1 <= m PROVE z \in I[w[j + 1]]
      OBVIOUS
    <2>1. CASE j + 1 = a BY <2>1
    <2>2. CASE j + 1 # a
      <3>1. a <= j /\ j <= m /\ j \in 1..m - 1 /\ j \in a..m - 1 /\ j \in 1..m /\ j + 1 \in 1..m
            /\ m \in 1..m /\ j + 1 \in 1..m
        BY <1>1, <2>2
      <3>2. z \in I[w[j]] BY <1>4, <3>1
      <3> DEFINE x == w[j]
                 c == w[j + 1]
      <3>3. PICK d \in Dir : t.child[<<x, d>>] = c BY <1>1, <3>1
      <3>4. x \in P /\ c \in P /\ c # Nil BY <1>1, <3>1, KeyAt
      <3>5. x \in Point /\ I[c] = I[x] \cap Beside(x, d) BY <3>3, <3>4, KeyAt
      <3>6. key \in I[c] BY <1>1, <3>1
      <3>7. Less(key, x) => Less(z, x) BY <3>1
      <3> HIDE DEF x, c
      <3>8. z \in Beside(x, d)
        <4>1. key \in Beside(x, d) BY <3>5, <3>6
        <4>2. CASE d = "left"
          <5>1. Less(key, x) BY <3>5, <4>1, <4>2, LessOrder
          <5> QED BY <1>2, <3>5, <3>7, <4>2, <5>1, LessOrder
        <4>3. CASE d = "right"
          <5>1. Less(x, key) BY <3>5, <4>1, <4>3, LessOrder
          <5>2. Less(x, z) BY <1>2, <3>5, <5>1, LessOrder
          <5> QED BY <1>2, <3>5, <4>3, <5>2, LessOrder
        <4> QED BY <4>2, <4>3 DEF Dir
      <3>9. z \in I[x] BY <3>2 DEF x
      <3>10. z \in I[c] BY <3>5, <3>8, <3>9
      <3> QED BY <3>10 DEF c
    <2> QED BY <2>1, <2>2
  <1>5. m \in S
    <2> HIDE DEF S
    <2>1. Nat \subseteq S BY <1>3, <1>4, Inductive
    <2> QED BY <1>1, <2>1
  <1>6. a <= m BY <1>1
  <1> QED BY <1>1, <1>5, <1>6

(* The keys that are greater than key. *)
Beyond(t, key) == {z \in KeysOf(t) : Less(key, z)}

(* Going back up the way to the last node greater than key is going to the  *)
(* least key that is, when the last node of the way has none below it that  *)
(* is nearer.                                                               *)
LEMMA BackUp ==
  ASSUME NEW t, NEW I, Spanned(t, I), NEW w, Way(t, I, w), NEW key \in Point,
         key \in I[w[Len(w)]],
         \A z \in KeysOf(t) : z \in I[w[Len(w)]] /\ Less(key, z)
            => Less(key, w[Len(w)]) /\ (z = w[Len(w)] \/ Less(w[Len(w)], z))
  PROVE  Reaches(t, I, BackTo(w, {k \in 1..Len(w) : Less(key, w[k])}), Beyond(t, key))
  <1> DEFINE m == Len(w)
             P == KeysOf(t)
             H == {k \in 1..m : Less(key, w[k])}
             r == BackTo(w, H)
  <1>1. /\ w \in Seq(P) /\ m \in Nat /\ m >= 1 /\ (\A k \in 1..m : w[k] \in P) /\ w[1] = Root(t)
        /\ \A k \in 1..m - 1 : \E d \in Dir : t.child[<<w[k], d>>] = w[k + 1]
        /\ \A k \in 1..m : \A j \in 1..k : I[w[k]] \subseteq I[w[j]]
    BY WayAt
  <1>2. H \in SUBSET (1..m) OBVIOUS
  <1>3. \A z \in P : z \in Point /\ z # Nil BY KeyAt
  <1>4. ASSUME NEW z \in P, Less(key, z), NEW a \in 1..m, z \in I[w[a]],
               \A j \in a..m - 1 : Less(key, w[j]) => Less(z, w[j])
        PROVE  Less(key, w[m]) /\ (z = w[m] \/ Less(w[m], z))
    <2>1. z \in I[w[m]] BY <1>4, Descend
    <2> QED BY <1>4, <2>1
  <1>5. CASE H = {}
    <2>1. r = NoIterator BY <1>5 DEF BackTo
    <2>2. ASSUME NEW z \in P, Less(key, z) PROVE FALSE
      <3>1. Root(t) # Nil BY <1>1, <1>3
      <3>2. 1 \in 1..m /\ m \in 1..m BY <1>1
      <3>3. z \in I[w[1]] BY <1>1, <1>3, <3>1, RootAt
      <3>4. \A j \in 1..m - 1 : ~Less(key, w[j])
        <4>1. \A j \in 1..m - 1 : j \in 1..m BY <1>1
        <4> QED BY <1>5, <4>1
      <3>5. Less(key, w[m]) BY <1>4, <2>2, <3>2, <3>3, <3>4
      <3> QED BY <1>5, <3>2, <3>5
    <2>3. Beyond(t, key) = {} BY <2>2 DEF Beyond
    <2> HIDE DEF r
    <2> QED BY <2>1, <2>3 DEF Reaches, r
  <1>6. CASE H # {}
    <2> DEFINE k == CHOOSE i \in H : \A j \in H : j <= i
               y == w[k]
               anc == SubSeq(w, 1, k - 1)
    <2>1. k \in H /\ \A j \in H : j <= k BY <1>1, <1>2, <1>6, Greatest
    <2>2. r = [cursor |-> y, ancestors |-> anc] BY <1>6 DEF BackTo
    <2> HIDE DEF k, r, H
    <2>3. k \in 1..m /\ Less(key, y) BY <2>1 DEF H
    <2>4. y \in P /\ y \in Point BY <1>1, <1>3, <2>3
    <2>5. /\ anc \in Seq(P) /\ Len(anc) = k - 1 /\ \A j \in 1..k - 1 : anc[j] = w[j]
      <3>1. k - 1 \in Nat /\ k - 1 <= m BY <2>3
      <3>2. \A j \in 1..k - 1 : w[j] \in P BY <1>1, <2>3
      <3> QED BY <1>1, <3>1, <3>2
    <2>6. IsIter(t, I, r)
      <3> DEFINE v == Append(anc, y)
      <3> HIDE DEF anc, y
      <3>1. v \in Seq(P) /\ Len(v) = k /\ \A j \in 1..k : v[j] = w[j]
        <4>1. v \in Seq(P) /\ Len(v) = k /\ v[k] = y /\ \A j \in 1..k - 1 : v[j] = anc[j]
          BY <2>3, <2>4, <2>5
        <4>2. \A j \in 1..k : j = k \/ j \in 1..k - 1 BY <2>3
        <4> HIDE DEF v
        <4> QED BY <2>5, <4>1, <4>2 DEF y
      <3> HIDE DEF v
      <3>2. v # << >> /\ v[1] = Root(t) BY <1>1, <2>3, <3>1
      <3>3. \A j \in 1..Len(v) - 1 : \E d \in Dir : t.child[<<v[j], d>>] = v[j + 1]
        <4> SUFFICES ASSUME NEW j \in 1..k - 1 PROVE \E d \in Dir : t.child[<<v[j], d>>] = v[j + 1]
          BY <3>1
        <4>1. j \in 1..k /\ j + 1 \in 1..k /\ j \in 1..m - 1 BY <1>1, <2>3
        <4> QED BY <1>1, <3>1, <4>1
      <3>4. \A i \in 1..Len(v) : \A j \in 1..i : I[v[i]] \subseteq I[v[j]]
        <4> SUFFICES ASSUME NEW i \in 1..k, NEW j \in 1..i PROVE I[v[i]] \subseteq I[v[j]]
          BY <3>1
        <4>1. j \in 1..k /\ i \in 1..m BY <1>1, <2>3
        <4> QED BY <1>1, <3>1, <4>1
      <3>5. Way(t, I, v) BY <3>1, <3>2, <3>3, <3>4 DEF Way
      <3>6. r.cursor = y /\ r.ancestors = anc BY <2>2
      <3> QED BY <2>2, <2>4, <2>5, <3>5, <3>6 DEF IsIter, v
    <2>7. ASSUME NEW z \in P, Less(key, z) PROVE z = y \/ Less(y, z)
      <3> SUFFICES ASSUME Less(z, y) PROVE FALSE
        BY <1>3, <2>4, LessOrder
      <3>1. z \in I[y]
        <4>1. m \in 1..m /\ k \in 1..m BY <1>1, <2>3
        <4>2. key \in I[y] BY <1>1, <4>1, <2>3
        <4>3. y \in I[y] BY <2>4, KeyAt
        <4>4. z \in Beside(key, "right") /\ z \in Beside(y, "left")
          BY <1>3, <2>4, <2>7, LessOrder
        <4>5. Shape(t.nodes, t.child) /\ Spans(t.nodes, t.child, I) /\ y \in t.nodes
          BY <2>4, KeyAt DEF Spanned, IsTree
        <4> QED BY <4>2, <4>3, <4>4, <4>5, Convex
      <3>2. \A j \in k..m - 1 : Less(key, w[j]) => Less(z, w[j])
        <4> SUFFICES ASSUME NEW j \in k..m - 1, Less(key, w[j]) PROVE Less(z, w[j])
          OBVIOUS
        <4>1. j \in 1..m /\ k <= j /\ j \in Nat /\ k \in Nat BY <1>1, <2>3
        <4>2. j <= k BY <2>1, <4>1 DEF H
        <4>3. j = k BY <4>1, <4>2
        <4> QED BY <4>3
      <3>3. Less(key, w[m]) /\ (z = w[m] \/ Less(w[m], z)) BY <1>4, <2>3, <2>7, <3>1, <3>2
      <3>4. m = k
        <4>1. m \in 1..m BY <1>1
        <4>2. m <= k BY <2>1, <3>3, <4>1 DEF H
        <4> QED BY <1>1, <2>3, <4>2
      <3> QED BY <1>3, <2>4, <3>3, <3>4, LessOrder
    <2>8. r.cursor = y BY <2>2
    <2> HIDE DEF y
    <2>9. r.cursor \in Beyond(t, key) BY <2>3, <2>4, <2>8 DEF Beyond
    <2>10. \A z \in Beyond(t, key) : z = r.cursor \/ Less(r.cursor, z) BY <2>7, <2>8 DEF Beyond
    <2>11. Reaches(t, I, r, Beyond(t, key)) BY <2>6, <2>9, <2>10 DEF Reaches
    <2> QED BY <2>11 DEF r, H
  <1> QED BY <1>5, <1>6

(* Where MinNode is after n passes: the keys that are less than its cursor  *)
(* are below that.                                                          *)
MinInv(t, I, start, i, n) ==
  /\ IsIter(t, I, i) /\ i.cursor \in I[start]
  /\ \A z \in KeysOf(t) : z \in I[start] => z \in I[i.cursor] \/ Less(i.cursor, z)
  /\ t.child[<<i.cursor, "left">>] # Nil =>
       n + Cardinality(KeysOf(t) \cap I[i.cursor]) <= Cardinality(t.nodes)

(* A pass goes down to the left. *)
LEMMA MinStep ==
  ASSUME NEW t, NEW I, Spanned(t, I), NEW start \in KeysOf(t), NEW i, NEW n \in Nat,
         MinInv(t, I, start, i, n)
  PROVE  MinInv(t, I, start, MinOn(t, i), n + 1)
  <1> DEFINE P == KeysOf(t)
             c == i.cursor
             e == t.child[<<c, "left">>]
             r == MinOn(t, i)
  <1>0. "left" \in Dir BY DEF Dir
  <1>1. /\ IsIter(t, I, i) /\ c \in I[start]
        /\ \A z \in P : z \in I[start] => z \in I[c] \/ Less(c, z)
        /\ e # Nil => n + Cardinality(P \cap I[c]) <= Cardinality(t.nodes)
    BY DEF MinInv
  <1>2. c \in P /\ i.ancestors \in Seq(P) /\ Way(t, I, Append(i.ancestors, c))
    BY <1>1 DEF IsIter
  <1>3. CASE e = Nil
    <2>1. r = i BY <1>3 DEF MinOn
    <2> HIDE DEF r
    <2>2. MinInv(t, I, start, r, n + 1) BY <1>1, <1>3, <2>1 DEF MinInv
    <2> QED BY <2>2 DEF r
  <1>4. CASE e # Nil
    <2>1. r = [cursor |-> e, ancestors |-> Append(i.ancestors, c)] BY <1>4 DEF MinOn
    <2>2. r.cursor = e /\ r.ancestors = Append(i.ancestors, c) BY <2>1
    <2> HIDE DEF r
    <2>3. /\ Append(i.ancestors, c) \in Seq(P) /\ e \in P
          /\ Way(t, I, Append(Append(i.ancestors, c), e))
      BY <1>0, <1>2, <1>4, WayDown
    <2>4. IsIter(t, I, r) BY <2>1, <2>2, <2>3 DEF IsIter
    <2>5. e \in I[c] /\ I[e] = I[c] \cap Beside(c, "left") /\ c \in Point /\ c \in I[c]
      BY <1>0, <1>2, <1>4, KeyAt
    <2>6. e \in Point /\ e \in I[e] /\ start \in Point /\ \A z \in P : z \in Point
      BY <2>3, KeyAt
    <2>7. Less(e, c) BY <2>5, <2>6, LessOrder
    <2>8. e \in I[start]
      <3>1. ASSUME e \notin I[start] PROVE FALSE
        <4>1. Shape(t.nodes, t.child) /\ Spans(t.nodes, t.child, I) /\ KeysOf(t) = t.nodes \ {Fake}
          BY DEF Spanned, IsTree, KeysOf
        <4>2. e \in I[start] <=> start = e \/ c \in I[start]
          BY <1>0, <1>2, <1>4, <4>1, SpanStep
        <4> QED BY <1>1, <3>1, <4>2
      <3> QED BY <3>1
    <2>9. ASSUME NEW z \in P, z \in I[start] PROVE z \in I[e] \/ Less(e, z)
      <3>1. CASE Less(c, z) BY <2>5, <2>6, <2>7, <3>1, LessOrder
      <3>2. CASE z = c BY <2>7, <3>2
      <3>3. CASE z \in I[c] /\ z # c /\ ~Less(c, z)
        <4>1. Less(z, c) BY <2>5, <2>6, <3>3, LessOrder
        <4>2. z \in Beside(c, "left") BY <2>5, <2>6, <4>1, LessOrder
        <4> QED BY <2>5, <3>3, <4>2
      <3> QED BY <1>1, <2>9, <3>1, <3>2, <3>3
    <2>10. n + 1 + Cardinality(P \cap I[e]) <= Cardinality(t.nodes)
      <3>1. n + Cardinality(P \cap I[c]) <= Cardinality(t.nodes) BY <1>1, <1>4
      <3>2. IsFiniteSet(P \cap I[c])
        <4>1. IsFiniteSet(t.nodes) /\ P \cap I[c] \subseteq t.nodes BY RootAt
        <4> QED BY <4>1, FS_Subset
      <3>3. P \cap I[e] \in SUBSET (P \cap I[c]) /\ c \in P \cap I[c] BY <1>2, <2>5
      <3>4. c \notin P \cap I[e]
        <4>1. c \notin Beside(c, "left") BY <1>0, <2>5, Sides
        <4> QED BY <2>5, <4>1
      <3>5. /\ Cardinality(P \cap I[e]) \in Nat /\ Cardinality(P \cap I[c]) \in Nat
            /\ Cardinality(P \cap I[e]) + 1 <= Cardinality(P \cap I[c])
        BY <3>2, <3>3, <3>4, Shrinks
      <3>6. Cardinality(t.nodes) \in Nat BY RootAt, FS_CardinalityType
      <3> QED BY <3>1, <3>5, <3>6
    <2> HIDE DEF c, e
    <2>11. MinInv(t, I, start, r, n + 1) BY <2>2, <2>4, <2>8, <2>9, <2>10 DEF MinInv
    <2> QED BY <2>11 DEF r
  <1> QED BY <1>3, <1>4

(* minNode goes to the least key below start (338-344). *)
LEMMA MinNodeAt ==
  ASSUME NEW t, NEW I, Spanned(t, I), NEW start \in KeysOf(t), NEW anc \in Seq(KeysOf(t)),
         Way(t, I, Append(anc, start))
  PROVE  Reaches(t, I, MinNode(t, anc, start), KeysOf(t) \cap I[start])
  <1> DEFINE P == KeysOf(t)
             m == Cardinality(t.nodes)
             from == [cursor |-> start, ancestors |-> anc]
  <1>1. IsFiniteSet(t.nodes) /\ Fake \in t.nodes /\ P = t.nodes \ {Fake} BY RootAt
  <1>2. m \in Nat BY <1>1, FS_CardinalityType
  <1>3. PICK f : /\ f[0] = from /\ MinNode(t, anc, start) = f[m]
                 /\ \A n \in 1..m : f[n] = MinOn(t, f[n - 1])
    <2>1. Cardinality(t.nodes) \in Nat BY <1>2
    <2> HIDE DEF P
    <2> QED BY ONLY <2>1, MinRuns, SMTT(30) DEF m, from
  <1>4. MinInv(t, I, start, f[0], 0)
    <2>1. f[0] = from /\ from.cursor = start /\ from.ancestors = anc BY <1>3
    <2>2. IsIter(t, I, from) BY <2>1 DEF IsIter
    <2>3. start \in I[start] BY KeyAt
    <2>4. 0 + Cardinality(P \cap I[start]) <= m
      <3>1. P \cap I[start] \subseteq t.nodes BY <1>1
      <3>2. /\ Cardinality(P \cap I[start]) \in Nat
            /\ Cardinality(P \cap I[start]) <= Cardinality(t.nodes)
        BY <1>1, <3>1, FS_Subset, FS_CardinalityType
      <3> QED BY <3>2
    <2> HIDE DEF from
    <2> QED BY <2>1, <2>2, <2>3, <2>4 DEF MinInv
  <1> HIDE DEF from
  <1> DEFINE S == {n \in Nat : n <= m => MinInv(t, I, start, f[n], n)}
  <1>5. 0 \in S BY <1>4
  <1>6. ASSUME NEW n \in Nat, n \in S PROVE n + 1 \in S
    <2> SUFFICES ASSUME n + 1 <= m PROVE MinInv(t, I, start, f[n + 1], n + 1)
      OBVIOUS
    <2>1. n <= m /\ n + 1 \in 1..m /\ (n + 1) - 1 = n BY <1>2
    <2>2. MinInv(t, I, start, f[n], n) BY <1>6, <2>1
    <2>3. f[n + 1] = MinOn(t, f[n]) BY <1>3, <2>1
    <2>4. MinInv(t, I, start, MinOn(t, f[n]), n + 1) BY <2>2, MinStep
    <2> QED BY <2>3, <2>4
  <1>7. m \in S
    <2> HIDE DEF S
    <2>1. Nat \subseteq S BY <1>5, <1>6, Inductive
    <2> QED BY <1>2, <2>1
  <1> DEFINE i == MinNode(t, anc, start)
             c == i.cursor
  <1>8. MinInv(t, I, start, i, m) BY <1>2, <1>3, <1>7
  <1> HIDE DEF i
  <1>9. /\ IsIter(t, I, i) /\ c \in I[start] /\ c \in P
        /\ \A z \in P : z \in I[start] => z \in I[c] \/ Less(c, z)
        /\ t.child[<<c, "left">>] # Nil => m + Cardinality(P \cap I[c]) <= m
    BY <1>8 DEF MinInv, IsIter
  <1>10. c \in Point /\ c \in I[c] /\ \A z \in P : z \in Point BY <1>9, KeyAt
  <1>11. t.child[<<c, "left">>] = Nil
    <2> DEFINE W == P \cap I[c]
    <2>1. IsFiniteSet(W)
      <3>1. W \subseteq t.nodes BY <1>1
      <3> QED BY <1>1, <3>1, FS_Subset
    <2>2. c \in W BY <1>9, <1>10
    <2> HIDE DEF W
    <2>3. /\ Cardinality({}) \in Nat /\ Cardinality(W) \in Nat
          /\ Cardinality({}) + 1 <= Cardinality(W)
      BY <2>1, <2>2, Shrinks
    <2> QED BY <1>2, <1>9, <2>3 DEF W
  <1>12. ASSUME NEW z \in P, z \in I[start] PROVE z = c \/ Less(c, z)
    <2> SUFFICES ASSUME z # c, ~Less(c, z) PROVE FALSE
      OBVIOUS
    <2>1. z \in I[c] /\ z \in Beside(c, "left") BY <1>9, <1>10, <1>12, LessOrder
    <2>2. "left" \in Dir BY DEF Dir
    <2> QED BY <1>9, <1>11, <2>1, <2>2, KeyAt
  <1>13. Reaches(t, I, i, P \cap I[start]) BY <1>9, <1>12 DEF Reaches
  <1> QED BY <1>13 DEF i

(* next goes to the least greater key (308-335). *)
LEMMA NextOfAt ==
  ASSUME NEW t, NEW I, Spanned(t, I), NEW i, IsIter(t, I, i)
  PROVE  Reaches(t, I, NextOf(t, i), Beyond(t, i.cursor))
  <1> DEFINE P == KeysOf(t)
             c == i.cursor
             anc == i.ancestors
             n == Len(anc)
             w == Append(anc, c)
             right == t.child[<<c, "right">>]
             r == NextOf(t, i)
  <1>1. c \in P /\ anc \in Seq(P) /\ Way(t, I, w) BY DEF IsIter
  <1>2. "left" \in Dir /\ "right" \in Dir /\ \A d \in Dir : d = "left" \/ d = "right" BY DEF Dir
  <1>3. c \in Point /\ c # Nil /\ c \in I[c] /\ \A z \in P : z \in Point /\ z # Nil BY <1>1, KeyAt
  <1>4. CASE right # Nil
    <2>1. r = MinNode(t, w, right) BY <1>3, <1>4 DEF NextOf
    <2>2. w \in Seq(P) /\ right \in P /\ Way(t, I, Append(w, right))
      BY <1>1, <1>2, <1>4, WayDown
    <2>3. I[right] = I[c] \cap Beside(c, "right") BY <1>1, <1>2, <1>4, KeyAt
    <2> HIDE DEF w, right, r, c
    <2>4. Reaches(t, I, r, P \cap I[right]) BY <2>1, <2>2, MinNodeAt
    <2>5. right \in I[right] BY <2>2, KeyAt
    <2> DEFINE m == r.cursor
    <2>6. IsIter(t, I, r) /\ m \in P /\ m \in I[right] /\ \A z \in P \cap I[right] : z = m \/ Less(m, z)
      BY <2>2, <2>4, <2>5 DEF Reaches
    <2> HIDE DEF m
    <2>7. m \in I[c] /\ Less(c, m) BY <1>3, <2>3, <2>6, LessOrder
    <2>8. ASSUME NEW z \in P, Less(c, z) PROVE z = m \/ Less(m, z)
      <3> SUFFICES ASSUME Less(z, m) PROVE FALSE
        BY <1>3, <2>6, LessOrder
      <3>1. z \in Beside(c, "right") /\ z \in Beside(m, "left") BY <1>3, <2>6, <2>8, LessOrder
      <3>2. Shape(t.nodes, t.child) /\ Spans(t.nodes, t.child, I) /\ c \in t.nodes
        BY <1>1, KeyAt DEF Spanned, IsTree
      <3>3. z \in I[c] BY <1>3, <2>7, <3>1, <3>2, Convex
      <3>4. z = m \/ Less(m, z) BY <2>3, <2>6, <3>1, <3>3
      <3> QED BY <1>3, <2>6, <3>4, LessOrder
    <2>9. m \in Beyond(t, c) BY <2>6, <2>7 DEF Beyond
    <2>10. \A z \in Beyond(t, c) : z = m \/ Less(m, z) BY <2>8 DEF Beyond
    <2>11. Reaches(t, I, r, Beyond(t, c)) BY <2>6, <2>9, <2>10 DEF Reaches, m
    <2> QED BY <2>11 DEF r, c
  <1>5. CASE right = Nil
    <2> DEFINE H == {k \in 1..n : t.child[<<w[k], "right">>] # w[k + 1]}
               G == {k \in 1..Len(w) : Less(c, w[k])}
    <2>1. r = BackTo(anc, H) BY <1>3, <1>5 DEF NextOf
    <2>2. /\ n \in Nat /\ w \in Seq(P) /\ Len(w) = n + 1 /\ w[n + 1] = c
          /\ \A k \in 1..n : w[k] = anc[k]
      BY <1>1
    <2>3. /\ \A k \in 1..Len(w) : w[k] \in P
          /\ \A k \in 1..Len(w) - 1 : \E d \in Dir : t.child[<<w[k], d>>] = w[k + 1]
          /\ \A k \in 1..Len(w) : \A j \in 1..k : I[w[k]] \subseteq I[w[j]]
      <3>1. Way(t, I, w) BY <1>1
      <3> HIDE DEF w, P
      <3> QED BY ONLY <3>1, WayAt DEF P
    <2> HIDE DEF w, anc, r, c, n
    <2>4. H = G
      <3>1. ASSUME NEW k \in 1..n PROVE t.child[<<w[k], "right">>] # w[k + 1] <=> Less(c, w[k])
        <4>1. k \in 1..Len(w) - 1 /\ k \in 1..Len(w) /\ k + 1 \in 1..Len(w) /\ n + 1 \in 1..Len(w)
              /\ k + 1 \in 1..n + 1
          BY <2>2, <3>1
        <4> DEFINE x == w[k]
                   y == w[k + 1]
        <4>2. PICK d \in Dir : t.child[<<x, d>>] = y BY <2>3, <4>1
        <4>3. x \in P /\ y \in P BY <2>3, <4>1
        <4>4. c \in I[y] BY <1>3, <2>2, <2>3, <4>1
        <4> HIDE DEF x, y
        <4>5. x \in Point /\ y # Nil /\ x # Nil /\ y \in Point BY <1>3, <4>3
        <4>6. I[y] = I[x] \cap Beside(x, d) /\ y \in I[y] BY <4>2, <4>3, <4>5, KeyAt
        <4>7. c \in Beside(x, d) /\ y \in Beside(x, d) BY <4>4, <4>6
        <4>8. CASE d = "right"
          <5>1. Less(x, c) BY <1>3, <4>5, <4>7, <4>8, LessOrder
          <5>2. ~Less(c, x) BY <1>3, <4>5, <5>1, LessOrder
          <5> QED BY <4>2, <4>8, <5>2 DEF x, y
        <4>9. CASE d = "left"
          <5>1. Less(c, x) BY <1>3, <4>5, <4>7, <4>9, LessOrder
          <5>2. t.child[<<x, "right">>] # y
            <6> SUFFICES ASSUME t.child[<<x, "right">>] = y PROVE FALSE
              OBVIOUS
            <6>1. y \in Beside(x, "right")
              <7>1. I[y] = I[x] \cap Beside(x, "right") BY <1>2, <4>3, <4>5, KeyAt
              <7> QED BY <4>6, <7>1
            <6>2. Less(x, y) /\ Less(y, x) BY <4>5, <4>7, <4>9, <6>1, LessOrder
            <6> QED BY <4>5, <6>2, LessOrder
          <5> QED BY <5>1, <5>2 DEF x, y
        <4> QED BY <1>2, <4>8, <4>9
      <3>2. ~Less(c, w[n + 1]) BY <1>3, <2>2, LessOrder
      <3>3. 1..Len(w) = (1..n) \cup {n + 1} BY <2>2
      <3> QED BY <3>1, <3>2, <3>3
    <2>5. BackTo(anc, H) = BackTo(w, H)
      <3>1. CASE H = {} BY <3>1 DEF BackTo
      <3>2. CASE H # {}
        <4> DEFINE k == CHOOSE j \in H : \A j1 \in H : j1 <= j
        <4>1. H \in SUBSET (1..n) OBVIOUS
        <4>2. k \in H BY <2>2, <3>2, <4>1, Greatest
        <4>3. BackTo(anc, H) = [cursor |-> anc[k], ancestors |-> SubSeq(anc, 1, k - 1)]
          BY <3>2 DEF BackTo
        <4>4. BackTo(w, H) = [cursor |-> w[k], ancestors |-> SubSeq(w, 1, k - 1)]
          BY <3>2 DEF BackTo
        <4>5. k \in 1..n BY <4>1, <4>2
        <4> HIDE DEF k, H
        <4>6. SubSeq(anc, 1, k - 1) = SubSeq(w, 1, k - 1)
          <5> DEFINE a == SubSeq(anc, 1, k - 1)
                     b == SubSeq(w, 1, k - 1)
          <5>1. \A j \in 1..k - 1 : anc[j] = w[j] BY <2>2, <4>5
          <5>2. /\ a \in Seq(P) /\ Len(a) = k - 1 /\ \A j \in 1..k - 1 : a[j] = anc[j]
            <6>1. k - 1 \in Nat /\ k - 1 <= n BY <2>2, <4>5
            <6>2. \A j \in 1..k - 1 : anc[j] \in P BY <1>1, <4>5 DEF n
            <6> QED BY <1>1, <6>1, <6>2 DEF n
          <5>3. /\ b \in Seq(P) /\ Len(b) = k - 1 /\ \A j \in 1..k - 1 : b[j] = w[j]
            <6>1. k - 1 \in Nat /\ k - 1 <= Len(w) BY <2>2, <4>5
            <6>2. \A j \in 1..k - 1 : w[j] \in P BY <2>2, <2>3, <4>5
            <6> QED BY <2>2, <6>1, <6>2
          <5> HIDE DEF a, b
          <5>4. a = b BY <5>1, <5>2, <5>3
          <5> QED BY <5>4 DEF a, b
        <4> QED BY <2>2, <4>3, <4>4, <4>5, <4>6
      <3> QED BY <3>1, <3>2
    <2>6. r = BackTo(w, G) BY <2>1, <2>4, <2>5
    <2>7. c \in I[w[Len(w)]] BY <1>3, <2>2
    <2>8. \A z \in P : ~(z \in I[w[Len(w)]] /\ Less(c, z))
      <3> SUFFICES ASSUME NEW z \in P, z \in I[c], Less(c, z) PROVE FALSE
        BY <2>2
      <3>1. z \in Beside(c, "right") BY <1>3, LessOrder
      <3>2. t.child[<<c, "right">>] = Nil BY <1>5
      <3> QED BY <1>1, <1>2, <3>1, <3>2, KeyAt
    <2>9. Reaches(t, I, BackTo(w, G), Beyond(t, c)) BY <1>1, <1>3, <2>7, <2>8, BackUp
    <2>10. Reaches(t, I, r, Beyond(t, c)) BY <2>6, <2>9
    <2> QED BY <2>10 DEF r, c
  <1> QED BY <1>4, <1>5

(* Where the way down to key is after n passes: at a node that may have the *)
(* key below it, or past the last one of the way.                           *)
ToInv(t, I, key, i, n) ==
  /\ i = [cursor |-> i.cursor, ancestors |-> i.ancestors]
  /\ \/ /\ IsIter(t, I, i) /\ key \in I[i.cursor]
        /\ i.cursor = key \/ n + Cardinality(KeysOf(t) \cap I[i.cursor]) <= Cardinality(t.nodes)
     \/ i.cursor = Nil /\ i.ancestors = << >> /\ KeysOf(t) = {}
     \/ /\ i.cursor = Nil /\ Way(t, I, i.ancestors)
        /\ \E q \in KeysOf(t) :
             /\ q = i.ancestors[Len(i.ancestors)] /\ q # key /\ key \in I[q]
             /\ t.child[<<q, Toward(q, key)>>] = Nil

(* A pass goes down towards the key. *)
LEMMA ToStep ==
  ASSUME NEW t, NEW I, Spanned(t, I), NEW key \in Point, NEW i, NEW n \in Nat,
         ToInv(t, I, key, i, n)
  PROVE  ToInv(t, I, key, ToOn(t, key, i), n + 1)
  <1> DEFINE P == KeysOf(t)
             c == i.cursor
             d == Toward(c, key)
             e == t.child[<<c, d>>]
             r == ToOn(t, key, i)
  <1>0. d \in Dir BY DEF Toward, Dir
  <1>1. CASE c \in {Nil, key}
    <2>1. r = i BY <1>1 DEF ToOn
    <2>2. key # Nil BY RBTreeAssumption
    <2>3. IsIter(t, I, i) => c # Nil BY KeyAt DEF IsIter
    <2> HIDE DEF r
    <2>4. ToInv(t, I, key, r, n + 1) BY <1>1, <2>1, <2>2, <2>3 DEF ToInv
    <2> QED BY <2>4 DEF r
  <1>2. CASE c \notin {Nil, key}
    <2>1. /\ IsIter(t, I, i) /\ key \in I[c] /\ n + Cardinality(P \cap I[c]) <= Cardinality(t.nodes)
      BY <1>2 DEF ToInv
    <2>2. /\ c \in P /\ i.ancestors \in Seq(P) /\ Way(t, I, Append(i.ancestors, c))
      BY <2>1 DEF IsIter
    <2>3. r = [cursor |-> e, ancestors |-> Append(i.ancestors, c)] BY <1>2 DEF ToOn
    <2>4. r.cursor = e /\ r.ancestors = Append(i.ancestors, c) BY <2>3
    <2>5. c \in Point /\ c \in I[c] BY <2>2, KeyAt
    <2>6. CASE e = Nil
      <3> DEFINE a == Append(i.ancestors, c)
      <3>1. a[Len(a)] = c BY <2>2
      <3> HIDE DEF r, a
      <3>2. r = [cursor |-> r.cursor, ancestors |-> r.ancestors] BY <2>3, <2>4
      <3>3. c = r.ancestors[Len(r.ancestors)] /\ Way(t, I, r.ancestors)
        BY <2>2, <2>4, <3>1 DEF a
      <3> HIDE DEF c
      <3>4. \E q \in P : /\ q = r.ancestors[Len(r.ancestors)] /\ q # key /\ key \in I[q]
                         /\ t.child[<<q, Toward(q, key)>>] = Nil
        BY <1>2, <2>1, <2>2, <2>6, <3>3
      <3>5. ToInv(t, I, key, r, n + 1) BY <2>4, <2>6, <3>2, <3>3, <3>4 DEF ToInv
      <3> QED BY <3>5 DEF r
    <2>7. CASE e # Nil
      <3> HIDE DEF r
      <3>1. /\ Append(i.ancestors, c) \in Seq(P) /\ e \in P
            /\ Way(t, I, Append(Append(i.ancestors, c), e))
        BY <1>0, <2>2, <2>7, WayDown
      <3>2. IsIter(t, I, r) BY <2>3, <2>4, <3>1 DEF IsIter
      <3>3. I[e] = I[c] \cap Beside(c, d) BY <1>0, <2>2, <2>7, KeyAt
      <3>4. key \in Beside(c, d) /\ c \notin Beside(c, d) BY <1>0, <1>2, <2>5, Sides
      <3>5. key \in I[e] BY <2>1, <3>3, <3>4
      <3>6. n + 1 + Cardinality(P \cap I[e]) <= Cardinality(t.nodes)
        <4>1. IsFiniteSet(P \cap I[c])
          <5>1. IsFiniteSet(t.nodes) /\ P \cap I[c] \subseteq t.nodes BY RootAt
          <5> QED BY <5>1, FS_Subset
        <4>2. P \cap I[e] \in SUBSET (P \cap I[c]) /\ c \in P \cap I[c] BY <2>2, <2>5, <3>3
        <4>3. c \notin P \cap I[e] BY <3>3, <3>4
        <4>4. /\ Cardinality(P \cap I[e]) \in Nat /\ Cardinality(P \cap I[c]) \in Nat
              /\ Cardinality(P \cap I[e]) + 1 <= Cardinality(P \cap I[c])
          BY <4>1, <4>2, <4>3, Shrinks
        <4>5. Cardinality(t.nodes) \in Nat BY RootAt, FS_CardinalityType
        <4> QED BY <2>1, <4>4, <4>5
      <3> HIDE DEF e
      <3>7. r = [cursor |-> r.cursor, ancestors |-> r.ancestors] BY <2>3, <2>4
      <3>8. ToInv(t, I, key, r, n + 1) BY <2>4, <3>2, <3>5, <3>6, <3>7 DEF ToInv
      <3> QED BY <3>8 DEF r
    <2> QED BY <2>6, <2>7
  <1> QED BY <1>1, <1>2

(* The keys that are not less than key. *)
AtLeast(t, key) == {z \in KeysOf(t) : ~Less(z, key)}

(* lowerBound goes to the least key that is not less (237-262). *)
LEMMA LowerBoundAt ==
  ASSUME NEW t, NEW I, Spanned(t, I), NEW key \in Point
  PROVE  Reaches(t, I, LowerBound(t, key), AtLeast(t, key))
  <1> DEFINE P == KeysOf(t)
             m == Cardinality(t.nodes)
             from == [cursor |-> Root(t), ancestors |-> << >>]
  <1>1. IsFiniteSet(t.nodes) /\ Fake \in t.nodes /\ P = t.nodes \ {Fake} BY RootAt
  <1>2. m \in Nat BY <1>1, FS_CardinalityType
  <1>3. PICK f : /\ f[0] = from /\ WayTo(t, key) = f[m]
                 /\ \A n \in 1..m : f[n] = ToOn(t, key, f[n - 1])
    <2>1. Cardinality(t.nodes) \in Nat BY <1>2
    <2> QED BY ONLY <2>1, ToRuns DEF m, from
  <1>4. ToInv(t, I, key, f[0], 0)
    <2>1. f[0] = from /\ from.cursor = Root(t) /\ from.ancestors = << >> BY <1>3
    <2>2. CASE Root(t) = Nil
      <3>1. P = {} BY <2>2, RootAt
      <3> HIDE DEF from
      <3>2. from = [cursor |-> from.cursor, ancestors |-> from.ancestors] BY <2>1 DEF from
      <3> QED BY <2>1, <2>2, <3>1, <3>2 DEF ToInv
    <2>3. CASE Root(t) # Nil
      <3>1. Root(t) \in P /\ I[Root(t)] = Point BY <2>3, RootAt
      <3>2. Way(t, I, Append(<< >>, Root(t))) /\ << >> \in Seq(P) BY <2>3, WayStart
      <3>3. IsIter(t, I, from) BY <2>1, <3>1, <3>2 DEF IsIter
      <3>4. 0 + Cardinality(P \cap I[Root(t)]) <= m
        <4>1. P \cap I[Root(t)] \subseteq t.nodes BY <1>1
        <4>2. /\ Cardinality(P \cap I[Root(t)]) \in Nat
              /\ Cardinality(P \cap I[Root(t)]) <= Cardinality(t.nodes)
          BY <1>1, <4>1, FS_Subset, FS_CardinalityType
        <4> QED BY <4>2
      <3>5. from = [cursor |-> from.cursor, ancestors |-> from.ancestors] BY <2>1
      <3> HIDE DEF from
      <3> QED BY <2>1, <3>1, <3>3, <3>4, <3>5 DEF ToInv
    <2> QED BY <2>2, <2>3
  <1> HIDE DEF from
  <1> DEFINE S == {n \in Nat : n <= m => ToInv(t, I, key, f[n], n)}
  <1>5. 0 \in S BY <1>4
  <1>6. ASSUME NEW n \in Nat, n \in S PROVE n + 1 \in S
    <2> SUFFICES ASSUME n + 1 <= m PROVE ToInv(t, I, key, f[n + 1], n + 1)
      OBVIOUS
    <2>1. n <= m /\ n + 1 \in 1..m /\ (n + 1) - 1 = n BY <1>2
    <2>2. ToInv(t, I, key, f[n], n) BY <1>6, <2>1
    <2>3. f[n + 1] = ToOn(t, key, f[n]) BY <1>3, <2>1
    <2>4. ToInv(t, I, key, ToOn(t, key, f[n]), n + 1) BY <2>2, ToStep
    <2> QED BY <2>3, <2>4
  <1>7. m \in S
    <2> HIDE DEF S
    <2>1. Nat \subseteq S BY <1>5, <1>6, Inductive
    <2> QED BY <1>2, <2>1
  <1> DEFINE i == WayTo(t, key)
             c == i.cursor
             anc == i.ancestors
             H == {k \in 1..Len(anc) : Less(key, anc[k])}
             r == LowerBound(t, key)
  <1>8. ToInv(t, I, key, i, m) BY <1>2, <1>3, <1>7
  <1>9. r = IF c # Nil THEN i ELSE BackTo(anc, H) BY DEF LowerBound
  <1>10. \A z \in P : z \in Point /\ z # Nil BY KeyAt
  <1>11. key # Nil BY RBTreeAssumption
  <1> HIDE DEF i, r
  <1>12. CASE IsIter(t, I, i) /\ (c = key \/ m + Cardinality(P \cap I[c]) <= m)
    <2>1. c \in P /\ c # Nil /\ c \in I[c] BY <1>12, KeyAt DEF IsIter
    <2>2. c = key
      <3> DEFINE W == P \cap I[c]
      <3>1. IsFiniteSet(W)
        <4>1. W \subseteq t.nodes BY <1>1
        <4> QED BY <1>1, <4>1, FS_Subset
      <3>2. c \in W BY <2>1
      <3> HIDE DEF W
      <3>3. /\ Cardinality({}) \in Nat /\ Cardinality(W) \in Nat
            /\ Cardinality({}) + 1 <= Cardinality(W)
        BY <3>1, <3>2, Shrinks
      <3> QED BY <1>2, <1>12, <3>3 DEF W
    <2>3. r = i BY <1>9, <2>1
    <2>4. c \in AtLeast(t, key) BY <2>1, <2>2, LessOrder DEF AtLeast
    <2>5. \A z \in AtLeast(t, key) : z = c \/ Less(c, z) BY <1>10, <2>2, LessOrder DEF AtLeast
    <2>6. Reaches(t, I, r, AtLeast(t, key)) BY <1>12, <2>3, <2>4, <2>5 DEF Reaches
    <2> QED BY <2>6 DEF r
  <1>13. CASE c = Nil /\ anc = << >> /\ P = {}
    <2>1. H = {} BY <1>13
    <2>2. r = NoIterator BY <1>9, <1>13, <2>1 DEF BackTo
    <2>3. AtLeast(t, key) = {} BY <1>13 DEF AtLeast
    <2>4. Reaches(t, I, r, AtLeast(t, key)) BY <2>2, <2>3 DEF Reaches
    <2> QED BY <2>4 DEF r
  <1>14. ASSUME c = Nil, Way(t, I, anc),
                NEW q \in P, q = anc[Len(anc)], q # key, key \in I[q],
                t.child[<<q, Toward(q, key)>>] = Nil
         PROVE  Reaches(t, I, LowerBound(t, key), AtLeast(t, key))
    <2> DEFINE d == Toward(q, key)
    <2>1. r = BackTo(anc, H) BY <1>9, <1>14
    <2>2. q \in Point /\ q \in I[q] BY <1>14, KeyAt
    <2>3. d \in Dir /\ d = IF Less(q, key) THEN "right" ELSE "left" BY DEF Toward, Dir
    <2>4. \A z \in P : ~(z \in I[q] /\ z \in Beside(q, d)) BY <1>14, <2>3, KeyAt
    <2>5. key \in Beside(q, d) BY <1>14, <2>2, <2>3, Sides
    <2> HIDE DEF d, c, anc
    <2>6. ASSUME NEW z \in P, z \in I[q], Less(key, z)
          PROVE  Less(key, q) /\ (z = q \/ Less(q, z))
      <3>1. CASE Less(q, key)
        <4>1. Less(q, z) BY <1>10, <2>2, <2>6, <3>1, LessOrder
        <4>2. z \in Beside(q, "right") BY <1>10, <2>2, <4>1, LessOrder
        <4> QED BY <2>3, <2>4, <2>6, <3>1, <4>2
      <3>2. CASE ~Less(q, key)
        <4>1. Less(key, q) BY <1>14, <2>2, <3>2, LessOrder
        <4>2. ~Less(z, q)
          <5> SUFFICES ASSUME Less(z, q) PROVE FALSE
            OBVIOUS
          <5>1. z \in Beside(q, "left") BY <1>10, <2>2, LessOrder
          <5> QED BY <2>3, <2>4, <2>6, <3>2, <5>1
        <4> QED BY <1>10, <2>2, <4>1, <4>2, LessOrder
      <3> QED BY <3>1, <3>2
    <2>7. key \in I[anc[Len(anc)]] BY <1>14
    <2>8. \A z \in P : z \in I[anc[Len(anc)]] /\ Less(key, z)
            => Less(key, anc[Len(anc)]) /\ (z = anc[Len(anc)] \/ Less(anc[Len(anc)], z))
      BY <1>14, <2>6
    <2>9. Reaches(t, I, BackTo(anc, H), Beyond(t, key)) BY <1>14, <2>7, <2>8, BackUp
    <2>10. key \notin P BY <1>14, <2>4, <2>5
    <2>11. AtLeast(t, key) = Beyond(t, key)
      <3>1. \A z \in P : ~Less(z, key) <=> Less(key, z) BY <1>10, <2>10, LessOrder
      <3> QED BY <3>1 DEF AtLeast, Beyond
    <2>12. Reaches(t, I, r, AtLeast(t, key)) BY <2>1, <2>9, <2>11
    <2> QED BY <2>12 DEF r
  <1> QED BY <1>8, <1>12, <1>13, <1>14 DEF ToInv

(* upperBound goes there too: lowerBound never stops before the key         *)
(* (265-273).                                                               *)
LEMMA UpperBoundAt ==
  ASSUME NEW t, NEW I, Spanned(t, I), NEW key \in Point
  PROVE  Reaches(t, I, UpperBound(t, key), AtLeast(t, key))
  <1> DEFINE m == Cardinality(t.nodes)
             from == LowerBound(t, key)
  <1>1. m \in Nat BY RootAt, FS_CardinalityType
  <1>2. Reaches(t, I, from, AtLeast(t, key)) BY LowerBoundAt
  <1>3. PICK f : /\ f[0] = from /\ UpperBound(t, key) = f[m]
                 /\ \A n \in 1..m : f[n] = UpperOn(t, key, f[n - 1])
    <2>1. Cardinality(t.nodes) \in Nat BY <1>1
    <2> QED BY ONLY <2>1, UpperRuns DEF m, from
  <1> HIDE DEF from
  <1>4. UpperOn(t, key, from) = from
    <2>1. from.cursor # Nil => ~Less(from.cursor, key)
      <3>1. CASE from = NoIterator BY <3>1 DEF NoIterator
      <3>2. CASE from.cursor \in AtLeast(t, key) BY <3>2 DEF AtLeast
      <3> QED BY <1>2, <3>1, <3>2 DEF Reaches
    <2> QED BY <2>1 DEF UpperOn
  <1> DEFINE S == {n \in Nat : n <= m => f[n] = from}
  <1>5. 0 \in S BY <1>3
  <1>6. ASSUME NEW n \in Nat, n \in S PROVE n + 1 \in S
    <2> SUFFICES ASSUME n + 1 <= m PROVE f[n + 1] = from
      OBVIOUS
    <2>1. n <= m /\ n + 1 \in 1..m /\ (n + 1) - 1 = n BY <1>1
    <2>2. f[n] = from BY <1>6, <2>1
    <2>3. f[n + 1] = UpperOn(t, key, f[n]) BY <1>3, <2>1
    <2> QED BY <1>4, <2>2, <2>3
  <1>7. m \in S
    <2> HIDE DEF S
    <2>1. Nat \subseteq S BY <1>5, <1>6, Inductive
    <2> QED BY <1>1, <2>1
  <1> QED BY <1>1, <1>2, <1>3, <1>7

----------------------------------------------------------------------------
(* The circle: the points of the ring in the order in which one meets     *)
(* them, and the servers ranked by it.                                    *)

(* The abstract ring counts as this one does. *)
LEMMA SameCardinality == \A S : Abstract!Cardinality(S) = Cardinality(S)
  BY DEF Abstract!Cardinality, Cardinality

(* Walking on from h orders the points, too. *)
LEMMA CircleOrder ==
  ASSUME NEW h \in Nat, NEW p \in Point, NEW q \in Point, NEW r \in Point
  PROVE  /\ ~Abstract!Before(h, p, p)
         /\ Abstract!Before(h, p, q) => ~Abstract!Before(h, q, p)
         /\ p # q => Abstract!Before(h, p, q) \/ Abstract!Before(h, q, p)
         /\ Abstract!Before(h, p, q) /\ Abstract!Before(h, q, r) => Abstract!Before(h, p, r)
         /\ Abstract!Before(h, p, q) <=> \/ p[1] >= h /\ q[1] < h
                                         \/ (p[1] >= h <=> q[1] >= h) /\ Less(p, q)
         /\ p[1] \in Nat /\ q[1] \in Nat
  <1>1. /\ p[1] \in Nat /\ q[1] \in Nat /\ r[1] \in Nat /\ p[2] \in Nat /\ q[2] \in Nat /\ r[2] \in Nat
        /\ p = <<p[1], p[2]>> /\ q = <<q[1], q[2]>>
    BY DEF Point
  <1>2. \A a, b : Abstract!Before(h, a, b) <=> \/ a[1] >= h /\ b[1] < h
                                               \/ /\ a[1] >= h <=> b[1] >= h
                                                  /\ a[1] < b[1] \/ (a[1] = b[1] /\ a[2] < b[2])
    BY DEF Abstract!Before
  <1>3. /\ ~Abstract!Before(h, p, p)
        /\ Abstract!Before(h, p, q) => ~Abstract!Before(h, q, p)
        /\ p # q => Abstract!Before(h, p, q) \/ Abstract!Before(h, q, p)
    BY <1>1, <1>2
  <1>4. Abstract!Before(h, p, q) /\ Abstract!Before(h, q, r) => Abstract!Before(h, p, r)
    BY <1>1, <1>2
  <1>5. Abstract!Before(h, p, q) <=> \/ p[1] >= h /\ q[1] < h
                                     \/ (p[1] >= h <=> q[1] >= h) /\ Less(p, q)
    BY <1>1, <1>2 DEF Less
  <1> QED BY <1>1, <1>3, <1>4, <1>5

(* The points of the servers are points, and each server has some. *)
LEMMA PointsAt ==
  ASSUME servers \subseteq Server
  PROVE  /\ Abstract!Points = RingPoints(servers)
         /\ \A p \in RingPoints(servers) : p \in Point /\ p # Nil /\ p[2] \in servers
         /\ \A s \in servers : \E p \in RingPoints(servers) : p[2] = s
         /\ IsFiniteSet(servers) /\ Cardinality(servers) \in Nat
  <1>1. Abstract!Points = RingPoints(servers) BY DEF Abstract!Points, RingPoints, PointsOf
  <1>2. ASSUME NEW p \in RingPoints(servers) PROVE p \in Point /\ p # Nil /\ p[2] \in servers
    <2>1. PICK s \in servers : p \in PointsOf(s) BY <1>2 DEF RingPoints
    <2>2. s \in Server /\ HashOf[s] \in Seq(Nat) /\ s \in Nat BY <2>1, HashRingAssumption
    <2>3. PICK i \in DOMAIN HashOf[s] : p = <<HashOf[s][i], s>> BY <2>1 DEF PointsOf
    <2>4. HashOf[s][i] \in Nat BY <2>2, <2>3
    <2> QED BY <2>1, <2>2, <2>3, <2>4, RBTreeAssumption DEF Point
  <1>3. ASSUME NEW s \in servers PROVE \E p \in RingPoints(servers) : p[2] = s
    <2>1. s \in Server /\ HashOf[s] \in Seq(Nat) /\ HashOf[s] # << >> BY HashRingAssumption
    <2>2. 1 \in DOMAIN HashOf[s] BY <2>1
    <2>3. <<HashOf[s][1], s>> \in PointsOf(s) BY <2>2 DEF PointsOf
    <2>4. <<HashOf[s][1], s>> \in RingPoints(servers) BY <2>3 DEF RingPoints
    <2> QED BY <2>4
  <1>4. IsFiniteSet(servers) /\ Cardinality(servers) \in Nat
    BY HashRingAssumption, FS_Subset, FS_CardinalityType
  <1> QED BY <1>1, <1>2, <1>3, <1>4

(* One of the points of a server is the first that is met. *)
LEMMA FirstExists ==
  ASSUME servers \subseteq Server, NEW h \in Nat, NEW s \in servers
  PROVE  \E p \in PointsOf(s) : \A q \in PointsOf(s) : q = p \/ Abstract!Before(h, p, q)
  <1> DEFINE m == Len(HashOf[s])
             S == {n \in Nat : 1 <= n /\ n <= m =>
                     \E p \in FirstPoints(s, n) :
                       p \in Point /\ \A q \in FirstPoints(s, n) : q = p \/ Abstract!Before(h, p, q)}
  <1>1. /\ m \in Nat /\ PointsOf(s) = FirstPoints(s, m) /\ FirstPoints(s, 0) = {}
        /\ \A n \in 1..m : /\ <<HashOf[s][n], s>> \in Point
                           /\ FirstPoints(s, n) = FirstPoints(s, n - 1) \cup {<<HashOf[s][n], s>>}
    BY ReplicaPoints
  <1>2. m >= 1
    <2>1. HashOf[s] \in Seq(Nat) /\ HashOf[s] # << >> BY HashRingAssumption
    <2> QED BY <2>1
  <1>3. 0 \in S OBVIOUS
  <1>4. ASSUME NEW n \in Nat, n \in S PROVE n + 1 \in S
    <2> DEFINE new == <<HashOf[s][n + 1], s>>
               A == FirstPoints(s, n)
               B == FirstPoints(s, n + 1)
    <2> SUFFICES ASSUME n + 1 <= m
                 PROVE  \E p \in B : p \in Point /\ \A q \in B : q = p \/ Abstract!Before(h, p, q)
      OBVIOUS
    <2>1. n + 1 \in 1..m /\ (n + 1) - 1 = n /\ n <= m BY <1>1
    <2>2. new \in Point /\ B = A \cup {new} BY <1>1, <2>1
    <2>3. n = 0 => A = {} BY <1>1
    <2>4. n # 0 => \E p \in A : p \in Point /\ \A q \in A : q = p \/ Abstract!Before(h, p, q)
      BY <1>4, <2>1
    <2>5. \A q \in A : q \in Point
      <3>1. \A q \in A : \E i \in 1..n : q = <<HashOf[s][i], s>> BY DEF FirstPoints
      <3>2. \A i \in 1..n : i \in 1..m BY <1>1, <2>1
      <3> QED BY <1>1, <3>1, <3>2
    <2> HIDE DEF new, A, B
    <2>6. CASE n = 0 BY <2>2, <2>3, <2>6
    <2>7. CASE n # 0
      <3>1. PICK p \in A : p \in Point /\ \A q \in A : q = p \/ Abstract!Before(h, p, q)
        BY <2>4, <2>7
      <3>2. CASE Abstract!Before(h, p, new) \/ p = new BY <2>2, <3>1, <3>2
      <3>3. CASE Abstract!Before(h, new, p)
        <4>1. \A q \in A : Abstract!Before(h, new, q) BY <2>2, <2>5, <3>1, <3>3, CircleOrder
        <4> QED BY <2>2, <4>1
      <3> QED BY <2>2, <3>1, <3>2, <3>3, CircleOrder
    <2> QED BY <2>6, <2>7
  <1>5. m \in S
    <2> HIDE DEF S
    <2>1. Nat \subseteq S BY <1>3, <1>4, Inductive
    <2> QED BY <1>1, <2>1
  <1> QED BY <1>1, <1>2, <1>5

(* That is the one FirstOf means, and there is no other. *)
LEMMA FirstAt ==
  ASSUME servers \subseteq Server, NEW h \in Nat, NEW s \in servers
  PROVE  LET P == RingPoints(servers)
             first == Abstract!FirstOf(h, s)
         IN /\ first \in P /\ first[2] = s /\ first \in Point
            /\ \A q \in P : q[2] = s => q = first \/ Abstract!Before(h, first, q)
            /\ \A p \in P : p[2] = s /\ (\A q \in P : q[2] = s => ~Abstract!Before(h, q, p)) => p = first
  <1> DEFINE P == RingPoints(servers)
             first == Abstract!FirstOf(h, s)
             Is(p) == p[2] = s /\ \A q \in P \ {p} : q[2] = s => Abstract!Before(h, p, q)
  <1>1. \A q : q \in PointsOf(s) <=> q \in P /\ q[2] = s
    <2>1. \A q \in PointsOf(s) : q \in P /\ q[2] = s BY DEF PointsOf, RingPoints
    <2>2. ASSUME NEW q \in P, q[2] = s PROVE q \in PointsOf(s)
      <3>1. PICK x \in servers : q \in PointsOf(x) BY <2>2 DEF RingPoints
      <3>2. q[2] = x BY <3>1 DEF PointsOf
      <3> QED BY <2>2, <3>1, <3>2
    <2> QED BY <2>1, <2>2
  <1>2. \E p \in P : Is(p) BY <1>1, FirstExists
  <1>3. first = CHOOSE p \in P : Is(p)
    <2>1. Abstract!Points = P BY PointsAt
    <2> HIDE DEF P
    <2> QED BY <2>1 DEF Abstract!FirstOf
  <1> HIDE DEF first
  <1>4. first \in P /\ Is(first) BY <1>2, <1>3
  <1>5. \A q \in P : q \in Point BY PointsAt
  <1>6. ASSUME NEW p \in P, p[2] = s, \A q \in P : q[2] = s => ~Abstract!Before(h, q, p)
        PROVE  p = first
    BY <1>4, <1>6
  <1> QED BY <1>4, <1>5, <1>6 DEF first

(* The servers that are met before s. *)
MetBefore(h, s) ==
  {x \in servers \ {s} : Abstract!Before(h, Abstract!FirstOf(h, x), Abstract!FirstOf(h, s))}

(* The rank is one more than their number. *)
LEMMA RankAt ==
  ASSUME NEW h, NEW s
  PROVE  Abstract!Rank(h, s) = 1 + Cardinality(MetBefore(h, s))
  <1>1. Abstract!Rank(h, s) = 1 + Abstract!Cardinality(MetBefore(h, s))
    BY DEF Abstract!Rank, MetBefore
  <1> QED BY <1>1, SameCardinality

(* Who is met earlier has the smaller rank, and ranks count from 1.        *)
LEMMA RankGrows ==
  ASSUME servers \subseteq Server, NEW h \in Nat, NEW s \in servers, NEW x \in servers
  PROVE  /\ Abstract!Rank(h, s) \in 1..Cardinality(servers)
         /\ Abstract!Before(h, Abstract!FirstOf(h, s), Abstract!FirstOf(h, x))
              => Abstract!Rank(h, s) < Abstract!Rank(h, x)
  <1> DEFINE F(y) == Abstract!FirstOf(h, y)
  <1>1. \A y \in servers : F(y) \in Point /\ F(y)[2] = y BY FirstAt
  <1>2. IsFiniteSet(servers) BY PointsAt
  <1>3. \A y : Abstract!Rank(h, y) = 1 + Cardinality(MetBefore(h, y))
    BY RankAt
  <1>4. \A y : MetBefore(h, y) = {z \in servers \ {y} : Abstract!Before(h, F(z), F(y))}
    BY DEF MetBefore
  <1>5. \A y : MetBefore(h, y) \subseteq servers /\ IsFiniteSet(MetBefore(h, y))
               /\ Cardinality(MetBefore(h, y)) \in Nat
    <2>1. \A y : MetBefore(h, y) \subseteq servers BY <1>4
    <2> QED BY <1>2, <2>1, FS_Subset, FS_CardinalityType
  <1> HIDE DEF F
  <1>6. Abstract!Rank(h, s) \in 1..Cardinality(servers)
    <2>1. MetBefore(h, s) \subseteq servers /\ s \notin MetBefore(h, s) BY <1>4
    <2>2. Cardinality(MetBefore(h, s)) + 1 <= Cardinality(servers) BY <1>2, <2>1, Shrinks
    <2>3. Cardinality(servers) \in Nat BY <1>2, FS_CardinalityType
    <2> QED BY <1>3, <1>5, <2>2, <2>3
  <1>7. ASSUME Abstract!Before(h, F(s), F(x)) PROVE Abstract!Rank(h, s) < Abstract!Rank(h, x)
    <2>1. F(s) \in Point /\ F(x) \in Point BY <1>1
    <2>2. MetBefore(h, s) \subseteq MetBefore(h, x)
      <3> SUFFICES ASSUME NEW y \in servers, y # s, Abstract!Before(h, F(y), F(s))
                   PROVE  y # x /\ Abstract!Before(h, F(y), F(x))
        BY <1>4
      <3>1. F(y) \in Point BY <1>1
      <3> QED BY <1>7, <2>1, <3>1, CircleOrder
    <2>3. s \in MetBefore(h, x) /\ s \notin MetBefore(h, s)
      <3>1. s # x BY <1>7, <2>1, CircleOrder
      <3> QED BY <1>4, <1>7, <3>1
    <2>4. Cardinality(MetBefore(h, s)) + 1 <= Cardinality(MetBefore(h, x)) BY <1>5, <2>2, <2>3, Shrinks
    <2> QED BY <1>3, <1>5, <2>4
  <1> QED BY <1>6, <1>7 DEF F

(* Different servers have different ranks. *)
LEMMA RankOnce ==
  ASSUME servers \subseteq Server, NEW h \in Nat, NEW s \in servers, NEW x \in servers,
         Abstract!Rank(h, s) = Abstract!Rank(h, x)
  PROVE  s = x
  <1> DEFINE F(y) == Abstract!FirstOf(h, y)
  <1>1. F(s) \in Point /\ F(x) \in Point /\ F(s)[2] = s /\ F(x)[2] = x BY FirstAt
  <1>2. ~Abstract!Before(h, F(s), F(x)) /\ ~Abstract!Before(h, F(x), F(s)) BY RankGrows
  <1>3. F(s) = F(x) BY <1>1, <1>2, CircleOrder
  <1> QED BY <1>1, <1>3

(* The points that are met before c. *)
MetTo(h, c) == {q \in RingPoints(servers) : Abstract!Before(h, q, c)}
(* r has the servers of the points V, each where its rank says. *)
Ranked(h, r, V) ==
  /\ r \in Seq(servers) /\ Range(r) = {q[2] : q \in V} /\ Cardinality(Range(r)) = Len(r)
  /\ \A j \in 1..Len(r) : Abstract!Rank(h, r[j]) = j

(* Nobody, when no point was met. *)
LEMMA RankedNone ==
  ASSUME NEW h
  PROVE  Ranked(h, << >>, {})
  <1>1. << >> \in Seq(servers) /\ Len(<< >>) = 0 OBVIOUS
  <1>2. Range(<< >>) = {} BY DEF Range
  <1>3. Cardinality({}) = 0 BY FS_EmptySet
  <1> DEFINE r == << >>
  <1>4. {q[2] : q \in {}} = {} /\ \A j \in 1..0 : FALSE OBVIOUS
  <1>5. r \in Seq(servers) /\ Len(r) = 0 /\ Range(r) = {} BY <1>1, <1>2
  <1> HIDE DEF r
  <1>6. Ranked(h, r, {}) BY <1>3, <1>4, <1>5 DEF Ranked
  <1> QED BY <1>6 DEF r

(* A server whose first point is met now is next in rank. *)
LEMMA RankedMore ==
  ASSUME servers \subseteq Server, NEW h \in Nat, NEW c \in RingPoints(servers), NEW r,
         Ranked(h, r, MetTo(h, c))
  PROVE  Ranked(h, IF c[2] \in Range(r) THEN r ELSE Append(r, c[2]), MetTo(h, c) \cup {c})
  <1> DEFINE P == RingPoints(servers)
             V == MetTo(h, c)
             s == c[2]
             F(y) == Abstract!FirstOf(h, y)
  <1>1. /\ r \in Seq(servers) /\ Range(r) = {q[2] : q \in V} /\ Cardinality(Range(r)) = Len(r)
        /\ \A j \in 1..Len(r) : Abstract!Rank(h, r[j]) = j
    BY DEF Ranked
  <1>2. \A p \in P : p \in Point /\ p[2] \in servers BY PointsAt
  <1>3. V \subseteq P /\ \A q \in P : q \in V <=> Abstract!Before(h, q, c) BY DEF MetTo
  <1>4. {q[2] : q \in V \cup {c}} = Range(r) \cup {s} BY <1>1
  <1>5. CASE s \in Range(r)
    <2>1. Range(r) \cup {s} = Range(r) BY <1>5
    <2>2. Range(r) = {q[2] : q \in V \cup {c}} BY <1>4, <2>1
    <2>3. Ranked(h, r, V \cup {c}) BY <1>1, <2>2 DEF Ranked
    <2> QED BY <1>5, <2>3
  <1>6. CASE s \notin Range(r)
    <2> DEFINE v == Append(r, s)
               n == Len(r)
    <2>1. s \in servers BY <1>2
    <2>2. \A q \in V : q[2] # s BY <1>1, <1>6
    <2>3. F(s) = c
      <3>1. \A q \in P : q[2] = s => ~Abstract!Before(h, q, c) BY <1>3, <2>2
      <3> QED BY <2>1, <3>1, FirstAt
    <2>4. \A y \in servers : /\ F(y) \in P /\ F(y)[2] = y /\ F(y) \in Point
                             /\ \A q \in P : q[2] = y => q = F(y) \/ Abstract!Before(h, F(y), q)
      BY FirstAt
    <2>5. MetBefore(h, s) = Range(r)
      <3>1. \A y : y \in MetBefore(h, s) <=> y \in servers \ {s} /\ Abstract!Before(h, F(y), c)
        BY <2>3 DEF MetBefore
      <3>2. ASSUME NEW y \in servers, y # s, Abstract!Before(h, F(y), c) PROVE y \in Range(r)
        <4>1. F(y) \in V BY <1>3, <2>4, <3>2
        <4>2. F(y)[2] = y BY <2>4
        <4> QED BY <1>1, <4>1, <4>2
      <3>3. ASSUME NEW y \in Range(r) PROVE y \in servers \ {s} /\ Abstract!Before(h, F(y), c)
        <4>1. PICK q \in V : q[2] = y BY <1>1
        <4>2. q \in P /\ y \in servers /\ y # s BY <1>2, <1>3, <2>2, <4>1
        <4>3. q = F(y) \/ Abstract!Before(h, F(y), q) BY <2>4, <4>1, <4>2
        <4>4. Abstract!Before(h, q, c) BY <1>3, <4>1
        <4>5. q \in Point /\ F(y) \in Point /\ c \in Point BY <1>2, <2>4, <4>2
        <4>6. Abstract!Before(h, F(y), c) BY <4>3, <4>4, <4>5, CircleOrder
        <4> QED BY <4>2, <4>6
      <3> HIDE DEF F
      <3> QED BY <3>1, <3>2, <3>3
    <2>6. Abstract!Rank(h, s) = n + 1
      <3>1. n \in Nat BY <1>1
      <3>2. Abstract!Rank(h, s) = 1 + Cardinality(MetBefore(h, s)) BY RankAt
      <3>3. Cardinality(MetBefore(h, s)) = n BY <1>1, <2>5
      <3> HIDE DEF n, s
      <3> QED BY <3>1, <3>2, <3>3
    <2>7. n \in Nat /\ v \in Seq(servers) /\ Len(v) = n + 1 /\ v[n + 1] = s
          /\ \A j \in 1..n : v[j] = r[j]
      BY <1>1, <2>1
    <2>8. DOMAIN v = 1..n + 1 /\ DOMAIN r = 1..n BY <1>1, <2>7
    <2> HIDE DEF v, n
    <2>9. 1..n + 1 = (1..n) \cup {n + 1} BY <2>7
    <2>10. Range(v) = Range(r) \cup {s}
      <3>1. Range(v) = {v[j] : j \in 1..n + 1} /\ Range(r) = {r[j] : j \in 1..n}
        BY <2>8 DEF Range
      <3>2. \A j \in 1..n + 1 : v[j] \in Range(r) \cup {s} BY <2>7, <2>9, <3>1
      <3>3. s \in Range(v)
        <4>1. n + 1 \in 1..n + 1 BY <2>9
        <4> QED BY <2>7, <3>1, <4>1
      <3>4. \A j \in 1..n : r[j] \in Range(v)
        <4>1. \A j \in 1..n : j \in 1..n + 1 /\ v[j] = r[j] BY <2>7, <2>9
        <4> QED BY <3>1, <4>1
      <3> QED BY <3>1, <3>2, <3>3, <3>4
    <2>11. Cardinality(Range(v)) = n + 1
      <3>1. Range(r) \subseteq servers
        <4>1. \A q \in V : q[2] \in servers BY <1>2, <1>3
        <4> QED BY <1>1, <4>1
      <3>2. IsFiniteSet(Range(r)) BY <3>1, PointsAt, FS_Subset
      <3>3. Cardinality(Range(r) \cup {s}) = Cardinality(Range(r)) + 1 BY <1>6, <3>2, FS_AddElement
      <3> QED BY <1>1, <2>10, <3>3 DEF n
    <2>12. \A j \in 1..n + 1 : Abstract!Rank(h, v[j]) = j
      BY <1>1, <2>6, <2>7, <2>9 DEF n
    <2>13. Range(v) = {q[2] : q \in V \cup {c}} BY <1>4, <2>10
    <2>14. Ranked(h, v, V \cup {c}) BY <2>7, <2>11, <2>12, <2>13 DEF Ranked
    <2> QED BY <1>6, <2>14 DEF v
  <1> QED BY <1>5, <1>6

(* Servers where their ranks say are the first that the abstract ring      *)
(* prefers.                                                                *)
LEMMA PreferenceAt ==
  ASSUME servers \subseteq Server, NEW h \in Nat, NEW r, NEW V, Ranked(h, r, V)
  PROVE  /\ r = SubSeq(Abstract!Preference(h), 1, Len(r)) /\ Len(r) \in Nat
         /\ Len(r) <= Cardinality(servers)
         /\ r # << >> => Abstract!Preference(h)[1] = r[1]
  <1> DEFINE n == Cardinality(servers)
             f == Abstract!Preference(h)
             k == Len(r)
  <1>1. /\ r \in Seq(servers) /\ Cardinality(Range(r)) = k
        /\ \A j \in 1..k : Abstract!Rank(h, r[j]) = j
    BY DEF Ranked
  <1>2. k \in Nat /\ (\A j \in 1..k : r[j] \in servers) /\ DOMAIN r = 1..k BY <1>1
  <1>3. n \in Nat /\ IsFiniteSet(servers) BY PointsAt
  <1>4. k <= n
    <2>1. Range(r) \subseteq servers BY <1>2 DEF Range
    <2> QED BY <1>1, <1>3, <2>1, FS_Subset
  <1>5. f = [j \in 1..n |-> CHOOSE s \in servers : Abstract!Rank(h, s) = j]
    BY SameCardinality DEF Abstract!Preference
  <1> HIDE DEF f, n, k
  <1>6. ASSUME NEW j \in 1..k PROVE f[j] = r[j]
    <2>1. j \in 1..n BY <1>2, <1>3, <1>4
    <2>2. r[j] \in servers /\ Abstract!Rank(h, r[j]) = j BY <1>1, <1>2
    <2>3. \A s \in servers : Abstract!Rank(h, s) = j => s = r[j] BY <2>2, RankOnce
    <2>4. f[j] = CHOOSE s \in servers : Abstract!Rank(h, s) = j BY <1>5, <2>1
    <2> DEFINE g == CHOOSE s \in servers : Abstract!Rank(h, s) = j
    <2>5. g \in servers /\ Abstract!Rank(h, g) = j BY <2>2
    <2> HIDE DEF g
    <2>6. g = r[j] BY <2>3, <2>5
    <2> QED BY <2>4, <2>6 DEF g
  <1>7. r = SubSeq(f, 1, k)
    <2> DEFINE T == {f[j] : j \in 1..n} \cup servers
               b == SubSeq(f, 1, k)
    <2>1. f \in Seq(T) /\ Len(f) = n
      <3>1. DOMAIN f = 1..n BY <1>5
      <3>2. f \in [1..n -> T] BY <1>5, <3>1
      <3> HIDE DEF T
      <3> QED BY <1>3, <3>2
    <2>2. r \in Seq(T) BY <1>1
    <2> HIDE DEF T
    <2>3. b \in Seq(T) /\ Len(b) = k /\ \A j \in 1..k : b[j] = f[j]
      <3>1. \A j \in 1..k : f[j] \in T BY <1>2, <1>3, <1>4, <2>1
      <3> QED BY <1>2, <1>3, <1>4, <2>1, <3>1
    <2> HIDE DEF b
    <2>4. r = b BY <1>2, <1>6, <2>2, <2>3 DEF k
    <2> QED BY <2>4 DEF b
  <1>8. ASSUME r # << >> PROVE f[1] = r[1]
    <2>1. k >= 1 BY <1>1, <1>8 DEF k
    <2>2. 1 \in 1..k BY <1>2, <2>1
    <2> QED BY <1>6, <2>2
  <1> QED BY <1>2, <1>4, <1>7, <1>8 DEF k, n, f

(* The least of the points S, or nothing if there is none. *)
LeastOf(S, x) == (S = {} /\ x = Nil) \/ (x \in S /\ \A z \in S : z = x \/ Less(x, z))
(* The points of a hash not less than h, and those met before the walk is   *)
(* at c, which is Nil past the last one of them.                            *)
NotBelow(h) == {q \in RingPoints(servers) : q[1] >= h}
Met(h, c) == IF c = Nil THEN NotBelow(h) ELSE MetTo(h, c)
(* The walk has come past the end of the line. *)
Low(h, c) == c # Nil /\ c[1] < h

(* From c the walk from c0 goes on to e, and is round when that is c0. *)
LEMMA CircleStep ==
  ASSUME servers \subseteq Server, NEW h \in Nat, NEW c \in RingPoints(servers) \cup {Nil},
         NEW c0, LeastOf(NotBelow(h), c0), NEW e,
         c = Nil => LeastOf(RingPoints(servers), e),
         c # Nil => LeastOf({q \in RingPoints(servers) : Less(c, q)}, e)
  PROVE  LET W == IF c = Nil THEN Met(h, c) ELSE Met(h, c) \cup {c}
         IN /\ e = c0 => W = RingPoints(servers)
            /\ e # c0 => Met(h, e) = W /\ (c = Nil \/ Low(h, c) => Low(h, e))
            /\ e \in RingPoints(servers) \cup {Nil} /\ c \notin Met(h, c)
  <1> DEFINE P == RingPoints(servers)
             B == NotBelow(h)
             W == IF c = Nil THEN Met(h, c) ELSE Met(h, c) \cup {c}
  <1>1. \A p \in P : p \in Point /\ p # Nil /\ p[1] \in Nat
    BY PointsAt, CircleOrder
  <1>2. \A p \in P : p \in B <=> p[1] >= h BY DEF NotBelow
  <1>3. B \subseteq P /\ Nil \notin P BY <1>1 DEF NotBelow
  <1>4. \A p, q \in P : Abstract!Before(h, p, q) <=> \/ p[1] >= h /\ q[1] < h
                                                     \/ (p[1] >= h <=> q[1] >= h) /\ Less(p, q)
    BY <1>1, CircleOrder
  <1>5. \A p, q \in P : /\ ~Less(p, p) /\ (Less(p, q) => ~Less(q, p))
                        /\ p # q => Less(p, q) \/ Less(q, p)
    BY <1>1, LessOrder
  <1>6. \A p, q, r \in P : Less(p, q) /\ Less(q, r) => Less(p, r) BY <1>1, LessOrder
  <1>7. \A p, q \in P : Less(p, q) /\ p[1] >= h => q[1] >= h
    <2>1. \A p, q \in P : Less(p, q) => p[1] <= q[1] BY <1>1 DEF Less
    <2> QED BY <1>1, <2>1
  <1>8. \A q \in P : q[1] < h <=> ~(q[1] >= h) BY <1>1
  <1>9. e \in P \cup {Nil} /\ c0 \in B \cup {Nil} BY <1>3 DEF LeastOf
  <1>10. c \notin Met(h, c)
    <2>1. CASE c = Nil BY <1>3, <2>1 DEF Met
    <2>2. CASE c # Nil
      <3>1. c \in P /\ ~Abstract!Before(h, c, c) BY <1>1, <2>2, CircleOrder
      <3> QED BY <2>2, <3>1 DEF Met, MetTo
    <2> QED BY <2>1, <2>2
  <1> DEFINE Hi(q) == q[1] >= h
  <1>11. \A q \in P : /\ q \in B <=> Hi(q)
                      /\ \A p \in P : Abstract!Before(h, q, p) <=> \/ Hi(q) /\ ~Hi(p)
                                                                   \/ (Hi(q) <=> Hi(p)) /\ Less(q, p)
    BY <1>2, <1>4, <1>8
  <1>12. \A p, q \in P : Less(p, q) /\ Hi(p) => Hi(q) BY <1>7
  <1>13. \A q \in P : Low(h, q) <=> ~Hi(q) BY <1>3, <1>8 DEF Low
  <1>14. Met(h, Nil) = B /\ ~Low(h, Nil) BY DEF Met, Low
  <1>15. \A p \in P : Met(h, p) \subseteq P /\ \A q \in P : q \in Met(h, p) <=> Abstract!Before(h, q, p)
    BY <1>3 DEF Met, MetTo
  <1> HIDE DEF P, B, Hi
  <1>16. CASE c = Nil
    <2>1. LeastOf(P, e) /\ LeastOf(B, c0) BY <1>16 DEF P, B
    <2>2. W = B BY <1>14, <1>16
    <2>3. CASE P = {}
      <3>1. e = Nil /\ c0 = Nil /\ B = {} BY <1>3, <2>1, <2>3 DEF LeastOf
      <3> QED BY <1>9, <1>10, <1>16, <2>2, <2>3, <3>1 DEF P
    <2>4. CASE P # {}
      <3>1. e \in P /\ \A z \in P : z = e \/ Less(e, z) BY <2>1, <2>4 DEF LeastOf
      <3>2. CASE Hi(e)
        <4>1. B = P BY <1>3, <1>11, <1>12, <3>1, <3>2
        <4>2. c0 \in P /\ \A z \in P : z = c0 \/ Less(c0, z) BY <2>1, <2>4, <4>1 DEF LeastOf
        <4>3. e = c0 BY <1>5, <3>1, <4>2
        <4> QED BY <1>9, <1>10, <2>2, <4>1, <4>3 DEF P
      <3>3. CASE ~Hi(e)
        <4>1. e # c0 BY <1>3, <1>9, <1>11, <3>1, <3>3
        <4>2. Met(h, e) = B
          <5>1. \A q \in P : q \in Met(h, e) <=> q \in B BY <1>5, <1>11, <1>15, <3>1, <3>3
          <5> QED BY <1>3, <1>15, <3>1, <5>1
        <4> QED BY <1>9, <1>10, <1>13, <2>2, <3>1, <3>3, <4>1, <4>2 DEF P
      <3> QED BY <3>2, <3>3
    <2> QED BY <2>3, <2>4
  <1>17. CASE c # Nil
    <2> DEFINE G == {q \in P : Less(c, q)}
    <2>1. LeastOf(G, e) /\ LeastOf(B, c0) /\ c \in P BY <1>17 DEF P, B
    <2>2. /\ W = Met(h, c) \cup {c} /\ W \subseteq P
          /\ \A q \in P : q \in W <=> q = c \/ Abstract!Before(h, q, c)
      BY <1>15, <1>17, <2>1
    <2>3. CASE Hi(c)
      <3>1. c0 \in P /\ (c0 = c \/ Less(c0, c)) BY <1>3, <1>11, <2>1, <2>3 DEF LeastOf
      <3>2. CASE e = Nil
        <4>1. G = {} BY <1>3, <2>1, <3>2 DEF LeastOf
        <4>2. e # c0 BY <1>3, <3>1, <3>2
        <4>3. Met(h, e) = W
          <5>1. \A q \in P : q \in W <=> q \in B BY <1>5, <1>11, <1>12, <2>1, <2>2, <2>3, <4>1
          <5> QED BY <1>3, <1>14, <2>2, <3>2, <5>1
        <4> QED BY <1>9, <1>10, <1>13, <1>17, <2>1, <2>3, <4>2, <4>3 DEF P
      <3>3. CASE e # Nil
        <4>1. e \in P /\ Less(c, e) /\ \A z \in P : Less(c, z) => z = e \/ Less(e, z)
          BY <2>1, <3>3 DEF LeastOf
        <4>2. Hi(e) BY <1>12, <2>1, <2>3, <4>1
        <4>3. e # c0 BY <1>5, <1>6, <2>1, <3>1, <4>1
        <4>4. Met(h, e) = W
          <5>1. \A q \in P : Less(q, e) <=> q = c \/ Less(q, c) BY <1>5, <1>6, <2>1, <4>1
          <5>2. \A q \in P : q \in Met(h, e) <=> q \in W
            BY <1>11, <1>15, <2>1, <2>2, <2>3, <4>1, <4>2, <5>1
          <5> QED BY <1>15, <2>2, <4>1, <5>2
        <4> QED BY <1>9, <1>10, <1>13, <1>17, <2>1, <2>3, <4>3, <4>4 DEF P
      <3> QED BY <3>2, <3>3
    <2>4. CASE ~Hi(c)
      <3>1. CASE e = Nil
        <4>1. G = {} BY <1>3, <2>1, <3>1 DEF LeastOf
        <4>2. B = {} BY <1>3, <1>5, <1>11, <1>12, <2>1, <2>4, <4>1
        <4>3. c0 = Nil BY <2>1, <4>2 DEF LeastOf
        <4>4. W = P
          <5>1. \A q \in P : q \in W BY <1>5, <1>11, <2>1, <2>2, <2>4, <4>1
          <5> QED BY <2>2, <5>1
        <4> QED BY <1>9, <1>10, <3>1, <4>3, <4>4 DEF P
      <3>2. CASE e # Nil
        <4>1. e \in P /\ Less(c, e) /\ \A z \in P : Less(c, z) => z = e \/ Less(e, z)
          BY <2>1, <3>2 DEF LeastOf
        <4>2. \A q \in P : Less(q, e) <=> q = c \/ Less(q, c) BY <1>5, <1>6, <2>1, <4>1
        <4>3. CASE Hi(e)
          <5>1. \A q \in P : q \in B <=> ~(q = c \/ Less(q, c))
            BY <1>5, <1>11, <1>12, <2>1, <2>4, <4>1, <4>2, <4>3
          <5>2. e \in B /\ \A q \in B : q = e \/ Less(e, q)
            BY <1>3, <1>5, <1>11, <4>1, <4>2, <4>3, <5>1
          <5>3. c0 \in B /\ \A q \in B : q = c0 \/ Less(c0, q) BY <2>1, <5>2 DEF LeastOf
          <5>4. e = c0 BY <1>3, <1>5, <5>2, <5>3
          <5>5. W = P
            <6>1. \A q \in P : q \in W BY <1>11, <2>1, <2>2, <2>4, <5>1
            <6> QED BY <2>2, <6>1
          <5> QED BY <1>9, <1>10, <5>4, <5>5 DEF P
        <4>4. CASE ~Hi(e)
          <5>1. e # c0 BY <1>3, <1>9, <1>11, <4>1, <4>4
          <5>2. Met(h, e) = W
            <6>1. \A q \in P : q \in Met(h, e) <=> q \in W
              BY <1>11, <1>15, <2>1, <2>2, <2>4, <4>1, <4>2, <4>4
            <6> QED BY <1>15, <2>2, <4>1, <6>1
          <5> QED BY <1>9, <1>10, <1>13, <4>1, <4>4, <5>1, <5>2 DEF P
        <4> QED BY <4>3, <4>4
      <3> QED BY <3>1, <3>2
    <2> QED BY <2>3, <2>4
  <1> QED BY <1>16, <1>17

----------------------------------------------------------------------------
(* The walk around the ring: lookup and lookupN (index.js 182-228).       *)

(* An iterator of the walk around the ring. *)
Walker(t, I, i) == i = NoIterator \/ IsIter(t, I, i)

(* Next goes on to the next key, from the last one to the end, and from     *)
(* there to the first.                                                      *)
LEMMA NextRound ==
  ASSUME NEW t, NEW I, Spanned(t, I), NEW i, Walker(t, I, i)
  PROVE  LET S == IF i.cursor = Nil THEN KeysOf(t) ELSE Beyond(t, i.cursor)
         IN Reaches(t, I, NextOf(t, IF i.cursor = Nil THEN NoIterator ELSE i), S)
  <1> DEFINE none == NoIterator
  <1>0. none.cursor = Nil BY DEF NoIterator
  <1>1. CASE i.cursor = Nil
    <2>1. CASE Root(t) = Nil
      <3>1. NextOf(t, NoIterator) = NoIterator BY <1>0, <2>1 DEF NextOf
      <3>2. KeysOf(t) = {} BY <2>1, RootAt
      <3>3. Reaches(t, I, NoIterator, KeysOf(t)) BY <3>2 DEF Reaches
      <3> QED BY <1>1, <3>1, <3>3
    <2>2. CASE Root(t) # Nil
      <3>1. NextOf(t, NoIterator) = MinNode(t, << >>, Root(t)) BY <1>0, <2>2 DEF NextOf
      <3>2. Root(t) \in KeysOf(t) /\ I[Root(t)] = Point BY <2>2, RootAt
      <3>3. Way(t, I, Append(<< >>, Root(t))) /\ << >> \in Seq(KeysOf(t)) BY <2>2, WayStart
      <3>4. KeysOf(t) \cap I[Root(t)] = KeysOf(t)
        <4>1. \A z \in KeysOf(t) : z \in Point BY KeyAt
        <4> QED BY <3>2, <4>1
      <3>5. Reaches(t, I, MinNode(t, << >>, Root(t)), KeysOf(t) \cap I[Root(t)])
        BY <3>2, <3>3, MinNodeAt
      <3>6. Reaches(t, I, MinNode(t, << >>, Root(t)), KeysOf(t)) BY <3>4, <3>5
      <3> QED BY <1>1, <3>1, <3>6
    <2> QED BY <2>1, <2>2
  <1>2. CASE i.cursor # Nil
    <2>1. IsIter(t, I, i) BY <1>0, <1>2 DEF Walker
    <2>2. Reaches(t, I, NextOf(t, i), Beyond(t, i.cursor)) BY <2>1, NextOfAt
    <2> QED BY <1>2, <2>2
  <1> QED BY <1>1, <1>2

(* What an iterator reaches is on the walk, and its cursor the least.       *)
LEMMA ReachesLeast ==
  ASSUME NEW t, NEW I, NEW i, NEW S, Reaches(t, I, i, S)
  PROVE  Walker(t, I, i) /\ LeastOf(S, i.cursor)
  <1>1. CASE S = {} /\ i = NoIterator
    <2> DEFINE none == NoIterator
    <2>1. none.cursor = Nil BY DEF NoIterator
    <2> QED BY <1>1, <2>1 DEF Walker, LeastOf
  <1>2. CASE IsIter(t, I, i) /\ i.cursor \in S /\ \A z \in S : z = i.cursor \/ Less(i.cursor, z)
    BY <1>2 DEF Walker, LeastOf
  <1> QED BY <1>1, <1>2 DEF Reaches

(* The tree holds the points of the servers. *)
Planted(t, I) == Spanned(t, I) /\ KeysOf(t) = RingPoints(servers) /\ servers \subseteq Server

(* upperBound starts the walk at the first point met from h. *)
LEMMA StartAt ==
  ASSUME NEW t, NEW I, Planted(t, I), NEW h \in Nat
  PROVE  LET start == UpperBound(t, <<h, 0>>)
         IN /\ Walker(t, I, start) /\ LeastOf(NotBelow(h), start.cursor)
            /\ start.cursor \in RingPoints(servers) \cup {Nil}
            /\ Met(h, start.cursor) = {} /\ ~Low(h, start.cursor)
  <1> DEFINE key == <<h, 0>>
             start == UpperBound(t, key)
             P == RingPoints(servers)
             c == start.cursor
  <1>1. key \in Point BY DEF Point
  <1>2. Spanned(t, I) /\ KeysOf(t) = P /\ servers \subseteq Server BY DEF Planted
  <1>3. \A p \in P : p \in Point /\ p # Nil BY <1>2, PointsAt
  <1>4. AtLeast(t, key) = NotBelow(h)
    <2>1. \A p \in P : ~Less(p, key) <=> p[1] >= h BY <1>3 DEF Less, Point
    <2> QED BY <1>2, <2>1 DEF AtLeast, NotBelow
  <1> HIDE DEF key, start
  <1>5. Reaches(t, I, start, NotBelow(h))
    <2>1. Reaches(t, I, UpperBound(t, key), AtLeast(t, key)) BY <1>1, <1>2, UpperBoundAt
    <2> QED BY <1>4, <2>1 DEF start
  <1>6. Walker(t, I, start) /\ LeastOf(NotBelow(h), c) BY <1>5, ReachesLeast
  <1>7. CASE c = Nil
    <2>1. Nil \notin NotBelow(h) BY <1>3 DEF NotBelow
    <2>2. NotBelow(h) = {} BY <1>6, <1>7, <2>1 DEF LeastOf
    <2> QED BY <1>6, <1>7, <2>2 DEF start, key, Met, Low
  <1>8. CASE c # Nil
    <2>1. /\ c \in P /\ c[1] >= h
          /\ \A z \in P : z[1] >= h => z = c \/ Less(c, z)
      BY <1>6, <1>8 DEF LeastOf, NotBelow
    <2> HIDE DEF P, c
    <2>2. c \in Point /\ c[1] \in Nat BY <1>2, <1>3, <2>1, CircleOrder
    <2>3. ~Low(h, c) BY <2>1, <2>2 DEF Low
    <2>4. MetTo(h, c) = {}
      <3> SUFFICES ASSUME NEW q \in P, Abstract!Before(h, q, c) PROVE FALSE
        BY DEF MetTo, P
      <3>1. q \in Point /\ q[1] \in Nat BY <1>2, <1>3, CircleOrder
      <3>2. \/ q[1] >= h /\ c[1] < h
            \/ (q[1] >= h <=> c[1] >= h) /\ Less(q, c)
        BY <2>2, <3>1, CircleOrder
      <3>3. q[1] >= h /\ Less(q, c) BY <2>1, <2>2, <3>2
      <3>4. q = c \/ Less(c, q) BY <2>1, <3>3
      <3> QED BY <2>2, <3>1, <3>3, <3>4, LessOrder
    <2>5. Met(h, c) = {} BY <1>8, <2>4 DEF Met
    <2>6. c \in P \cup {Nil} BY <2>1
    <2> QED BY <1>6, <2>3, <2>5, <2>6 DEF P, c, start, key
  <1> QED BY <1>7, <1>8

(* lookup answers with the owner of that point, or of the first of all      *)
(* (182-192).                                                               *)
LEMMA LookupAt ==
  ASSUME NEW t, NEW I, Planted(t, I), NEW h \in Nat
  PROVE  LookupIn(t, h) = IF servers = {} THEN Nil ELSE Abstract!Preference(h)[1]
  <1> DEFINE key == <<h, 0>>
             start == UpperBound(t, key)
             P == RingPoints(servers)
             c0 == start.cursor
  <1>1. Spanned(t, I) /\ KeysOf(t) = P /\ servers \subseteq Server BY DEF Planted
  <1>2. \A p \in P : p \in Point /\ p # Nil /\ p[2] \in servers BY <1>1, PointsAt
  <1>3. /\ Walker(t, I, start) /\ LeastOf(NotBelow(h), c0) /\ c0 \in P \cup {Nil}
        /\ Met(h, c0) = {} /\ ~Low(h, c0)
    BY StartAt
  <1>4. LookupIn(t, h) =
          IF c0 # Nil THEN Owner(c0)
          ELSE IF Root(t) = Nil THEN Nil ELSE Owner(MinNode(t, << >>, Root(t)).cursor)
    BY DEF LookupIn
  <1> HIDE DEF start, P
  <1>5. ASSUME NEW c \in P, MetTo(h, c) = {}
        PROVE  Owner(c) = IF servers = {} THEN Nil ELSE Abstract!Preference(h)[1]
    <2> DEFINE r == Append(<< >>, c[2])
    <2>1. c[2] \in servers /\ c # Nil BY <1>2
    <2>2. Ranked(h, << >>, MetTo(h, c)) BY <1>5, RankedNone
    <2>3. c[2] \notin Range(<< >>) BY DEF Range
    <2>4. Ranked(h, IF c[2] \in Range(<< >>) THEN << >> ELSE Append(<< >>, c[2]), MetTo(h, c) \cup {c})
      BY <1>1, <2>2, RankedMore DEF P
    <2>5. Ranked(h, r, MetTo(h, c) \cup {c}) BY <2>3, <2>4
    <2>6. r # << >> /\ r[1] = c[2] OBVIOUS
    <2> HIDE DEF r
    <2>7. Abstract!Preference(h)[1] = c[2] BY <1>1, <2>5, <2>6, PreferenceAt
    <2>8. Owner(c) = c[2] BY <2>1 DEF Owner
    <2> QED BY <2>1, <2>7, <2>8
  <1>6. CASE c0 # Nil
    <2>1. c0 \in P /\ MetTo(h, c0) = {} BY <1>3, <1>6 DEF Met
    <2> QED BY <1>4, <1>5, <1>6, <2>1
  <1>7. CASE c0 = Nil /\ Root(t) = Nil
    <2>1. P = {} BY <1>1, <1>7, RootAt
    <2>2. servers = {} BY <1>1, <2>1, PointsAt DEF P
    <2> QED BY <1>4, <1>7, <2>2
  <1>8. CASE c0 = Nil /\ Root(t) # Nil
    <2> DEFINE none == NoIterator
               i == NextOf(t, NoIterator)
               e == i.cursor
    <2>1. none.cursor = Nil BY DEF NoIterator
    <2>2. i = MinNode(t, << >>, Root(t)) BY <1>8, <2>1 DEF NextOf
    <2>3. LookupIn(t, h) = Owner(e) BY <1>4, <1>8, <2>2
    <2>4. Walker(t, I, NoIterator) BY DEF Walker
    <2>5. Reaches(t, I, i, P) BY <1>1, <2>1, <2>4, NextRound
    <2> HIDE DEF i
    <2>6. LeastOf(P, e) BY <2>5, ReachesLeast
    <2>7. P # {} BY <1>1, <1>8, RootAt
    <2>8. e \in P /\ e # Nil BY <1>2, <2>6, <2>7 DEF LeastOf
    <2> HIDE DEF e
    <2>9. Met(h, Nil) = {} BY <1>3, <1>8
    <2>10. Met(h, e) = {}
      <3>1. Nil \in RingPoints(servers) \cup {Nil} /\ LeastOf(NotBelow(h), Nil) BY <1>3, <1>8
      <3>2. e # Nil => Met(h, e) = Met(h, Nil) BY <1>1, <2>6, <3>1, CircleStep DEF P
      <3> QED BY <2>8, <2>9, <3>2
    <2>11. MetTo(h, e) = {} BY <2>8, <2>10 DEF Met
    <2> QED BY <1>5, <2>3, <2>8, <2>11
  <1> QED BY <1>6, <1>7, <1>8

(* A pass of lookupN's loop (200-226). *)
RoundOn(t, start, wanted, w) ==
  LET s == Owner(w.iter.cursor)
      result == IF s = Nil \/ s \in Range(w.result) THEN w.result ELSE Append(w.result, s)
      next == NextOf(t, IF s = Nil THEN NoIterator ELSE w.iter)
  IN IF w.done THEN w
     ELSE [iter |-> next, result |-> result,
           done |-> Len(result) >= wanted \/ next.cursor = start.cursor]

(* lookupN runs. *)
LEMMA RoundRuns ==
  ASSUME NEW t, NEW h, NEW n, Cardinality(t.nodes) \in Nat, NEW start, start = UpperBound(t, <<h, 0>>),
         NEW wanted, wanted = Min({n, Cardinality(servers)})
  PROVE  \E f : /\ f[0] = [iter |-> start, result |-> << >>, done |-> FALSE]
                /\ LookupNIn(t, h, n) = f[Cardinality(t.nodes)].result
                /\ \A k \in 1..Cardinality(t.nodes) : f[k] = RoundOn(t, start, wanted, f[k - 1])
  <1> DEFINE m == Cardinality(t.nodes)
             from == [iter |-> start, result |-> << >>, done |-> FALSE]
             Runs(f, k) == f = [j \in 0..k |-> IF j = 0 THEN from ELSE RoundOn(t, start, wanted, f[j - 1])]
             S == {k \in Nat : \E f : Runs(f, k)}
  <1>1. Runs([j \in 0..0 |-> from], 0) OBVIOUS
  <1>2. ASSUME NEW k \in Nat, k \in S PROVE k + 1 \in S
    <2>1. PICK f : Runs(f, k) BY <1>2
    <2> DEFINE g == [j \in 0..k + 1 |-> IF j = 0 THEN from ELSE RoundOn(t, start, wanted, f[j - 1])]
    <2>2. \A j \in 0..k : g[j] = f[j]
      <3>1. \A j \in 0..k : f[j] = IF j = 0 THEN from ELSE RoundOn(t, start, wanted, f[j - 1]) BY <2>1
      <3>2. \A j \in 0..k : j \in 0..k + 1 OBVIOUS
      <3> HIDE <2>1
      <3> QED BY <3>1, <3>2
    <2>3. \A j \in 0..k + 1 : j # 0 => j - 1 \in 0..k OBVIOUS
    <2>4. \A j \in 0..k + 1 : j # 0 => g[j - 1] = f[j - 1] BY <2>2, <2>3
    <2>5. g = [j \in 0..k + 1 |-> IF j = 0 THEN from ELSE RoundOn(t, start, wanted, g[j - 1])]
      BY <2>4
    <2> HIDE DEF g
    <2>6. Runs(g, k + 1) BY <2>5
    <2> HIDE DEF Runs
    <2>7. \E e : Runs(e, k + 1) BY <2>6
    <2> QED BY <2>7
  <1> HIDE DEF Runs
  <1>3. Nat \subseteq S BY <1>1, <1>2, Inductive
  <1>4. \E f : Runs(f, m) BY <1>3
  <1> DEFINE f == CHOOSE f : Runs(f, m)
  <1>5. Runs(f, m) BY <1>4
  <1>6. LookupNIn(t, h, n) = f[m].result BY DEF LookupNIn, Runs, RoundOn
  <1> HIDE DEF f
  <1>7. f = [j \in 0..m |-> IF j = 0 THEN from ELSE RoundOn(t, start, wanted, f[j - 1])]
    BY <1>5 DEF Runs
  <1>8. f[0] = from BY <1>7
  <1>9. \A j \in 1..m : j \in 0..m /\ j # 0 OBVIOUS
  <1>10. \A j \in 1..m : f[j] = RoundOn(t, start, wanted, f[j - 1]) BY <1>7, <1>9
  <1> QED BY <1>6, <1>8, <1>10

(* How many are wanted: n, or all of them. *)
LEMMA WantedAt ==
  ASSUME NEW n \in Nat, NEW k \in Nat
  PROVE  Min({n, k}) = IF n < k THEN n ELSE k
  <1> DEFINE S == {n, k}
  <1>1. Min(S) = CHOOSE x \in S : \A y \in S : x <= y BY DEF Min
  <1>2. \E x \in S : \A y \in S : x <= y OBVIOUS
  <1> DEFINE x == CHOOSE x \in S : \A y \in S : x <= y
  <1>3. x \in S /\ \A y \in S : x <= y BY <1>2
  <1> HIDE DEF x
  <1>4. x <= n /\ x <= k /\ (x = n \/ x = k) BY <1>3
  <1>5. Min(S) = x BY <1>1 DEF x
  <1> QED BY <1>4, <1>5

(* Where the walk is after k passes: it has the servers of the points it    *)
(* met, too few still, and has met a point in each pass but one; or it is   *)
(* over, and has as many as are wanted.                                     *)
RoundInv(t, I, h, start, wanted, w, k) ==
  \/ /\ w.done = FALSE /\ Walker(t, I, w.iter) /\ w.iter.cursor \in RingPoints(servers) \cup {Nil}
     /\ Ranked(h, w.result, Met(h, w.iter.cursor))
     /\ Len(w.result) < wanted \/ servers = {}
     /\ k <= Cardinality(Met(h, w.iter.cursor)) + (IF Low(h, w.iter.cursor) THEN 1 ELSE 0)
  \/ /\ w.done = TRUE /\ Len(w.result) = wanted /\ \E V : Ranked(h, w.result, V)

(* A pass meets one point more, or the end of the line. *)
LEMMA RoundStep ==
  ASSUME NEW t, NEW I, Planted(t, I), NEW h \in Nat, NEW start, LeastOf(NotBelow(h), start.cursor),
         NEW wanted \in Nat, wanted <= Cardinality(servers),
         NEW w, NEW k \in Nat, RoundInv(t, I, h, start, wanted, w, k)
  PROVE  RoundInv(t, I, h, start, wanted, RoundOn(t, start, wanted, w), k + 1)
  <1> DEFINE P == RingPoints(servers)
             c == w.iter.cursor
             s == Owner(c)
             old == w.result
             result == IF s = Nil \/ s \in Range(old) THEN old ELSE Append(old, s)
             next == NextOf(t, IF s = Nil THEN NoIterator ELSE w.iter)
             e == next.cursor
             c0 == start.cursor
             W == IF c = Nil THEN Met(h, c) ELSE Met(h, c) \cup {c}
             v == RoundOn(t, start, wanted, w)
  <1>1. CASE w.done = TRUE
    <2>1. v = w BY <1>1 DEF RoundOn
    <2> HIDE DEF v
    <2>2. RoundInv(t, I, h, start, wanted, v, k + 1) BY <1>1, <2>1 DEF RoundInv
    <2> QED BY <2>2 DEF v
  <1>2. CASE w.done = FALSE
    <2>1. /\ Walker(t, I, w.iter) /\ c \in P \cup {Nil} /\ Ranked(h, old, Met(h, c))
          /\ Len(old) < wanted \/ servers = {}
          /\ k <= Cardinality(Met(h, c)) + (IF Low(h, c) THEN 1 ELSE 0)
      BY <1>2 DEF RoundInv
    <2>2. Spanned(t, I) /\ KeysOf(t) = P /\ servers \subseteq Server BY DEF Planted
    <2>3. \A p \in P : p \in Point /\ p # Nil /\ p[2] \in servers BY <2>2, PointsAt
    <2>4. s = Nil <=> c = Nil
      <3>1. Nil \notin servers BY <2>2, HashRingAssumption
      <3> QED BY <2>1, <2>3, <3>1 DEF Owner
    <2>5. v = [iter |-> next, result |-> result, done |-> Len(result) >= wanted \/ e = c0]
      BY <1>2 DEF RoundOn
    <2>6. /\ v.iter = next /\ v.result = result
          /\ v.done = (Len(result) >= wanted \/ e = c0)
      BY <2>5
    <2> HIDE DEF v
    <2>7. Ranked(h, result, W)
      <3>1. CASE c = Nil BY <2>1, <2>4, <3>1
      <3>2. CASE c # Nil
        <4>1. c \in P /\ s = c[2] /\ s # Nil BY <2>1, <2>4, <3>2 DEF Owner
        <4>2. Met(h, c) = MetTo(h, c) BY <3>2 DEF Met
        <4>3. Ranked(h, old, MetTo(h, c)) BY <2>1, <4>2
        <4> HIDE DEF c, old
        <4>4. Ranked(h, IF c[2] \in Range(old) THEN old ELSE Append(old, c[2]), MetTo(h, c) \cup {c})
          BY <2>2, <4>1, <4>3, RankedMore
        <4>5. result = IF c[2] \in Range(old) THEN old ELSE Append(old, c[2]) BY <4>1
        <4>6. W = MetTo(h, c) \cup {c} BY <3>2, <4>2
        <4> QED BY <4>4, <4>5, <4>6
      <3> QED BY <3>1, <3>2
    <2>8. /\ Len(old) \in Nat /\ Len(old) <= Cardinality(servers)
          /\ Len(result) \in Nat /\ Len(result) <= Cardinality(servers)
      BY <2>1, <2>2, <2>7, PreferenceAt
    <2>9. Len(result) <= wanted
      <3>1. old \in Seq(servers) BY <2>1 DEF Ranked
      <3>2. Cardinality(servers) \in Nat BY <2>2, PointsAt
      <3>3. CASE servers = {}
        <4>1. Cardinality(servers) = 0 BY <3>3, FS_EmptySet
        <4> QED BY <2>8, <4>1
      <3>4. CASE servers # {}
        <4>1. Len(old) < wanted BY <2>1, <3>4
        <4>2. Len(result) <= Len(old) + 1
          <5>1. Len(Append(old, s)) = Len(old) + 1 BY <3>1
          <5> HIDE DEF old, s
          <5> QED BY <2>8, <5>1
        <4> HIDE DEF old, result
        <4> QED BY <2>8, <4>1, <4>2
      <3> QED BY <3>3, <3>4
    <2>10. /\ Walker(t, I, next)
           /\ c = Nil => LeastOf(P, e)
           /\ c # Nil => LeastOf({q \in P : Less(c, q)}, e)
      <3> DEFINE S == IF c = Nil THEN P ELSE Beyond(t, c)
      <3>1. next = NextOf(t, IF c = Nil THEN NoIterator ELSE w.iter) BY <2>4
      <3> HIDE DEF next
      <3>2. Reaches(t, I, next, S) BY <2>1, <2>2, <3>1, NextRound
      <3>3. Walker(t, I, next) /\ LeastOf(S, e) BY <3>2, ReachesLeast
      <3>4. Beyond(t, c) = {q \in P : Less(c, q)} BY <2>2 DEF Beyond
      <3> QED BY <3>3, <3>4
    <2> HIDE DEF next, result, s
    <2>11. /\ e = c0 => W = P
           /\ e # c0 => Met(h, e) = W /\ (c = Nil \/ Low(h, c) => Low(h, e))
           /\ e \in P \cup {Nil} /\ c \notin Met(h, c)
      <3>1. c \in P \cup {Nil} /\ LeastOf(NotBelow(h), c0) BY <2>1
      <3> HIDE DEF c, e, c0
      <3> QED BY <2>2, <2>10, <3>1, CircleStep
    <2>12. CASE Len(result) >= wanted \/ e = c0
      <3>1. v.done = TRUE BY <2>6, <2>12
      <3>2. Len(result) = wanted
        <4>1. CASE e = c0
          <5>1. Ranked(h, result, P) BY <2>7, <2>11, <4>1
          <5>2. Range(result) = {q[2] : q \in P} /\ Cardinality(Range(result)) = Len(result)
            BY <5>1 DEF Ranked
          <5>3. {q[2] : q \in P} = servers
            <6>1. \A q \in P : q[2] \in servers BY <2>3
            <6>2. \A y \in servers : \E q \in P : q[2] = y BY <2>2, PointsAt
            <6> HIDE DEF P
            <6> QED BY <6>1, <6>2
          <5>4. Len(result) = Cardinality(servers) BY <5>2, <5>3
          <5> QED BY <2>8, <2>9, <5>4
        <4>2. CASE Len(result) >= wanted BY <2>8, <2>9, <4>2
        <4> QED BY <2>12, <4>1, <4>2
      <3>3. RoundInv(t, I, h, start, wanted, v, k + 1) BY <2>6, <2>7, <3>1, <3>2 DEF RoundInv
      <3> QED BY <3>3 DEF v
    <2>13. CASE ~(Len(result) >= wanted) /\ e # c0
      <3>1. v.done = FALSE BY <2>6, <2>13
      <3>2. Len(result) < wanted BY <2>8, <2>13
      <3>3. Met(h, e) = W /\ (c = Nil \/ Low(h, c) => Low(h, e)) BY <2>11, <2>13
      <3>4. Ranked(h, result, Met(h, e)) BY <2>7, <3>3
      <3>5. k + 1 <= Cardinality(Met(h, e)) + (IF Low(h, e) THEN 1 ELSE 0)
        <4>1. IsFiniteSet(P)
          <5>1. IsFiniteSet(t.nodes) /\ P \subseteq t.nodes BY <2>2, RootAt
          <5> QED BY <5>1, FS_Subset
        <4>2. Met(h, c) \subseteq P BY DEF Met, MetTo, NotBelow
        <4>3. IsFiniteSet(Met(h, c)) BY <4>1, <4>2, FS_Subset
        <4>4. Cardinality(Met(h, c)) \in Nat BY <4>3, FS_CardinalityType
        <4>5. CASE c = Nil
          <5>1. Low(h, e) /\ ~Low(h, c) /\ Met(h, e) = Met(h, c) BY <3>3, <4>5 DEF Low
          <5> QED BY <2>1, <4>4, <5>1
        <4>6. CASE c # Nil
          <5>1. Met(h, e) = Met(h, c) \cup {c} BY <3>3, <4>6
          <5>2. Cardinality(Met(h, e)) = Cardinality(Met(h, c)) + 1
            BY <2>11, <4>3, <5>1, FS_AddElement
          <5>3. Low(h, c) => Low(h, e) BY <3>3
          <5> HIDE DEF c, e
          <5>4. CASE Low(h, c) BY <2>1, <4>4, <5>2, <5>3, <5>4
          <5>5. CASE ~Low(h, c) BY <2>1, <4>4, <5>2, <5>5
          <5> QED BY <5>4, <5>5
        <4> QED BY <4>5, <4>6
      <3>6. RoundInv(t, I, h, start, wanted, v, k + 1)
        BY <2>6, <2>10, <2>11, <3>1, <3>2, <3>4, <3>5 DEF RoundInv
      <3> QED BY <3>6 DEF v
    <2> QED BY <2>12, <2>13
  <1> QED BY <1>1, <1>2 DEF RoundInv

(* lookupN answers with the first n servers that are met (195-228).         *)
LEMMA LookupNAt ==
  ASSUME NEW t, NEW I, Planted(t, I), NEW h \in Nat, NEW n \in Nat, n >= 1
  PROVE  LookupNIn(t, h, n) =
           SubSeq(Abstract!Preference(h), 1,
                  IF n < Cardinality(servers) THEN n ELSE Cardinality(servers))
  <1> DEFINE m == Cardinality(t.nodes)
             start == UpperBound(t, <<h, 0>>)
             wanted == Min({n, Cardinality(servers)})
             from == [iter |-> start, result |-> << >>, done |-> FALSE]
             P == RingPoints(servers)
  <1>1. /\ IsFiniteSet(t.nodes) /\ Fake \in t.nodes /\ P = t.nodes \ {Fake}
        /\ Spanned(t, I) /\ servers \subseteq Server /\ Cardinality(servers) \in Nat
    <2>1. Spanned(t, I) /\ KeysOf(t) = P /\ servers \subseteq Server BY DEF Planted
    <2> QED BY <2>1, RootAt, PointsAt
  <1>2. m \in Nat BY <1>1, FS_CardinalityType
  <1>3. /\ wanted = IF n < Cardinality(servers) THEN n ELSE Cardinality(servers)
        /\ wanted \in Nat /\ wanted <= Cardinality(servers)
    <2>1. wanted = IF n < Cardinality(servers) THEN n ELSE Cardinality(servers)
      BY <1>1, WantedAt
    <2> HIDE DEF wanted
    <2> QED BY <1>1, <2>1
  <1>4. /\ Walker(t, I, start) /\ LeastOf(NotBelow(h), start.cursor)
        /\ start.cursor \in RingPoints(servers) \cup {Nil}
        /\ Met(h, start.cursor) = {} /\ ~Low(h, start.cursor)
    BY StartAt
  <1>5. PICK f : /\ f[0] = from /\ LookupNIn(t, h, n) = f[m].result
                 /\ \A k \in 1..m : f[k] = RoundOn(t, start, wanted, f[k - 1])
    <2>1. Cardinality(t.nodes) \in Nat BY <1>2
    <2>2. start = UpperBound(t, <<h, 0>>) /\ wanted = Min({n, Cardinality(servers)}) OBVIOUS
    <2> HIDE DEF start, wanted
    <2> QED BY ONLY <2>1, <2>2, RoundRuns DEF m, from
  <1> HIDE DEF start, wanted
  <1>6. RoundInv(t, I, h, start, wanted, f[0], 0)
    <2>1. /\ f[0] = from /\ from.iter = start /\ from.result = << >> /\ from.done = FALSE
      BY <1>5
    <2> HIDE DEF from
    <2>2. Ranked(h, << >>, Met(h, start.cursor)) BY <1>4, RankedNone
    <2>3. Len(<< >>) < wanted \/ servers = {}
      <3>1. servers # {} => Cardinality(servers) # 0 BY <1>1, FS_EmptySet, FS_Subset, HashRingAssumption
      <3> QED BY <1>1, <1>3, <3>1
    <2>4. 0 <= Cardinality(Met(h, start.cursor)) + (IF Low(h, start.cursor) THEN 1 ELSE 0)
      <3>1. Cardinality({}) = 0 BY FS_EmptySet
      <3> QED BY <1>4, <3>1
    <2> QED BY <1>4, <2>1, <2>2, <2>3, <2>4 DEF RoundInv
  <1> HIDE DEF from
  <1> DEFINE S == {k \in Nat : k <= m => RoundInv(t, I, h, start, wanted, f[k], k)}
  <1>7. 0 \in S BY <1>6
  <1>8. ASSUME NEW k \in Nat, k \in S PROVE k + 1 \in S
    <2> SUFFICES ASSUME k + 1 <= m PROVE RoundInv(t, I, h, start, wanted, f[k + 1], k + 1)
      OBVIOUS
    <2>1. k <= m /\ k + 1 \in 1..m /\ (k + 1) - 1 = k BY <1>2
    <2>2. RoundInv(t, I, h, start, wanted, f[k], k) BY <1>8, <2>1
    <2>3. f[k + 1] = RoundOn(t, start, wanted, f[k]) BY <1>5, <2>1
    <2>4. RoundInv(t, I, h, start, wanted, RoundOn(t, start, wanted, f[k]), k + 1)
      BY <1>3, <1>4, <2>2, RoundStep
    <2> QED BY <2>3, <2>4
  <1>9. m \in S
    <2> HIDE DEF S
    <2>1. Nat \subseteq S BY <1>7, <1>8, Inductive
    <2> QED BY <1>2, <2>1
  <1> DEFINE w == f[m]
             c == w.iter.cursor
  <1>10. RoundInv(t, I, h, start, wanted, w, m) BY <1>2, <1>9
  <1> HIDE DEF w
  <1>11. ASSUME w.done = FALSE PROVE FALSE
    <2>1. /\ c \in P \cup {Nil} /\ m <= Cardinality(Met(h, c)) + (IF Low(h, c) THEN 1 ELSE 0)
      BY <1>10, <1>11 DEF RoundInv
    <2> DEFINE V == Met(h, c)
    <2>2. V \subseteq P BY DEF Met, MetTo, NotBelow
    <2>3. IsFiniteSet(P) /\ Fake \notin P /\ P \subseteq t.nodes BY <1>1, FS_Subset
    <2>4. Cardinality(P) + 1 <= m /\ Cardinality(P) \in Nat
      <3> HIDE DEF P
      <3> QED BY <1>1, <2>3, Shrinks
    <2>5. CASE c = Nil
      <3>1. ~Low(h, c) BY <2>5 DEF Low
      <3>2. Cardinality(V) \in Nat /\ Cardinality(V) <= Cardinality(P)
        BY <2>2, <2>3, FS_Subset, FS_CardinalityType
      <3> HIDE DEF V, P, c, m
      <3>3. m <= Cardinality(V) BY <2>1, <3>1, <3>2 DEF V
      <3> QED BY <1>2, <2>4, <3>2, <3>3
    <2>6. CASE c # Nil
      <3>1. c \in P BY <2>1, <2>6
      <3>2. c \notin V
        <4>1. c \in Point BY <1>1, <3>1, PointsAt
        <4>2. ~Abstract!Before(h, c, c) BY <4>1, CircleOrder
        <4> QED BY <2>6, <4>2 DEF Met, MetTo
      <3> HIDE DEF V, P, c
      <3>3. Cardinality(V) \in Nat /\ Cardinality(V) + 1 <= Cardinality(P)
        BY <2>2, <2>3, <3>1, <3>2, Shrinks
      <3> HIDE DEF m
      <3>4. m <= Cardinality(V) + 1 BY <1>2, <2>1, <3>3 DEF V
      <3> QED BY <1>2, <2>4, <3>3, <3>4
    <2> QED BY <2>5, <2>6
  <1>12. Len(w.result) = wanted /\ \E V : Ranked(h, w.result, V) BY <1>10, <1>11 DEF RoundInv
  <1>13. PICK V : Ranked(h, w.result, V) BY <1>12
  <1>14. w.result = SubSeq(Abstract!Preference(h), 1, wanted) BY <1>1, <1>12, <1>13, PreferenceAt
  <1> QED BY <1>3, <1>5, <1>14 DEF w

----------------------------------------------------------------------------
(* HashRing implements Ring.                                              *)

(* The tree of the ring is planted.                                        *)
LEMMA RingPlanted ==
  ASSUME RingInv
  PROVE  \E I : Planted(tree, I)
  <1>1. Ring.servers = servers /\ Ring.tree = tree BY DEF Ring
  <1>2. servers \subseteq Server /\ Sound(tree, RingPoints(servers)) BY <1>1 DEF RingInv, Kept
  <1>3. PICK I, b, h : Certified(tree, I, b, h) BY <1>2 DEF Sound
  <1>4. KeysOf(tree) = RingPoints(servers) BY <1>2 DEF Sound
  <1>5. Spanned(tree, I) BY <1>3 DEF Certified, Spanned
  <1> QED BY <1>2, <1>4, <1>5 DEF Planted

(* An operation of the ring is one of the abstract ring, or changes        *)
(* nothing that it has (index.js 62-228).                                  *)
LEMMA RingNext_Abstract ==
  ASSUME RingInv, RingInv', [RingNext]_ringVars
  PROVE  [Abstract!Next]_<<servers, checksum, found>>
  <1>1. ASSUME NEW v, Becomes(v) PROVE Abstract!Next
    <2>1. servers' = v.servers /\ checksum' = v.servers /\ found' = found BY <1>1 DEF Becomes
    <2>2. servers' \subseteq Server
      <3>1. Ring'.servers = servers' BY DEF Ring
      <3> QED BY <3>1 DEF RingInv, Kept
    <2>3. Abstract!Change BY <2>1, <2>2 DEF Abstract!Change
    <2> QED BY <2>3 DEF Abstract!Next
  <1>2. PICK I : Planted(tree, I) BY RingPlanted
  <1>3. ASSUME NEW h \in KeyHash, Lookup(h) PROVE Abstract!Next
    <2>1. h \in Nat BY HashRingAssumption
    <2>2. LookupIn(tree, h) = IF servers = {} THEN Nil ELSE Abstract!Preference(h)[1]
      BY <1>2, <2>1, LookupAt
    <2>3. Abstract!Lookup(h) BY <1>3, <2>2 DEF Lookup, Abstract!Lookup
    <2> QED BY <2>3 DEF Abstract!Next
  <1>4. ASSUME NEW h \in KeyHash, NEW n \in 1..MaxWanted, LookupN(h, n) PROVE Abstract!Next
    <2>1. h \in Nat /\ n \in Nat /\ n >= 1 BY HashRingAssumption
    <2>2. LookupNIn(tree, h, n) =
            SubSeq(Abstract!Preference(h), 1,
                   IF n < Cardinality(servers) THEN n ELSE Cardinality(servers))
      BY <1>2, <2>1, LookupNAt
    <2>3. Abstract!Cardinality(servers) = Cardinality(servers) BY SameCardinality
    <2>4. Abstract!LookupN(h, n) BY <1>4, <2>2, <2>3 DEF LookupN, Abstract!LookupN
    <2> QED BY <2>4 DEF Abstract!Next
  <1>5. CASE UNCHANGED ringVars BY <1>5 DEF ringVars
  <1>6. ASSUME NEW s \in Server, AddServer(s) \/ RemoveServer(s) PROVE Abstract!Next
    BY <1>1, <1>6 DEF AddServer, RemoveServer
  <1>7. ASSUME NEW add \in Lists, NEW remove \in Lists, AddRemoveServers(add, remove)
        PROVE  Abstract!Next
    BY <1>1, <1>7 DEF AddRemoveServers
  <1>8. CASE RingNext BY <1>3, <1>4, <1>6, <1>7, <1>8 DEF RingNext
  <1> QED BY <1>5, <1>8

(* What Ring promises of a key: its preferences are all servers, each of   *)
(* them once, and the ones met earlier come first.                         *)
THEOREM PreferenceIsOrder ==
  ASSUME servers \subseteq Server, NEW h \in Nat
  PROVE  LET n == Cardinality(servers)
             f == Abstract!Preference(h)
         IN /\ f \in [1..n -> servers]
            /\ \A s \in servers : \E k \in 1..n : f[k] = s
            /\ \A j, k \in 1..n : j < k =>
                 /\ f[j] # f[k]
                 /\ Abstract!Before(h, Abstract!FirstOf(h, f[j]), Abstract!FirstOf(h, f[k]))
  <1> DEFINE n == Cardinality(servers)
             f == Abstract!Preference(h)
             F(y) == Abstract!FirstOf(h, y)
             R(y) == Abstract!Rank(h, y)
             r == [s \in servers |-> R(s)]
  <1>1. f = [k \in 1..n |-> CHOOSE s \in servers : R(s) = k]
    BY SameCardinality DEF Abstract!Preference
  <1>2. n \in Nat /\ IsFiniteSet(servers) BY PointsAt
  <1>3. \A s \in servers : R(s) \in 1..n BY RankGrows
  <1>4. \A s, x \in servers : R(s) = R(x) => s = x BY RankOnce
  <1>5. \A s, x \in servers : Abstract!Before(h, F(s), F(x)) => R(s) < R(x) BY RankGrows
  <1>6. \A s \in servers : F(s) \in Point /\ F(s)[2] = s BY FirstAt
  <1> HIDE DEF n, f, F, R
  <1>7. \A k \in 1..n : \E s \in servers : R(s) = k
    <2>1. r \in Injection(servers, 1..n) BY <1>3, <1>4 DEF Injection, IsInjective
    <2>2. IsFiniteSet(1..n) /\ Cardinality(1..n) = n
      <3>1. 1 \in Int /\ n \in Int BY <1>2
      <3>2. IsFiniteSet(1..n) /\ Cardinality(1..n) = IF 1 > n THEN 0 ELSE n - 1 + 1
        BY <3>1, FS_Interval
      <3> QED BY <1>2, <3>2
    <2> HIDE DEF r
    <2>3. r \in Surjection(servers, 1..n) BY <2>1, <2>2, FS_Injection DEF n
    <2> QED BY <2>3 DEF Surjection, r
  <1>8. \A k \in 1..n : f[k] \in servers /\ R(f[k]) = k
    <2> SUFFICES ASSUME NEW k \in 1..n PROVE f[k] \in servers /\ R(f[k]) = k
      OBVIOUS
    <2> DEFINE g == CHOOSE s \in servers : R(s) = k
    <2>1. g \in servers /\ R(g) = k BY <1>7
    <2>2. f[k] = g BY <1>1
    <2> HIDE DEF g
    <2> QED BY <2>1, <2>2
  <1>9. f \in [1..n -> servers]
    <2>1. f = [k \in 1..n |-> f[k]] BY <1>1
    <2> QED BY <1>8, <2>1
  <1>10. \A s \in servers : \E k \in 1..n : f[k] = s BY <1>3, <1>4, <1>8
  <1>11. ASSUME NEW j \in 1..n, NEW k \in 1..n, j < k
         PROVE  f[j] # f[k] /\ Abstract!Before(h, F(f[j]), F(f[k]))
    <2>1. f[j] \in servers /\ f[k] \in servers /\ R(f[j]) = j /\ R(f[k]) = k BY <1>8
    <2>2. f[j] # f[k] BY <1>11, <2>1
    <2>3. F(f[j]) # F(f[k]) BY <1>6, <2>1, <2>2
    <2>4. ~Abstract!Before(h, F(f[k]), F(f[j]))
      <3>1. ~(k < j) BY <1>2, <1>11
      <3> QED BY <1>5, <2>1, <3>1
    <2>5. Abstract!Before(h, F(f[j]), F(f[k]))
      <3>1. F(f[j]) \in Point /\ F(f[k]) \in Point BY <1>6, <2>1
      <3> QED BY <2>3, <2>4, <3>1, CircleOrder
    <2> QED BY <2>2, <2>5
  <1> QED BY <1>9, <1>10, <1>11 DEF n, f, F

(* HashRing implements Ring: whatever servers come and go, lookup and      *)
(* lookupN (index.js 182-228) find what one meets who walks around the     *)
(* circle, whatever tree holds the points.                                 *)
THEOREM RingAnswersAsAbstract == RingSpec => RingImplements
  <1>1. RingInit => Abstract!Init BY DEF RingInit, Abstract!Init
  <1>2. RingInit => RingInv BY RingInit_Inv
  <1>3. RingInv /\ [RingNext]_ringVars => RingInv' BY RingNext_Inv
  <1>4. RingInv /\ RingInv' /\ [RingNext]_ringVars
          => [Abstract!Next]_<<servers, checksum, found>>
    BY RingNext_Abstract
  <1> QED BY <1>1, <1>2, <1>3, <1>4, PTL DEF RingSpec, RingImplements, Abstract!Spec, Abstract!vars
================================================================================
