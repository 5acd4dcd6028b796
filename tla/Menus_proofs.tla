---------------------------- MODULE Menus_proofs ----------------------------
(***************************************************************************)
(* Theorems about Menus, for any names, any width and any number of rows,  *)
(* inputs and changes.  A recursive definition is unfolded first, by       *)
(* Induction: that of PiecesOf, Atoi, Sorted, FilterActions, FlattenSeq,   *)
(* Columns and Paginate.                                                   *)
(***************************************************************************)
EXTENDS Menus, SequenceTheorems, Induction

-----------------------------------------------------------------------------
(* Orders of sequences                                                     *)

\* R is a strict total order on T.
StrictOrder(T, R) ==
    /\ \A x \in T : <<x, x>> \notin R
    /\ \A x, y, z \in T : <<x, y>> \in R /\ <<y, z>> \in R => <<x, z>> \in R
    /\ \A x, y \in T : x = y \/ <<x, y>> \in R \/ <<y, x>> \in R

\* The first difference decides, at i; of a sequence and its continuation the
\* longer one is less.
LessAt(p, q, R, i) ==
    /\ \A j \in 1..(i - 1) : j <= Len(q) /\ p[j] = q[j]
    /\ i > Len(q) \/ <<p[i], q[i]>> \in R

LexLess(p, q, R) == \E i \in 1..Len(p) : LessAt(p, q, R, i)

LexOrder(T, R) == {z \in Seq(T) \X Seq(T) : LexLess(z[1], z[2], R)}

\* That is an order of sequences if R is one of their elements.
LEMMA LexIsOrder ==
    ASSUME NEW T, NEW R, StrictOrder(T, R)
    PROVE  StrictOrder(Seq(T), LexOrder(T, R))
<1>1. \A p \in Seq(T) : Len(p) \in Nat /\ \A i \in 1..Len(p) : p[i] \in T
  OBVIOUS
<1>2. ASSUME NEW p \in Seq(T) PROVE ~LexLess(p, p, R)
  <2>1. ASSUME NEW i \in 1..Len(p) PROVE ~LessAt(p, p, R, i)
    <3>1. p[i] \in T /\ ~(i > Len(p))
      BY <1>1
    <3>2. QED BY <3>1 DEF LessAt, StrictOrder
  <2>2. QED BY <2>1 DEF LexLess
<1>3. ASSUME NEW p \in Seq(T), NEW q \in Seq(T), NEW r \in Seq(T),
             LexLess(p, q, R), LexLess(q, r, R)
      PROVE  LexLess(p, r, R)
  <2>1. PICK i \in 1..Len(p) : LessAt(p, q, R, i)
    BY <1>3 DEF LexLess
  <2>2. PICK j \in 1..Len(q) : LessAt(q, r, R, j)
    BY <1>3 DEF LexLess
  <2>3. /\ Len(p) \in Nat /\ Len(q) \in Nat /\ Len(r) \in Nat /\ i \in Nat /\ j \in Nat
        /\ p[i] \in T /\ q[j] \in T
    BY <1>1
  <2>4. CASE i < j
    <3>1. i \in 1..(j - 1) /\ i <= Len(q) /\ i \in 1..Len(q)
      BY <2>3, <2>4
    <3>2. i <= Len(r) /\ q[i] = r[i] /\ <<p[i], q[i]>> \in R
      BY <2>1, <2>2, <2>3, <3>1 DEF LessAt
    <3>3. ASSUME NEW l \in 1..(i - 1) PROVE l <= Len(r) /\ p[l] = r[l]
      <4>1. l \in 1..(j - 1)
        BY <2>3, <2>4
      <4>2. QED BY <2>1, <2>2, <4>1 DEF LessAt
    <3>4. LessAt(p, r, R, i)
      BY <3>2, <3>3 DEF LessAt
    <3>5. QED BY <3>4 DEF LexLess
  <2>5. CASE i = j
    <3>1. <<p[i], q[i]>> \in R
      BY <2>1, <2>3, <2>5 DEF LessAt
    <3>2. i > Len(r) \/ <<p[i], r[i]>> \in R
      <4>1. CASE i > Len(r)
        BY <4>1
      <4>2. CASE ~(i > Len(r))
        <5>1. <<q[i], r[i]>> \in R
          BY <2>2, <2>5, <4>2 DEF LessAt
        <5>2. i \in 1..Len(r)
          BY <2>3, <4>2
        <5>3. r[i] \in T
          BY <1>1, <5>2
        <5>4. QED BY <2>3, <2>5, <3>1, <5>1, <5>3 DEF StrictOrder
      <4>3. QED BY <4>1, <4>2
    <3>3. ASSUME NEW l \in 1..(i - 1) PROVE l <= Len(r) /\ p[l] = r[l]
      BY <2>1, <2>2, <2>5 DEF LessAt
    <3>4. LessAt(p, r, R, i)
      BY <3>2, <3>3 DEF LessAt
    <3>5. QED BY <3>4 DEF LexLess
  <2>6. CASE j < i
    <3>1. j \in 1..(i - 1) /\ j \in 1..Len(p)
      BY <2>3, <2>6
    <3>2. p[j] = q[j]
      BY <2>1, <3>1 DEF LessAt
    <3>3. ASSUME NEW l \in 1..(j - 1) PROVE l <= Len(r) /\ p[l] = r[l]
      <4>1. l \in 1..(i - 1)
        BY <2>3, <2>6
      <4>2. QED BY <2>1, <2>2, <4>1 DEF LessAt
    <3>4. LessAt(p, r, R, j)
      BY <2>2, <3>2, <3>3 DEF LessAt
    <3>5. QED BY <3>1, <3>4 DEF LexLess
  <2>7. QED BY <2>3, <2>4, <2>5, <2>6
<1>4. ASSUME NEW p \in Seq(T), NEW q \in Seq(T), p # q
      PROVE  LexLess(p, q, R) \/ LexLess(q, p, R)
  <2> DEFINE Differs(i) == i > Len(p) \/ i > Len(q) \/ p[i] # q[i]
             D == {i \in Nat \ {0} : (i <= Len(p) \/ i <= Len(q)) /\ Differs(i)}
             i == Min(D)
  <2>1. Len(p) \in Nat /\ Len(q) \in Nat
    BY <1>1
  <2>2. D # {}
    <3>1. SUFFICES ASSUME D = {} PROVE FALSE
      OBVIOUS
    <3>2. \A k \in Nat \ {0} : k <= Len(p) => k <= Len(q) /\ p[k] = q[k]
      BY <2>1, <3>1
    <3>3. \A k \in Nat \ {0} : k <= Len(q) => k <= Len(p)
      BY <2>1, <3>1
    <3>4. Len(p) = Len(q)
      <4>1. Len(p) # 0 => Len(p) <= Len(q)
        BY <2>1, <3>2
      <4>2. Len(q) # 0 => Len(q) <= Len(p)
        BY <2>1, <3>3
      <4>3. QED BY <2>1, <4>1, <4>2
    <3>5. \A k \in 1..Len(p) : p[k] = q[k]
      BY <2>1, <3>2
    <3>6. p = q
      BY <3>4, <3>5, SeqEqual
    <3>7. QED BY <1>4, <3>6
  <2>3. i \in D /\ \A k \in D : i <= k
    <3>1. D \in SUBSET Nat
      OBVIOUS
    <3> HIDE DEF D
    <3>2. QED BY <2>2, <3>1, MinExists
  <2> HIDE DEF i
  <2>4. i \in Nat \ {0} /\ (i <= Len(p) \/ i <= Len(q)) /\ Differs(i)
    BY <2>3
  <2>5. ASSUME NEW j \in 1..(i - 1) PROVE j <= Len(p) /\ j <= Len(q) /\ p[j] = q[j]
    <3>1. j \in Nat \ {0} /\ j < i
      BY <2>4
    <3>2. j \notin D
      BY <2>3, <2>4, <3>1
    <3>3. j <= Len(p) \/ j <= Len(q)
      BY <2>1, <2>4, <3>1
    <3>4. QED BY <2>1, <3>1, <3>2, <3>3
  <2>6. CASE i > Len(q)
    <3>1. LessAt(p, q, R, i) /\ i \in 1..Len(p)
      BY <2>1, <2>4, <2>5, <2>6 DEF LessAt
    <3>2. QED BY <3>1 DEF LexLess
  <2>7. CASE i > Len(p)
    <3>1. LessAt(q, p, R, i) /\ i \in 1..Len(q)
      BY <2>1, <2>4, <2>5, <2>7 DEF LessAt
    <3>2. QED BY <3>1 DEF LexLess
  <2>8. CASE i <= Len(p) /\ i <= Len(q)
    <3>1. i \in 1..Len(p) /\ i \in 1..Len(q) /\ p[i] # q[i]
      BY <2>1, <2>4, <2>8
    <3>2. <<p[i], q[i]>> \in R \/ <<q[i], p[i]>> \in R
      BY <1>1, <3>1 DEF StrictOrder
    <3>3. LessAt(p, q, R, i) \/ LessAt(q, p, R, i)
      BY <2>5, <3>2 DEF LessAt
    <3>4. QED BY <3>1, <3>3 DEF LexLess
  <2>9. QED BY <2>1, <2>4, <2>6, <2>7, <2>8
<1>5. \A p, q \in Seq(T) : <<p, q>> \in LexOrder(T, R) <=> LexLess(p, q, R)
  BY DEF LexOrder
<1>6. QED BY <1>2, <1>3, <1>4, <1>5 DEF StrictOrder
\* The last element of a sequence exchanged for another, ...
LEMMA LastReplaced ==
    ASSUME NEW T, NEW s \in Seq(T), s # << >>, NEW x \in T
    PROVE  LET t == Front(s) \o <<x>> IN
           /\ t \in Seq(T) /\ Len(t) = Len(s) /\ t[Len(s)] = x
           /\ \A i \in 1..(Len(s) - 1) : t[i] = s[i]
<1> DEFINE n == Len(s)
           r == SubSeq(s, 1, n - 1)
<1>1. n \in Nat \ {0} /\ \A i \in 1..n : s[i] \in T
  OBVIOUS
<1>2. r \in Seq(T) /\ Len(r) = n - 1 /\ \A i \in 1..(n - 1) : r[i] = s[i]
  <2>1. \A i \in 1..(n - 1) : s[i] \in T
    BY <1>1
  <2> HIDE DEF r, n
  <2>2. 1 \in Int /\ n - 1 \in Int
    BY <1>1
  <2>3. /\ SubSeq(s, 1, n - 1) \in Seq(T)
        /\ Len(SubSeq(s, 1, n - 1)) = IF 1 <= n - 1 THEN (n - 1) - 1 + 1 ELSE 0
        /\ \A i \in 1..((n - 1) - 1 + 1) : SubSeq(s, 1, n - 1)[i] = s[1 + i - 1]
    BY <2>1, <2>2, SubSeqProperties
  <2>4. QED BY <1>1, <2>3 DEF r
<1> HIDE DEF r
<1>3. <<x>> \in Seq(T) /\ Len(<<x>>) = 1 /\ <<x>>[1] = x
  OBVIOUS
<1> DEFINE t == r \o <<x>>
<1>4. /\ t \in Seq(T) /\ Len(t) = n
      /\ \A i \in 1..n : t[i] = IF i <= n - 1 THEN r[i] ELSE <<x>>[i - (n - 1)]
  BY <1>1, <1>2, <1>3, ConcatProperties
<1>5. t[n] = x /\ \A i \in 1..(n - 1) : t[i] = s[i]
  BY <1>1, <1>2, <1>3, <1>4
<1>6. QED BY <1>4, <1>5 DEF Front, r

-----------------------------------------------------------------------------
(* Order of names                                                          *)

\* A piece of a name is not empty, and all digits or none.
Piece(u) ==
    /\ u \in Seq(Nat) /\ u # << >>
    /\ \A i \in 1..Len(u) : IsDigit(u[i]) <=> IsDigit(u[1])

Pieces == {ps \in Seq(Seq(Nat)) : \A i \in 1..Len(ps) : Piece(ps[i])}

\* PiecesOf takes one character at a time.
AddPiece(pieces, c) ==
    IF pieces # << >> /\ IsDigit(Last(Last(pieces))) = IsDigit(c)
    THEN Front(pieces) \o <<Append(Last(pieces), c)>>
    ELSE Append(pieces, <<c>>)

LEMMA AddedPiece ==
    ASSUME NEW ps \in Pieces, NEW c \in Nat
    PROVE  AddPiece(ps, c) \in Pieces
<1>1. ps \in Seq(Seq(Nat)) /\ Len(ps) \in Nat /\ \A i \in 1..Len(ps) : Piece(ps[i])
  BY DEF Pieces
<1>2. CASE ps # << >> /\ IsDigit(Last(Last(ps))) = IsDigit(c)
  <2> DEFINE n == Len(ps)
             u == ps[n]
             new == Append(u, c)
  <2>1. n \in Nat \ {0} /\ Piece(u) /\ u \in Seq(Nat)
    BY <1>1, <1>2 DEF Piece
  <2>3. Len(u) \in Nat \ {0} /\ u[Len(u)] \in Nat
    BY <2>1 DEF Piece
  <2>4. (c <= 9) <=> (u[1] <= 9)
    BY <1>2, <2>1, <2>3 DEF Piece, Last, IsDigit
  <2>5. new \in Seq(Nat) /\ new # << >> /\ Len(new) = Len(u) + 1
    BY <2>1
  <2>6. new[Len(u) + 1] = c /\ \A i \in 1..Len(u) : new[i] = u[i]
    BY <2>1
  <2>7. Piece(new)
    <3>1. ASSUME NEW i \in 1..Len(new) PROVE IsDigit(new[i]) <=> IsDigit(new[1])
      <4>1. 1 \in 1..Len(u) /\ new[1] = u[1]
        BY <2>3, <2>6
      <4>2. i \in 1..Len(u) \/ i = Len(u) + 1
        BY <2>3, <2>5
      <4>3. CASE i \in 1..Len(u)
        BY <2>1, <2>6, <4>1, <4>3 DEF Piece
      <4>4. CASE i = Len(u) + 1
        BY <2>4, <2>6, <4>1, <4>4 DEF IsDigit
      <4>5. QED BY <4>2, <4>3, <4>4
    <3>2. QED BY <2>5, <3>1 DEF Piece
  <2> DEFINE qs == Front(ps) \o <<new>>
  <2>8. AddPiece(ps, c) = qs
    BY <1>2 DEF AddPiece, Last
  <2> HIDE DEF new
  <2>9. qs \in Seq(Seq(Nat)) /\ Len(qs) = n /\ qs[n] = new /\ \A i \in 1..(n - 1) : qs[i] = ps[i]
    <3>1. ps \in Seq(Seq(Nat)) /\ ps # << >> /\ new \in Seq(Nat)
      BY <1>1, <1>2, <2>5
    <3> DEFINE T == Seq(Nat)
    <3>2. ps \in Seq(T) /\ new \in T
      BY <3>1
    <3> HIDE DEF T
    <3>3. qs \in Seq(T) /\ Len(qs) = n /\ qs[n] = new /\ \A i \in 1..(n - 1) : qs[i] = ps[i]
      BY <3>1, <3>2, LastReplaced
    <3>4. QED BY <3>3 DEF T
  <2> HIDE DEF qs
  <2>10. \A i \in 1..n : i = n \/ i \in 1..(n - 1)
    BY <2>1
  <2>11. \A i \in 1..Len(qs) : Piece(qs[i])
    BY <1>1, <2>7, <2>9, <2>10
  <2>12. QED BY <2>8, <2>9, <2>11 DEF Pieces
<1>3. CASE ~(ps # << >> /\ IsDigit(Last(Last(ps))) = IsDigit(c))
  <2>1. Piece(<<c>>)
    BY DEF Piece
  <2>2. AddPiece(ps, c) = Append(ps, <<c>>)
    BY <1>3 DEF AddPiece
  <2> DEFINE qs == Append(ps, <<c>>)
  <2>3. /\ qs \in Seq(Seq(Nat)) /\ Len(qs) = Len(ps) + 1 /\ qs[Len(ps) + 1] = <<c>>
        /\ \A i \in 1..Len(ps) : qs[i] = ps[i]
    BY <1>1
  <2> HIDE DEF qs
  <2>4. \A i \in 1..Len(qs) : i = Len(ps) + 1 \/ i \in 1..Len(ps)
    BY <1>1, <2>3
  <2>5. \A i \in 1..Len(qs) : Piece(qs[i])
    BY <1>1, <2>1, <2>3, <2>4
  <2>6. QED BY <2>2, <2>3, <2>5 DEF Pieces, qs
<1>4. QED BY <1>2, <1>3

\* PiecesOf, unfolded.
LEMMA PiecesUnfolds ==
    ASSUME NEW s \in Seq(Nat)
    PROVE  \E g : /\ g[0] = << >> /\ \A k \in 1..Len(s) : g[k] = AddPiece(g[k - 1], s[k])
                  /\ PiecesOf(s) = g[Len(s)] /\ \A k \in 0..Len(s) : g[k] \in Pieces
<1> DEFINE n == Len(s)
           B == [z \in Pieces \X (1..n) |-> AddPiece(z[1], s[z[2]])]
           Fits(g) == g = [S \in SUBSET (1..n) |->
                              IF S = {} THEN << >> ELSE AddPiece(g[S \ {Max(S)}], s[Max(S)])]
           views == CHOOSE g : Fits(g)
<1>1. n \in Nat /\ DOMAIN s = 1..n /\ << >> \in Pieces /\ \A k \in 1..n : s[k] \in Nat
  BY DEF Pieces
<1>2. \A v \in Pieces, k \in 1..n : AddPiece(v, s[k]) \in Pieces
  BY <1>1, AddedPiece
<1>3. B \in [Pieces \X (1..n) -> Pieces]
  BY <1>2
<1>4. \E g : Fits(g)
  <2> HIDE DEF n, B
  <2>1. n \in Nat /\ << >> \in Pieces
    BY <1>1
  <2>2. PICK fold \in [SUBSET (1..n) -> Pieces] : IsLeftFold(fold, n, B, << >>)
    BY <1>3, <2>1, LeftFoldExists
  <2>3. \A S \in SUBSET (1..n) :
           fold[S] = IF S = {} THEN << >> ELSE AddPiece(fold[S \ {Max(S)}], s[Max(S)])
    BY <2>2 DEF B, IsLeftFold
  <2>4. Fits(fold)
    BY <2>3
  <2> HIDE DEF Fits
  <2>5. QED BY <2>4
<1>5. \A S \in SUBSET (1..n) :
         views[S] = IF S = {} THEN << >> ELSE AddPiece(views[S \ {Max(S)}], s[Max(S)])
  <2>1. Fits(views)
    <3> HIDE DEF Fits
    <3>1. QED BY <1>4
  <2> HIDE DEF views
  <2>2. QED BY <2>1
<1>6. PiecesOf(s) = views[1..n]
  BY <1>1 DEF PiecesOf, AddPiece, FoldLeft, MapThenFoldSet
<1> HIDE DEF views
<1> DEFINE g == [k \in 0..n |-> views[1..k]]
           P == {k \in 0..n : g[k] \in Pieces}
<1>7. g[0] = << >>
  <2>1. 1..0 = {} /\ {} \in SUBSET (1..n) /\ 0 \in 0..n
    BY <1>1
  <2>2. views[{}] = << >>
    BY <1>5, <2>1
  <2>3. QED BY <2>1, <2>2
<1>8. ASSUME NEW k \in 1..n PROVE g[k] = AddPiece(g[k - 1], s[k])
  <2>1. Max(1..k) = k /\ (1..k) \ {Max(1..k)} = 1..(k - 1) /\ 1..k \in SUBSET (1..n) /\ 1..k # {}
    BY <1>1, MaxOfFirst
  <2>2. views[1..k] = AddPiece(views[1..(k - 1)], s[k])
    BY <1>5, <2>1
  <2>3. QED BY <1>1, <2>2
<1>9. PiecesOf(s) = g[n]
  BY <1>1, <1>6
<1> HIDE DEF g
<1>10. \A k \in 0..n : k \in P
  <2>1. 0 \in P
    BY <1>1, <1>7
  <2>2. \A k \in 1..n : k - 1 \in P => k \in P
    BY <1>1, <1>2, <1>8
  <2> HIDE DEF P, n
  <2>3. n \in Nat
    BY <1>1
  <2>4. QED BY <2>1, <2>2, <2>3, UptoInduction
<1>11. QED BY <1>7, <1>8, <1>9, <1>10

\* Atoi, unfolded.
LEMMA AtoiUnfolds ==
    ASSUME NEW s \in Seq(Nat)
    PROVE  \E g : /\ g[0] = 0 /\ \A k \in 1..Len(s) : g[k] = 10 * g[k - 1] + s[k]
                  /\ Atoi(s) = g[Len(s)] /\ \A k \in 0..Len(s) : g[k] \in Nat
<1> DEFINE n == Len(s)
           B == [z \in Nat \X (1..n) |-> 10 * z[1] + s[z[2]]]
           Fits(g) == g = [S \in SUBSET (1..n) |->
                              IF S = {} THEN 0 ELSE 10 * g[S \ {Max(S)}] + s[Max(S)]]
           views == CHOOSE g : Fits(g)
<1>1. n \in Nat /\ DOMAIN s = 1..n /\ 0 \in Nat /\ \A k \in 1..n : s[k] \in Nat
  BY SMT
<1>2. \A v \in Nat, k \in 1..n : 10 * v + s[k] \in Nat
  BY <1>1
<1>3. B \in [Nat \X (1..n) -> Nat]
  BY <1>2
<1>4. \E g : Fits(g)
  <2> HIDE DEF n, B
  <2>1. n \in Nat /\ 0 \in Nat
    BY <1>1
  <2>2. PICK fold \in [SUBSET (1..n) -> Nat] : IsLeftFold(fold, n, B, 0)
    BY <1>3, <2>1, LeftFoldExists
  <2>3. \A S \in SUBSET (1..n) :
           fold[S] = IF S = {} THEN 0 ELSE 10 * fold[S \ {Max(S)}] + s[Max(S)]
    BY <2>2 DEF B, IsLeftFold
  <2>4. Fits(fold)
    BY <2>3
  <2> HIDE DEF Fits
  <2>5. QED BY <2>4
<1>5. \A S \in SUBSET (1..n) :
         views[S] = IF S = {} THEN 0 ELSE 10 * views[S \ {Max(S)}] + s[Max(S)]
  <2>1. Fits(views)
    <3> HIDE DEF Fits
    <3>1. QED BY <1>4
  <2> HIDE DEF views
  <2>2. QED BY <2>1
<1>6. Atoi(s) = views[1..n]
  BY <1>1 DEF Atoi, FoldLeft, MapThenFoldSet
<1> HIDE DEF views
<1> DEFINE g == [k \in 0..n |-> views[1..k]]
           P == {k \in 0..n : g[k] \in Nat}
<1>7. g[0] = 0
  <2>1. 1..0 = {} /\ {} \in SUBSET (1..n) /\ 0 \in 0..n
    BY <1>1
  <2>2. views[{}] = 0
    BY <1>5, <2>1
  <2>3. QED BY <2>1, <2>2
<1>8. ASSUME NEW k \in 1..n PROVE g[k] = 10 * g[k - 1] + s[k]
  <2>1. Max(1..k) = k /\ (1..k) \ {Max(1..k)} = 1..(k - 1) /\ 1..k \in SUBSET (1..n) /\ 1..k # {}
    BY <1>1, MaxOfFirst
  <2>2. views[1..k] = 10 * views[1..(k - 1)] + s[k]
    BY <1>5, <2>1
  <2>3. QED BY <1>1, <2>2
<1>9. Atoi(s) = g[n]
  BY <1>1, <1>6
<1> HIDE DEF g
<1>10. \A k \in 0..n : k \in P
  <2>1. 0 \in P
    BY <1>1, <1>7
  <2>2. \A k \in 1..n : k - 1 \in P => k \in P
    BY <1>1, <1>2, <1>8
  <2> HIDE DEF P, n
  <2>3. n \in Nat
    BY <1>1
  <2>4. QED BY <2>1, <2>2, <2>3, UptoInduction
<1>11. QED BY <1>7, <1>8, <1>9, <1>10

\* A sequence is of what its elements are.
LEMMA SeqOfElements ==
    ASSUME NEW S, NEW T, NEW s \in Seq(S), \A i \in 1..Len(s) : s[i] \in T
    PROVE  s \in Seq(T)
<1>1. s \in [1..Len(s) -> T] /\ Len(s) \in Nat
  OBVIOUS
<1>2. QED BY <1>1, SeqDef

\* Every step of PiecesOf leaves pieces.
LEMMA PiecesArePieces == \A name \in Seq(Nat) : PiecesOf(name) \in Pieces
<1>1. ASSUME NEW name \in Seq(Nat) PROVE PiecesOf(name) \in Pieces
  <2>1. Len(name) \in 0..Len(name)
    OBVIOUS
  <2>2. QED BY <2>1, PiecesUnfolds
<1>2. QED BY <1>1

\* A piece that is a number does not begin with a zero.
SoundPieces == {u \in Seq(Nat) : Piece(u) /\ ~(u[1] = 0 /\ Len(u) > 1)}

IsNumber(u) == IsDigit(u[1])

\* Digits can be told from what they add up to, from the last one to the first.
LEMMA DigitsKnown ==
    ASSUME NEW a \in Nat, NEW b \in Nat, NEW d \in 0..9, NEW e \in 0..9,
           10 * a + d = 10 * b + e
    PROVE  a = b /\ d = e
  OBVIOUS

\* Two numbers are different unless they are written alike: the shorter one, ...
LEMMA ShorterNumberDiffers ==
    ASSUME NEW u \in SoundPieces, NEW v \in SoundPieces, IsNumber(u), IsNumber(v),
           Len(u) <= Len(v), Atoi(u) = Atoi(v)
    PROVE  u = v
<1> DEFINE m == Len(u)
           n == Len(v)
<1>1. /\ u \in Seq(Nat) /\ v \in Seq(Nat) /\ m \in Nat \ {0} /\ n \in Nat \ {0} /\ m <= n
      /\ \A i \in 1..m : u[i] \in 0..9
      /\ \A i \in 1..n : v[i] \in 0..9
      /\ n > 1 => v[1] # 0
  <2>1. \A w \in SoundPieces : IsNumber(w) =>
           /\ w \in Seq(Nat) /\ Len(w) \in Nat \ {0} /\ (Len(w) > 1 => w[1] # 0)
           /\ \A i \in 1..Len(w) : w[i] \in 0..9
    <3>1. ASSUME NEW w \in SoundPieces, IsNumber(w)
          PROVE  /\ w \in Seq(Nat) /\ Len(w) \in Nat \ {0} /\ (Len(w) > 1 => w[1] # 0)
                 /\ \A i \in 1..Len(w) : w[i] \in 0..9
      <4>1. w \in Seq(Nat) /\ w # << >> /\ (Len(w) > 1 => w[1] # 0)
        BY DEF SoundPieces, Piece
      <4>2. \A i \in 1..Len(w) : w[i] <= 9
        BY <3>1 DEF SoundPieces, Piece, IsNumber, IsDigit
      <4>3. \A i \in 1..Len(w) : w[i] \in Nat
        BY <4>1
      <4>4. \A i \in 1..Len(w) : w[i] \in 0..9
        BY <4>2, <4>3
      <4>5. Len(w) \in Nat \ {0}
        BY <4>1
      <4>6. QED BY <4>1, <4>4, <4>5
    <3>2. QED BY <3>1
  <2>2. QED BY <2>1
<1>2. PICK g : /\ g[0] = 0 /\ \A k \in 1..m : g[k] = 10 * g[k - 1] + u[k]
               /\ Atoi(u) = g[m] /\ \A k \in 0..m : g[k] \in Nat
  BY <1>1, AtoiUnfolds
<1>3. PICK h : /\ h[0] = 0 /\ \A k \in 1..n : h[k] = 10 * h[k - 1] + v[k]
               /\ Atoi(v) = h[n] /\ \A k \in 0..n : h[k] \in Nat
  BY <1>1, AtoiUnfolds
<1> HIDE DEF m, n
<1> DEFINE P == {j \in 0..m : g[m - j] = h[n - j] /\ \A i \in 0..(j - 1) : u[m - i] = v[n - i]}
<1>4. \A j \in 0..m : j \in P
  <2>1. 0 \in P
    <3>1. m - 0 = m /\ n - 0 = n /\ 0 \in 0..m
      BY <1>1
    <3>2. g[m - 0] = h[n - 0]
      BY <1>2, <1>3, <3>1
    <3>3. QED BY <3>1, <3>2
  <2>2. ASSUME NEW j \in 1..m, j - 1 \in P PROVE j \in P
    <3>1. /\ j - 1 \in 0..m /\ g[m - (j - 1)] = h[n - (j - 1)]
          /\ \A i \in 0..((j - 1) - 1) : u[m - i] = v[n - i]
      BY <2>2
    <3> DEFINE k == m - (j - 1)
               l == n - (j - 1)
    <3>2. /\ k \in 1..m /\ l \in 1..n /\ k - 1 \in 0..m /\ l - 1 \in 0..n
          /\ k - 1 = m - j /\ l - 1 = n - j
      BY <1>1
    <3>3. g[k] = 10 * g[k - 1] + u[k] /\ h[l] = 10 * h[l - 1] + v[l] /\ g[k] = h[l]
      BY <1>2, <1>3, <3>1, <3>2
    <3>4. g[k - 1] \in Nat /\ h[l - 1] \in Nat /\ u[k] \in 0..9 /\ v[l] \in 0..9
      BY <1>1, <1>2, <1>3, <3>2
    <3> HIDE DEF k, l
    <3>5. g[k - 1] = h[l - 1] /\ u[k] = v[l]
      <4>1. 10 * g[k - 1] + u[k] = 10 * h[l - 1] + v[l]
        BY <3>3
      <4> DEFINE a == g[k - 1]
                 b == h[l - 1]
      <4>2. a \in Nat /\ b \in Nat /\ 10 * a + u[k] = 10 * b + v[l]
        BY <3>4, <4>1
      <4> HIDE DEF a, b
      <4>3. a = b /\ u[k] = v[l]
        BY <3>4, <4>2, DigitsKnown
      <4>4. QED BY <4>3 DEF a, b
    <3>6. g[m - j] = h[n - j] /\ u[m - (j - 1)] = v[n - (j - 1)]
      BY <3>2, <3>5 DEF k, l
    <3>7. \A i \in 0..(j - 1) : i \in 0..((j - 1) - 1) \/ i = j - 1
      BY <1>1
    <3>8. \A i \in 0..(j - 1) : u[m - i] = v[n - i]
      BY <3>1, <3>6, <3>7
    <3>9. QED BY <1>1, <3>6, <3>8
  <2> HIDE DEF P
  <2>3. m \in Nat
    BY <1>1
  <2>4. QED BY <2>1, <2>2, <2>3, UptoInduction
<1>5. h[n - m] = 0 /\ \A i \in 0..(m - 1) : u[m - i] = v[n - i]
  <2>1. m \in P /\ m - m = 0
    BY <1>1, <1>4
  <2>2. QED BY <1>2, <2>1
<1>6. n = m
  <2> SUFFICES ASSUME n > m PROVE FALSE
    BY <1>1
  <2> DEFINE Q == {k \in Nat : k = 0 \/ h[k] >= 1}
  <2>1. v[1] \in 1..9
    <3>1. n > 1 /\ 1 \in 1..n
      BY <1>1
    <3>2. v[1] \in 0..9 /\ v[1] # 0
      BY <1>1, <3>1
    <3>3. QED BY <3>2
  <2>2. ASSUME NEW k \in 1..n, k - 1 \in Q PROVE k \in Q
    <3>1. k - 1 \in 0..n /\ h[k - 1] \in Nat /\ v[k] \in 0..9 /\ h[k] = 10 * h[k - 1] + v[k]
      BY <1>1, <1>3
    <3>2. CASE k - 1 = 0
      <4>1. k = 1
        BY <3>2
      <4>2. h[1] = 10 * h[0] + v[1]
        BY <1>1, <1>3
      <4>3. QED BY <1>3, <2>1, <4>1, <4>2
    <3>3. CASE h[k - 1] >= 1
      <4>1. \A a \in Nat, d \in 0..9 : a >= 1 => 10 * a + d >= 1
        OBVIOUS
      <4>2. 10 * h[k - 1] + v[k] >= 1
        BY <3>1, <3>3, <4>1
      <4>3. h[k] >= 1
        BY <3>1, <4>2
      <4>4. QED BY <4>3
    <3>4. QED BY <2>2, <3>2, <3>3
  <2>3. \A k \in 0..n : k \in Q
    <3>1. 0 \in Q /\ n \in Nat
      BY <1>1
    <3> HIDE DEF Q
    <3>2. QED BY <2>2, <3>1, UptoInduction
  <2>4. n - m \in 0..n /\ n - m # 0
    BY <1>1
  <2>5. n - m \in Q
    BY <2>3, <2>4
  <2>6. QED BY <1>5, <2>4, <2>5
<1>7. \A i \in 1..m : u[i] = v[i]
  <2>1. ASSUME NEW i \in 1..m PROVE u[i] = v[i]
    <3>1. m - i \in 0..(m - 1) /\ m - (m - i) = i
      BY <1>1
    <3>2. QED BY <1>5, <1>6, <3>1
  <2>2. QED BY <2>1
<1>8. Len(u) = Len(v)
  BY <1>6 DEF m, n
<1>9. QED BY <1>1, <1>7, <1>8, SeqEqual DEF m

\* ...and any.
LEMMA NumbersDiffer ==
    ASSUME NEW u \in SoundPieces, NEW v \in SoundPieces, IsNumber(u), IsNumber(v)
    PROVE  /\ Atoi(u) \in Nat /\ Atoi(v) \in Nat
           /\ Atoi(u) = Atoi(v) => u = v
<1>1. /\ u \in Seq(Nat) /\ v \in Seq(Nat) /\ Len(u) \in Nat /\ Len(v) \in Nat
      /\ Len(u) \in 0..Len(u) /\ Len(v) \in 0..Len(v)
  BY DEF SoundPieces
<1>2. Atoi(u) \in Nat /\ Atoi(v) \in Nat
  BY <1>1, AtoiUnfolds
<1>3. Len(u) <= Len(v) \/ Len(v) <= Len(u)
  BY <1>1
<1>4. QED BY <1>2, <1>3, ShorterNumberDiffers

-----------------------------------------------------------------------------
\* The order of numbers, backwards; Before is the order of sequences it makes,
\* backwards again.
Above == {z \in Nat \X Nat : z[1] > z[2]}

LEMMA AboveIsOrder == StrictOrder(Nat, Above)
<1>1. \A x, y \in Nat : <<x, y>> \in Above <=> x > y
  BY DEF Above
<1>2. QED BY <1>1 DEF StrictOrder

LEMMA BeforeIsLex ==
    ASSUME NEW s \in Seq(Nat), NEW t \in Seq(Nat)
    PROVE  Before(s, t) <=> <<t, s>> \in LexOrder(Nat, Above)
<1>1. /\ Len(s) \in Nat /\ Len(t) \in Nat /\ DOMAIN s = 1..Len(s) /\ DOMAIN t = 1..Len(t)
      /\ \A i \in 1..Len(s) : s[i] \in Nat
      /\ \A i \in 1..Len(t) : t[i] \in Nat
  OBVIOUS
<1>2. ASSUME NEW n \in Nat, n <= Len(s), n <= Len(t)
      PROVE  SubSeq(s, 1, n) = SubSeq(t, 1, n) <=> \A j \in 1..n : s[j] = t[j]
  <2>1. /\ \A i \in 1..n : s[i] \in Nat
        /\ \A i \in 1..n : t[i] \in Nat
    BY <1>1, <1>2
  <2>2. /\ SubSeq(s, 1, n) \in Seq(Nat)
        /\ Len(SubSeq(s, 1, n)) = IF 1 <= n THEN n - 1 + 1 ELSE 0
        /\ \A i \in 1..(n - 1 + 1) : SubSeq(s, 1, n)[i] = s[1 + i - 1]
    BY <2>1, SubSeqProperties
  <2>3. /\ SubSeq(t, 1, n) \in Seq(Nat)
        /\ Len(SubSeq(t, 1, n)) = IF 1 <= n THEN n - 1 + 1 ELSE 0
        /\ \A i \in 1..(n - 1 + 1) : SubSeq(t, 1, n)[i] = t[1 + i - 1]
    BY <2>1, SubSeqProperties
  <2> DEFINE a == SubSeq(s, 1, n)
             b == SubSeq(t, 1, n)
  <2>4. /\ a \in Seq(Nat) /\ b \in Seq(Nat) /\ Len(a) = n /\ Len(b) = n
        /\ \A i \in 1..n : a[i] = s[i]
        /\ \A i \in 1..n : b[i] = t[i]
    BY <2>2, <2>3
  <2> HIDE DEF a, b
  <2>5. (\A j \in 1..n : s[j] = t[j]) => a = b
    BY <2>4, SeqEqual
  <2>6. a = b => \A j \in 1..n : s[j] = t[j]
    BY <2>4
  <2>7. QED BY <2>5, <2>6 DEF a, b
<1>3. <<t, s>> \in LexOrder(Nat, Above) <=> LexLess(t, s, Above)
  BY DEF LexOrder
<1>4. IsStrictPrefix(s, t) <=> Len(s) < Len(t) /\ \A j \in 1..Len(s) : s[j] = t[j]
  <2>1. IsPrefix(s, t) <=> Len(s) <= Len(t) /\ \A j \in 1..Len(s) : s[j] = t[j]
    BY <1>1, <1>2 DEF IsPrefix
  <2>2. Len(s) = Len(t) /\ (\A j \in 1..Len(s) : s[j] = t[j]) => s = t
    BY SeqEqual
  <2>3. IsStrictPrefix(s, t) <=> IsPrefix(s, t) /\ s # t
    BY DEF IsStrictPrefix
  <2>4. s # t /\ (\A j \in 1..Len(s) : s[j] = t[j]) => Len(s) # Len(t)
    BY <2>2
  <2>5. Len(s) < Len(t) => s # t
    BY <1>1
  <2>6. Len(s) < Len(t) <=> Len(s) <= Len(t) /\ Len(s) # Len(t)
    <3>1. \A x, y \in Nat : x < y <=> x <= y /\ x # y
      OBVIOUS
    <3>2. QED BY <1>1, <3>1
  <2>7. QED BY <2>1, <2>3, <2>4, <2>5, <2>6
<1>5. \A i \in Nat : i \in DOMAIN s \cap DOMAIN t =>
         (SubSeq(s, 1, i - 1) = SubSeq(t, 1, i - 1) <=> \A j \in 1..(i - 1) : s[j] = t[j])
  <2>1. ASSUME NEW i \in Nat, i \in DOMAIN s \cap DOMAIN t
        PROVE  SubSeq(s, 1, i - 1) = SubSeq(t, 1, i - 1) <=> \A j \in 1..(i - 1) : s[j] = t[j]
    <3>1. i - 1 \in Nat /\ i - 1 <= Len(s) /\ i - 1 <= Len(t)
      BY <1>1, <2>1
    <3>2. QED BY <1>2, <3>1
  <2>2. QED BY <2>1
<1>6. ASSUME Before(s, t) PROVE LexLess(t, s, Above)
  <2>1. CASE IsStrictPrefix(s, t)
    <3> DEFINE i == Len(s) + 1
    <3>1. i \in 1..Len(t) /\ i > Len(s) /\ i - 1 = Len(s) /\ \A j \in 1..Len(s) : s[j] = t[j]
      BY <1>1, <1>4, <2>1
    <3>2. LessAt(t, s, Above, i)
      BY <1>1, <3>1 DEF LessAt
    <3>3. QED BY <3>1, <3>2 DEF LexLess
  <2>2. CASE \E i \in DOMAIN s \cap DOMAIN t :
                SubSeq(s, 1, i - 1) = SubSeq(t, 1, i - 1) /\ s[i] < t[i]
    <3>1. PICK i \in DOMAIN s \cap DOMAIN t :
                SubSeq(s, 1, i - 1) = SubSeq(t, 1, i - 1) /\ s[i] < t[i]
      BY <2>2
    <3>2. i \in Nat /\ i \in 1..Len(t) /\ i \in 1..Len(s) /\ s[i] \in Nat /\ t[i] \in Nat
      BY <1>1
    <3>3. \A j \in 1..(i - 1) : s[j] = t[j]
      BY <1>5, <3>1, <3>2
    <3>4. <<t[i], s[i]>> \in Above
      BY <3>1, <3>2 DEF Above
    <3>5. LessAt(t, s, Above, i)
      BY <1>1, <3>2, <3>3, <3>4 DEF LessAt
    <3>6. QED BY <3>2, <3>5 DEF LexLess
  <2>3. QED BY <1>6, <2>1, <2>2 DEF Before
<1>7. ASSUME LexLess(t, s, Above) PROVE Before(s, t)
  <2>1. PICK i \in 1..Len(t) : LessAt(t, s, Above, i)
    BY <1>7 DEF LexLess
  <2>2. i \in Nat /\ \A j \in 1..(i - 1) : j <= Len(s) /\ t[j] = s[j]
    BY <2>1 DEF LessAt
  <2>3. CASE i > Len(s)
    <3>1. \A j \in 1..Len(s) : j \in 1..(i - 1)
      BY <1>1, <2>3
    <3>2. IsStrictPrefix(s, t)
      BY <1>1, <1>4, <2>2, <2>3, <3>1
    <3>3. QED BY <3>2 DEF Before
  <2>4. CASE ~(i > Len(s))
    <3>1. i \in DOMAIN s \cap DOMAIN t
      BY <1>1, <2>4
    <3>2. SubSeq(s, 1, i - 1) = SubSeq(t, 1, i - 1)
      BY <1>5, <2>2, <3>1
    <3>3. <<t[i], s[i]>> \in Above
      BY <2>1, <2>4 DEF LessAt
    <3>4. s[i] < t[i]
      BY <1>1, <3>3 DEF Above
    <3>5. QED BY <3>1, <3>2, <3>4 DEF Before
  <2>5. QED BY <2>3, <2>4
<1>8. QED BY <1>3, <1>6, <1>7

\* How NaturalLessThan compares two pieces.
PieceOrder ==
    {z \in SoundPieces \X SoundPieces :
        IF IsNumber(z[1]) /\ IsNumber(z[2]) THEN Atoi(z[1]) < Atoi(z[2]) ELSE Before(z[1], z[2])}

\* A number comes before any other piece.
LEMMA NumbersFirst ==
    ASSUME NEW u \in SoundPieces, NEW v \in SoundPieces, IsNumber(u), ~IsNumber(v)
    PROVE  Before(u, v) /\ ~Before(v, u)
<1>1. /\ u \in Seq(Nat) /\ v \in Seq(Nat) /\ u # << >> /\ v # << >>
      /\ 1 \in 1..Len(u) /\ 1 \in 1..Len(v) /\ u[1] \in Nat /\ v[1] \in Nat /\ v[1] > u[1]
      /\ ~(1 > Len(u)) /\ Len(u) \in Nat /\ Len(v) \in Nat
  BY DEF SoundPieces, Piece, IsNumber, IsDigit
<1>2. LessAt(v, u, Above, 1)
  BY <1>1 DEF LessAt, Above
<1>3. <<v, u>> \in LexOrder(Nat, Above)
  BY <1>1, <1>2 DEF LexOrder, LexLess
<1>4. <<u, v>> \notin LexOrder(Nat, Above)
  <2>1. StrictOrder(Seq(Nat), LexOrder(Nat, Above))
    BY AboveIsOrder, LexIsOrder
  <2>2. QED BY <1>1, <1>3, <2>1 DEF StrictOrder
<1>5. QED BY <1>1, <1>3, <1>4, BeforeIsLex

\* The order of pieces is one.
LEMMA PieceOrderIsOrder == StrictOrder(SoundPieces, PieceOrder)
<1> DEFINE L(u, v) == <<u, v>> \in PieceOrder
<1>1. StrictOrder(Seq(Nat), LexOrder(Nat, Above))
  BY AboveIsOrder, LexIsOrder
<1>2. \A u \in SoundPieces : u \in Seq(Nat)
  BY DEF SoundPieces
<1>3. /\ \A u \in SoundPieces : ~Before(u, u)
      /\ \A u, v, w \in SoundPieces : Before(u, v) /\ Before(v, w) => Before(u, w)
      /\ \A u, v \in SoundPieces : u = v \/ Before(u, v) \/ Before(v, u)
  <2>1. \A u, v \in SoundPieces : Before(u, v) <=> <<v, u>> \in LexOrder(Nat, Above)
    BY <1>2, BeforeIsLex
  <2>2. QED BY <1>1, <1>2, <2>1 DEF StrictOrder
<1>4. /\ \A u, v \in SoundPieces : IsNumber(u) /\ IsNumber(v) => (L(u, v) <=> Atoi(u) < Atoi(v))
      /\ \A u, v \in SoundPieces : ~(IsNumber(u) /\ IsNumber(v)) => (L(u, v) <=> Before(u, v))
  BY DEF PieceOrder
<1>5. \A u, v \in SoundPieces : IsNumber(u) /\ IsNumber(v) =>
         /\ Atoi(u) \in Nat /\ Atoi(v) \in Nat
         /\ Atoi(u) = Atoi(v) => u = v
  BY NumbersDiffer
<1>6. \A u, v \in SoundPieces : IsNumber(u) /\ ~IsNumber(v) => L(u, v) /\ ~L(v, u)
  BY <1>4, NumbersFirst
<1>7. \A a, b, c \in Nat : /\ ~(a < a) /\ (a < b /\ b < c => a < c)
                           /\ a = b \/ a < b \/ b < a
  OBVIOUS
<1> HIDE DEF L
<1>8. \A u \in SoundPieces : ~L(u, u)
  BY <1>3, <1>4, <1>5, <1>7
<1>9. ASSUME NEW u \in SoundPieces, NEW v \in SoundPieces, NEW w \in SoundPieces, L(u, v), L(v, w)
      PROVE  L(u, w)
  <2>1. CASE IsNumber(u) /\ IsNumber(v) /\ IsNumber(w)
    BY <1>4, <1>5, <1>7, <1>9, <2>1
  <2>2. CASE IsNumber(u) /\ ~IsNumber(w)
    BY <1>6, <2>2
  <2>3. CASE ~IsNumber(u)
    <3>1. ~IsNumber(v)
      BY <1>6, <1>9, <2>3
    <3>2. ~IsNumber(w)
      BY <1>6, <1>9, <3>1
    <3>3. QED BY <1>3, <1>4, <1>9, <2>3, <3>1, <3>2
  <2>4. CASE IsNumber(u) /\ ~IsNumber(v) /\ IsNumber(w)
    BY <1>6, <1>9, <2>4
  <2>5. QED BY <2>1, <2>2, <2>3, <2>4
<1>10. ASSUME NEW u \in SoundPieces, NEW v \in SoundPieces
       PROVE  u = v \/ L(u, v) \/ L(v, u)
  <2>1. CASE IsNumber(u) /\ IsNumber(v)
    BY <1>4, <1>5, <1>7, <2>1
  <2>2. CASE ~(IsNumber(u) /\ IsNumber(v))
    BY <1>3, <1>4, <2>2
  <2>3. QED BY <2>1, <2>2
<1>11. QED BY <1>8, <1>9, <1>10 DEF StrictOrder, L

\* Names without numbers that begin with a zero.
SoundNames == {name \in Seq(Nat) : ~ZeroLed(name)}

NameOrder == LexOrder(SoundPieces, PieceOrder)

LEMMA SoundNamesAre ==
    ASSUME NEW name \in SoundNames
    PROVE  PiecesOf(name) \in Seq(SoundPieces)
<1> DEFINE ps == PiecesOf(name)
<1>1. ps \in Seq(Seq(Nat)) /\ \A i \in 1..Len(ps) : Piece(ps[i])
  BY PiecesArePieces DEF SoundNames, Pieces
<1>2. \A i \in 1..Len(ps) : ~(ps[i][1] = 0 /\ Len(ps[i]) > 1)
  BY <1>1 DEF SoundNames, ZeroLed, ToSet
<1> HIDE DEF ps
<1>3. \A i \in 1..Len(ps) : ps[i] \in SoundPieces
  BY <1>1, <1>2 DEF SoundPieces, Piece
<1> DEFINE S == Seq(Nat)
<1>4. ps \in Seq(S)
  BY <1>1
<1> HIDE DEF S
<1>5. QED BY <1>3, <1>4, SeqOfElements DEF ps

\* NaturalLessThan is an order of their pieces.
LEMMA NaturalIsLex ==
    ASSUME NEW a \in SoundNames, NEW b \in SoundNames
    PROVE  NaturalLessThan(a, b) <=> <<PiecesOf(a), PiecesOf(b)>> \in NameOrder
<1> DEFINE p == PiecesOf(a)
           q == PiecesOf(b)
           differ == {i \in DOMAIN p : i > Len(q) \/ p[i] # q[i]}
           m == Min(differ)
           Decides == \/ m > Len(q)
                      \/ m <= Len(q) /\ IF IsDigit(p[m][1]) /\ IsDigit(q[m][1])
                                        THEN Atoi(p[m]) < Atoi(q[m])
                                        ELSE Before(p[m], q[m])
<1>1. NaturalLessThan(a, b) <=> differ # {} /\ Decides
  BY DEF NaturalLessThan
<1>2. p \in Seq(SoundPieces) /\ q \in Seq(SoundPieces)
  BY SoundNamesAre
<1> HIDE DEF p, q
<1>3. /\ DOMAIN p = 1..Len(p) /\ Len(p) \in Nat /\ Len(q) \in Nat
      /\ \A i \in 1..Len(p) : p[i] \in SoundPieces
      /\ \A i \in 1..Len(q) : q[i] \in SoundPieces
  BY <1>2
<1>4. StrictOrder(SoundPieces, PieceOrder)
  BY PieceOrderIsOrder
<1>5. <<p, q>> \in NameOrder <=> LexLess(p, q, PieceOrder)
  BY <1>2 DEF NameOrder, LexOrder
<1>6. differ # {} => m \in differ /\ \A i \in differ : m <= i
  <2>1. differ \in SUBSET Nat
    BY <1>3
  <2> HIDE DEF differ
  <2>2. QED BY <2>1, MinExists
<1> HIDE DEF m
<1>7. differ # {} => (m > Len(q) \/ <<p[m], q[m]>> \in PieceOrder <=> Decides)
  <2>1. ASSUME differ # {}, m <= Len(q)
        PROVE  <<p[m], q[m]>> \in PieceOrder <=> Decides
    <3>1. m \in 1..Len(p) /\ m \in 1..Len(q)
      BY <1>3, <1>6, <2>1
    <3>2. p[m] \in SoundPieces /\ q[m] \in SoundPieces /\ ~(m > Len(q))
      BY <1>3, <2>1, <3>1
    <3>3. QED BY <2>1, <3>2 DEF PieceOrder, IsNumber
  <2>2. differ # {} => m \in Nat
    BY <1>3, <1>6
  <2>3. QED BY <1>3, <2>1, <2>2
<1>8. ASSUME differ # {}, Decides PROVE LexLess(p, q, PieceOrder)
  <2>1. m \in 1..Len(p)
    BY <1>3, <1>6, <1>8
  <2>2. ASSUME NEW j \in 1..(m - 1) PROVE j <= Len(q) /\ p[j] = q[j]
    <3>1. j \in 1..Len(p) /\ j < m /\ m \in Nat
      BY <1>3, <2>1
    <3>2. j \notin differ
      BY <1>6, <1>8, <3>1
    <3>3. QED BY <1>3, <3>1, <3>2
  <2>3. LessAt(p, q, PieceOrder, m)
    <3>1. m > Len(q) \/ <<p[m], q[m]>> \in PieceOrder
      BY <1>7, <1>8
    <3>2. QED BY <2>2, <3>1 DEF LessAt
  <2>4. QED BY <2>1, <2>3 DEF LexLess
<1>9. ASSUME LexLess(p, q, PieceOrder) PROVE differ # {} /\ Decides
  <2>1. PICK i \in 1..Len(p) : LessAt(p, q, PieceOrder, i)
    BY <1>9 DEF LexLess
  <2>2. /\ \A j \in 1..(i - 1) : j <= Len(q) /\ p[j] = q[j]
        /\ i > Len(q) \/ <<p[i], q[i]>> \in PieceOrder
    BY <2>1 DEF LessAt
  <2>3. i \in differ
    <3>1. p[i] \in SoundPieces /\ <<p[i], p[i]>> \notin PieceOrder
      BY <1>3, <1>4 DEF StrictOrder
    <3>2. i > Len(q) \/ p[i] # q[i]
      BY <2>2, <3>1
    <3>3. QED BY <1>3, <3>2
  <2>4. m = i
    <3>1. m \in differ /\ m <= i
      BY <1>6, <2>3
    <3>2. m \in 1..Len(p) /\ (m > Len(q) \/ p[m] # q[m])
      BY <1>3, <3>1
    <3>3. m \notin 1..(i - 1)
      BY <1>3, <2>2, <3>2
    <3>4. QED BY <1>3, <3>1, <3>2, <3>3
  <2>5. QED BY <1>7, <2>2, <2>3, <2>4
<1>10. QED BY <1>1, <1>5, <1>8, <1>9 DEF p, q

\* On these names NaturalLessThan is an order, but that it cannot tell names with
\* the same pieces; "not less" goes through.
LEMMA NotLessGoesThrough ==
    ASSUME NEW a \in SoundNames, NEW b \in SoundNames, NEW c \in SoundNames
    PROVE  /\ ~NaturalLessThan(b, a) /\ ~NaturalLessThan(c, b) => ~NaturalLessThan(c, a)
           /\ NaturalLessThan(a, b) => ~NaturalLessThan(b, a)
<1>1. StrictOrder(Seq(SoundPieces), NameOrder)
  BY PieceOrderIsOrder, LexIsOrder DEF NameOrder
<1> DEFINE p == PiecesOf(a)
           q == PiecesOf(b)
           r == PiecesOf(c)
<1>2. p \in Seq(SoundPieces) /\ q \in Seq(SoundPieces) /\ r \in Seq(SoundPieces)
  BY SoundNamesAre
<1>3. /\ NaturalLessThan(b, a) <=> <<q, p>> \in NameOrder
      /\ NaturalLessThan(c, b) <=> <<r, q>> \in NameOrder
      /\ NaturalLessThan(c, a) <=> <<r, p>> \in NameOrder
      /\ NaturalLessThan(a, b) <=> <<p, q>> \in NameOrder
  BY NaturalIsLex
<1> HIDE DEF p, q, r
<1>4. QED BY <1>1, <1>2, <1>3 DEF StrictOrder

-----------------------------------------------------------------------------
(* Sorting and searching                                                   *)

\* u is s with x put behind its first k elements.
Inserts(u, T, s, k, x) ==
    /\ u \in Seq(T) /\ Len(u) = Len(s) + 1 /\ u[k + 1] = x
    /\ \A i \in 1..k : u[i] = s[i]
    /\ \A i \in (k + 2)..(Len(s) + 1) : u[i] = s[i - 1]

\* What InsertAt inserts where.
LEMMA InsertAtIs ==
    ASSUME NEW T, NEW s \in Seq(T), NEW k \in 0..Len(s), NEW x \in T
    PROVE  Inserts(InsertAt(s, k + 1, x), T, s, k, x)
<1> DEFINE n == Len(s)
           a == SubSeq(s, 1, k)
           b == SubSeq(s, k + 1, n)
           ax == a \o <<x>>
           t == ax \o b
<1>1. n \in Nat /\ k \in 0..n /\ k \in Nat /\ \A i \in 1..n : s[i] \in T
  OBVIOUS
<1>2. a \in Seq(T) /\ Len(a) = k /\ \A i \in 1..k : a[i] = s[i]
  <2>1. \A i \in 1..k : s[i] \in T
    BY <1>1
  <2> HIDE DEF n
  <2>2. /\ SubSeq(s, 1, k) \in Seq(T) /\ Len(SubSeq(s, 1, k)) = IF 1 <= k THEN k - 1 + 1 ELSE 0
        /\ \A i \in 1..(k - 1 + 1) : SubSeq(s, 1, k)[i] = s[1 + i - 1]
    BY <1>1, <2>1, SubSeqProperties
  <2>3. QED BY <1>1, <2>2
<1>3. b \in Seq(T) /\ Len(b) = n - k /\ \A i \in 1..(n - k) : b[i] = s[k + i]
  <2>1. \A i \in (k + 1)..n : s[i] \in T
    BY <1>1
  <2> HIDE DEF n
  <2>2. k + 1 \in Int /\ n \in Int
    BY <1>1
  <2>3. /\ SubSeq(s, k + 1, n) \in Seq(T)
        /\ Len(SubSeq(s, k + 1, n)) = IF k + 1 <= n THEN n - (k + 1) + 1 ELSE 0
        /\ \A i \in 1..(n - (k + 1) + 1) : SubSeq(s, k + 1, n)[i] = s[(k + 1) + i - 1]
    BY <2>1, <2>2, SubSeqProperties
  <2>4. n - (k + 1) + 1 = n - k /\ (IF k + 1 <= n THEN n - (k + 1) + 1 ELSE 0) = n - k
    BY <1>1
  <2>5. \A i \in 1..(n - k) : (k + 1) + i - 1 = k + i
    BY <1>1
  <2>6. QED BY <2>3, <2>4, <2>5
<1>4. <<x>> \in Seq(T) /\ Len(<<x>>) = 1 /\ <<x>>[1] = x
  OBVIOUS
<1> HIDE DEF a, b, n
<1>5. /\ ax \in Seq(T) /\ Len(ax) = k + 1
      /\ \A i \in 1..(k + 1) : ax[i] = IF i <= k THEN a[i] ELSE <<x>>[i - k]
  BY <1>1, <1>2, <1>4, ConcatProperties
<1>6. ax[k + 1] = x /\ \A i \in 1..k : ax[i] = s[i]
  BY <1>1, <1>2, <1>4, <1>5
<1> HIDE DEF ax
<1>7. /\ t \in Seq(T) /\ Len(t) = n + 1
      /\ \A i \in 1..(n + 1) : t[i] = IF i <= k + 1 THEN ax[i] ELSE b[i - (k + 1)]
  <2>1. /\ ax \o b \in Seq(T) /\ Len(ax \o b) = Len(ax) + Len(b)
        /\ \A i \in 1..Len(ax) + Len(b) :
              (ax \o b)[i] = IF i <= Len(ax) THEN ax[i] ELSE b[i - Len(ax)]
    BY <1>3, <1>5, ConcatProperties
  <2>2. Len(ax) + Len(b) = n + 1
    BY <1>1, <1>3, <1>5
  <2>3. QED BY <1>5, <2>1, <2>2
<1> HIDE DEF t
<1>8. t[k + 1] = x /\ \A i \in 1..k : t[i] = s[i]
  BY <1>1, <1>6, <1>7
<1>9. ASSUME NEW i \in (k + 2)..(n + 1) PROVE t[i] = s[i - 1]
  <2>1. i \in 1..(n + 1) /\ ~(i <= k + 1) /\ i - (k + 1) \in 1..(n - k) /\ k + (i - (k + 1)) = i - 1
    BY <1>1
  <2>2. QED BY <1>3, <1>7, <2>1
<1>10. InsertAt(s, k + 1, x) = t
  <2>1. (k + 1) - 1 = k
    BY <1>1
  <2>2. QED BY <2>1 DEF InsertAt, t, ax, a, b, n
<1>11. Inserts(t, T, s, k, x)
  BY <1>7, <1>8, <1>9 DEF n, Inserts
<1>12. QED BY <1>10, <1>11

\* Sorted takes one name at a time and puts it behind the last that it is not
\* less than.
InsertName(s, x) ==
    LET k == Max({0} \cup {i \in DOMAIN s : ~NaturalLessThan(x, s[i])}) IN InsertAt(s, k + 1, x)

LEMMA InsertedName ==
    ASSUME NEW T, NEW s \in Seq(T), NEW x \in T
    PROVE  \E k \in 0..Len(s) :
              /\ k # 0 => ~NaturalLessThan(x, s[k])
              /\ \A i \in (k + 1)..Len(s) : NaturalLessThan(x, s[i])
              /\ InsertName(s, x) = InsertAt(s, k + 1, x)
<1> DEFINE S == {0} \cup {i \in 1..Len(s) : ~NaturalLessThan(x, s[i])}
           k == Max(S)
<1>1. Len(s) \in Nat /\ DOMAIN s = 1..Len(s)
  OBVIOUS
<1>2. S \in SUBSET Int /\ IsFiniteSet(S) /\ S # {}
  <2>1. IsFiniteSet(0..Len(s)) /\ S \in SUBSET (0..Len(s))
    BY <1>1, FS_Interval
  <2>2. QED BY <1>1, <2>1, FS_Subset
<1>3. k \in S /\ \A y \in S : k >= y
  <2> HIDE DEF S
  <2>1. QED BY <1>2, MaxExists
<1>4. InsertName(s, x) = InsertAt(s, k + 1, x)
  BY <1>1 DEF InsertName
<1> HIDE DEF k
<1>5. k \in 0..Len(s) /\ (k # 0 => ~NaturalLessThan(x, s[k]))
  BY <1>1, <1>3
<1>6. ASSUME NEW i \in (k + 1)..Len(s) PROVE NaturalLessThan(x, s[i])
  <2>1. i \in 1..Len(s) /\ ~(k >= i)
    BY <1>1, <1>5
  <2>2. QED BY <1>3, <2>1
<1>7. QED BY <1>4, <1>5, <1>6

LEMMA InsertStays ==
    ASSUME NEW T, NEW s \in Seq(T), NEW x \in T
    PROVE  InsertName(s, x) \in Seq(T)
<1>1. PICK k \in 0..Len(s) : InsertName(s, x) = InsertAt(s, k + 1, x)
  BY InsertedName
<1>2. Inserts(InsertName(s, x), T, s, k, x)
  BY <1>1, InsertAtIs
<1>3. QED BY <1>2 DEF Inserts

\* Sorted, unfolded.
LEMMA SortedUnfolds ==
    ASSUME NEW T, NEW s \in Seq(T)
    PROVE  \E g : /\ g[0] = << >> /\ \A k \in 1..Len(s) : g[k] = InsertName(g[k - 1], s[k])
                  /\ Sorted(s) = g[Len(s)] /\ \A k \in 0..Len(s) : g[k] \in Seq(T)
<1> DEFINE n == Len(s)
           B == [z \in Seq(T) \X (1..n) |-> InsertName(z[1], s[z[2]])]
           Fits(g) == g = [S \in SUBSET (1..n) |->
                              IF S = {} THEN << >> ELSE InsertName(g[S \ {Max(S)}], s[Max(S)])]
           views == CHOOSE g : Fits(g)
<1>1. n \in Nat /\ DOMAIN s = 1..n /\ << >> \in Seq(T) /\ \A k \in 1..n : s[k] \in T
  BY SMT
<1>2. \A v \in Seq(T), k \in 1..n : InsertName(v, s[k]) \in Seq(T)
  BY <1>1, InsertStays
<1>3. B \in [Seq(T) \X (1..n) -> Seq(T)]
  BY <1>2
<1>4. \E g : Fits(g)
  <2> HIDE DEF n, B
  <2>1. n \in Nat /\ << >> \in Seq(T)
    BY <1>1
  <2>2. PICK fold \in [SUBSET (1..n) -> Seq(T)] : IsLeftFold(fold, n, B, << >>)
    BY <1>3, <2>1, LeftFoldExists
  <2>3. \A S \in SUBSET (1..n) :
           fold[S] = IF S = {} THEN << >> ELSE InsertName(fold[S \ {Max(S)}], s[Max(S)])
    BY <2>2 DEF B, IsLeftFold
  <2>4. Fits(fold)
    BY <2>3
  <2> HIDE DEF Fits
  <2>5. QED BY <2>4
<1>5. \A S \in SUBSET (1..n) :
         views[S] = IF S = {} THEN << >> ELSE InsertName(views[S \ {Max(S)}], s[Max(S)])
  <2>1. Fits(views)
    <3> HIDE DEF Fits
    <3>1. QED BY <1>4
  <2> HIDE DEF views
  <2>2. QED BY <2>1
<1>6. Sorted(s) = views[1..n]
  BY <1>1 DEF Sorted, InsertName, FoldLeft, MapThenFoldSet
<1> HIDE DEF views
<1> DEFINE g == [k \in 0..n |-> views[1..k]]
           P == {k \in 0..n : g[k] \in Seq(T)}
<1>7. g[0] = << >>
  <2>1. 1..0 = {} /\ {} \in SUBSET (1..n) /\ 0 \in 0..n
    BY <1>1
  <2>2. views[{}] = << >>
    BY <1>5, <2>1
  <2>3. QED BY <2>1, <2>2
<1>8. ASSUME NEW k \in 1..n PROVE g[k] = InsertName(g[k - 1], s[k])
  <2>1. Max(1..k) = k /\ (1..k) \ {Max(1..k)} = 1..(k - 1) /\ 1..k \in SUBSET (1..n) /\ 1..k # {}
    BY <1>1, MaxOfFirst
  <2>2. views[1..k] = InsertName(views[1..(k - 1)], s[k])
    BY <1>5, <2>1
  <2>3. QED BY <1>1, <2>2
<1>9. Sorted(s) = g[n]
  BY <1>1, <1>6
<1> HIDE DEF g
<1>10. \A k \in 0..n : k \in P
  <2>1. 0 \in P
    <3>1. 0 \in 0..n /\ g[0] \in Seq(T)
      BY <1>1, <1>7
    <3>2. QED BY <3>1
  <2>2. \A k \in 1..n : k - 1 \in P => k \in P
    BY <1>1, <1>2, <1>8
  <2> HIDE DEF P, n
  <2>3. n \in Nat
    BY <1>1
  <2>4. QED BY <2>1, <2>2, <2>3, UptoInduction
<1>11. QED BY <1>7, <1>8, <1>9, <1>10

\* FilterActions keeps what is searched for.
Keep(kept, n, f) == IF Mentions(n, f) THEN Append(kept, n) ELSE kept

\* FilterActions, unfolded.
LEMMA FilterUnfolds ==
    ASSUME NEW T, NEW s \in Seq(T), NEW f
    PROVE  \E g : /\ g[0] = << >> /\ \A k \in 1..Len(s) : g[k] = Keep(g[k - 1], s[k], f)
                  /\ FilterActions(s, f) = g[Len(s)] /\ \A k \in 0..Len(s) : g[k] \in Seq(T)
<1> DEFINE n == Len(s)
           B == [z \in Seq(T) \X (1..n) |-> Keep(z[1], s[z[2]], f)]
           Fits(g) == g = [S \in SUBSET (1..n) |->
                              IF S = {} THEN << >> ELSE Keep(g[S \ {Max(S)}], s[Max(S)], f)]
           views == CHOOSE g : Fits(g)
<1>1. n \in Nat /\ DOMAIN s = 1..n /\ << >> \in Seq(T) /\ \A k \in 1..n : s[k] \in T
  BY SMT
<1>2. \A v \in Seq(T), k \in 1..n : Keep(v, s[k], f) \in Seq(T)
  BY <1>1, SMT DEF Keep
<1>3. B \in [Seq(T) \X (1..n) -> Seq(T)]
  BY <1>2
<1>4. \E g : Fits(g)
  <2> HIDE DEF n, B
  <2>1. n \in Nat /\ << >> \in Seq(T)
    BY <1>1
  <2>2. PICK fold \in [SUBSET (1..n) -> Seq(T)] : IsLeftFold(fold, n, B, << >>)
    BY <1>3, <2>1, LeftFoldExists
  <2>3. \A S \in SUBSET (1..n) :
           fold[S] = IF S = {} THEN << >> ELSE Keep(fold[S \ {Max(S)}], s[Max(S)], f)
    BY <2>2 DEF B, IsLeftFold
  <2>4. Fits(fold)
    BY <2>3
  <2> HIDE DEF Fits
  <2>5. QED BY <2>4
<1>5. \A S \in SUBSET (1..n) :
         views[S] = IF S = {} THEN << >> ELSE Keep(views[S \ {Max(S)}], s[Max(S)], f)
  <2>1. Fits(views)
    <3> HIDE DEF Fits
    <3>1. QED BY <1>4
  <2> HIDE DEF views
  <2>2. QED BY <2>1
<1>6. FilterActions(s, f) = views[1..n]
  BY <1>1 DEF FilterActions, Keep, FoldLeft, MapThenFoldSet
<1> HIDE DEF views
<1> DEFINE g == [k \in 0..n |-> views[1..k]]
           P == {k \in 0..n : g[k] \in Seq(T)}
<1>7. g[0] = << >>
  <2>1. 1..0 = {} /\ {} \in SUBSET (1..n) /\ 0 \in 0..n
    BY <1>1
  <2>2. views[{}] = << >>
    BY <1>5, <2>1
  <2>3. QED BY <2>1, <2>2
<1>8. ASSUME NEW k \in 1..n PROVE g[k] = Keep(g[k - 1], s[k], f)
  <2>1. Max(1..k) = k /\ (1..k) \ {Max(1..k)} = 1..(k - 1) /\ 1..k \in SUBSET (1..n) /\ 1..k # {}
    BY <1>1, MaxOfFirst
  <2>2. views[1..k] = Keep(views[1..(k - 1)], s[k], f)
    BY <1>5, <2>1
  <2>3. QED BY <1>1, <2>2
<1>9. FilterActions(s, f) = g[n]
  BY <1>1, <1>6
<1> HIDE DEF g
<1>10. \A k \in 0..n : k \in P
  <2>1. 0 \in P
    <3>1. 0 \in 0..n /\ g[0] \in Seq(T)
      BY <1>1, <1>7
    <3>2. QED BY <3>1
  <2>2. \A k \in 1..n : k - 1 \in P => k \in P
    BY <1>1, <1>2, <1>8
  <2> HIDE DEF P, n
  <2>3. n \in Nat
    BY <1>1
  <2>4. QED BY <2>1, <2>2, <2>3, UptoInduction
<1>11. QED BY <1>7, <1>8, <1>9, <1>10

\* No name comes behind one that it is less than.
Ascending(s) == \A i, j \in 1..Len(s) : i < j => ~NaturalLessThan(s[j], s[i])

\* Inserting a name where InsertName does keeps them in order.
LEMMA InsertAscends ==
    ASSUME NEW T \in SUBSET SoundNames, NEW s \in Seq(T), NEW x \in T, Ascending(s)
    PROVE  Ascending(InsertName(s, x))
<1> DEFINE t == InsertName(s, x)
           n == Len(s)
           Less(a, b) == NaturalLessThan(a, b)
<1>1. n \in Nat /\ x \in SoundNames /\ \A i \in 1..n : s[i] \in SoundNames
  OBVIOUS
<1>2. PICK k \in 0..n :
          /\ k # 0 => ~Less(x, s[k])
          /\ \A i \in (k + 1)..n : Less(x, s[i])
          /\ t = InsertAt(s, k + 1, x)
  BY InsertedName
<1>3. /\ Len(t) = n + 1 /\ t[k + 1] = x
      /\ \A i \in 1..k : t[i] = s[i]
      /\ \A i \in (k + 2)..(n + 1) : t[i] = s[i - 1]
  <2> HIDE DEF t, Less
  <2>1. s \in Seq(T) /\ x \in T /\ k \in 0..Len(s)
    BY <1>2
  <2>2. Inserts(InsertAt(s, k + 1, x), T, s, k, x)
    BY <2>1, InsertAtIs
  <2>3. t = InsertAt(s, k + 1, x)
    BY <1>2
  <2>4. QED BY <2>2, <2>3 DEF Inserts
<1> HIDE DEF t, Less, n
<1>4. \A i, j \in 1..n : i < j => ~Less(s[j], s[i])
  BY DEF Ascending, Less, n
<1>5. \A a, b, c \in SoundNames : /\ ~Less(b, a) /\ ~Less(c, b) => ~Less(c, a)
                                  /\ Less(a, b) => ~Less(b, a)
  BY NotLessGoesThrough DEF Less
<1>6. ASSUME NEW i \in 1..(n + 1), NEW j \in 1..(n + 1), i < j PROVE ~Less(t[j], t[i])
  <2>1. CASE j <= k
    <3>1. i \in 1..k /\ j \in 1..k /\ i \in 1..n /\ j \in 1..n
      BY <1>1, <1>2, <1>6, <2>1
    <3>2. QED BY <1>3, <1>4, <1>6, <3>1
  <2>2. CASE j = k + 1
    <3>1. i \in 1..k /\ k \in 1..n /\ i \in 1..n /\ k # 0
      BY <1>1, <1>2, <1>6, <2>2
    <3>2. ~Less(x, s[k]) /\ (i = k \/ ~Less(s[k], s[i]))
      BY <1>2, <1>4, <3>1
    <3>3. ~Less(x, s[i])
      BY <1>1, <1>5, <3>1, <3>2
    <3>4. QED BY <1>3, <2>2, <3>1, <3>3
  <2>3. CASE j > k + 1
    <3>1. j \in (k + 2)..(n + 1) /\ j - 1 \in 1..n /\ j - 1 \in (k + 1)..n /\ t[j] = s[j - 1]
      BY <1>1, <1>2, <1>3, <2>3
    <3>2. CASE i <= k
      <4>1. i \in 1..k /\ i \in 1..n /\ i < j - 1
        BY <1>1, <1>2, <2>3, <3>2
      <4>2. QED BY <1>3, <1>4, <3>1, <4>1
    <3>3. CASE i = k + 1
      <4>1. Less(x, s[j - 1]) /\ s[j - 1] \in SoundNames
        BY <1>1, <1>2, <3>1
      <4>2. QED BY <1>1, <1>3, <1>5, <3>1, <3>3, <4>1
    <3>4. CASE i > k + 1
      <4>1. i \in (k + 2)..(n + 1) /\ i - 1 \in 1..n /\ i - 1 < j - 1 /\ t[i] = s[i - 1]
        BY <1>1, <1>2, <1>3, <1>6, <3>4
      <4>2. QED BY <1>4, <3>1, <4>1
    <3>5. QED BY <1>1, <1>2, <3>2, <3>3, <3>4
  <2>4. QED BY <1>1, <1>2, <2>1, <2>2, <2>3
<1>7. \A i, j \in 1..Len(t) : i < j => ~NaturalLessThan(t[j], t[i])
  BY <1>3, <1>6 DEF Less
<1>8. QED BY <1>7 DEF Ascending, t

\* What Sorted makes of a list are the same names, in order.
LEMMA SortedAscends ==
    ASSUME NEW T, NEW list \in Seq(T)
    PROVE  /\ Sorted(list) \in Seq(T)
           /\ T \in SUBSET SoundNames => Ascending(Sorted(list))
<1> DEFINE n == Len(list)
<1>1. n \in Nat /\ n \in 0..n /\ \A k \in 1..n : list[k] \in T /\ k - 1 \in 0..n
  OBVIOUS
<1>2. PICK g : /\ g[0] = << >> /\ \A k \in 1..n : g[k] = InsertName(g[k - 1], list[k])
               /\ Sorted(list) = g[n] /\ \A k \in 0..n : g[k] \in Seq(T)
  BY SortedUnfolds
<1> HIDE DEF n
<1>3. ASSUME T \in SUBSET SoundNames PROVE Ascending(Sorted(list))
  <2> DEFINE P == {k \in 0..n : Ascending(g[k])}
  <2>1. 0 \in P
    <3>1. Len(g[0]) = 0
      BY <1>2
    <3>2. Ascending(g[0])
      BY <3>1 DEF Ascending
    <3>3. QED BY <1>1, <3>2
  <2>2. ASSUME NEW k \in 1..n, k - 1 \in P PROVE k \in P
    <3>1. /\ g[k - 1] \in Seq(T) /\ list[k] \in T /\ Ascending(g[k - 1])
          /\ g[k] = InsertName(g[k - 1], list[k]) /\ k \in 0..n
      BY <1>1, <1>2, <2>2
    <3>2. Ascending(g[k])
      BY <1>3, <3>1, InsertAscends
    <3>3. QED BY <3>1, <3>2
  <2>3. \A k \in 0..n : k \in P
    <3> HIDE DEF P
    <3>1. QED BY <1>1, <2>1, <2>2, UptoInduction
  <2>4. QED BY <1>1, <1>2, <2>3
<1>4. QED BY <1>1, <1>2, <1>3

\* What is left after a search is in the order it was in.
LEMMA FilterKeepsOrder ==
    ASSUME NEW T, NEW list \in Seq(T), NEW f
    PROVE  /\ FilterActions(list, f) \in Seq(T)
           /\ Ascending(list) => Ascending(FilterActions(list, f))
<1> DEFINE n == Len(list)
<1>1. n \in Nat /\ n \in 0..n /\ \A k \in 1..n : list[k] \in T /\ k - 1 \in 0..n
  OBVIOUS
<1>2. PICK g : /\ g[0] = << >> /\ \A k \in 1..n : g[k] = Keep(g[k - 1], list[k], f)
               /\ FilterActions(list, f) = g[n] /\ \A k \in 0..n : g[k] \in Seq(T)
  BY FilterUnfolds
<1> HIDE DEF n
<1>3. ASSUME Ascending(list) PROVE Ascending(g[n])
  <2> DEFINE From(k) == \A i \in 1..Len(g[k]) : \E l \in 1..k : g[k][i] = list[l]
             P == {k \in 0..n : From(k) /\ Ascending(g[k])}
  <2>1. 0 \in P
    <3>1. Len(g[0]) = 0
      BY <1>2
    <3>2. Ascending(g[0]) /\ From(0)
      BY <3>1 DEF Ascending
    <3>3. QED BY <1>1, <3>2
  <2>2. ASSUME NEW k \in 1..n, k - 1 \in P PROVE k \in P
    <3>1. /\ From(k - 1) /\ Ascending(g[k - 1]) /\ g[k - 1] \in Seq(T)
          /\ k - 1 \in 0..n /\ k \in 0..n
          /\ list[k] \in T /\ g[k] = Keep(g[k - 1], list[k], f)
      BY <1>1, <1>2, <2>2
    <3>2. CASE g[k] = g[k - 1]
      <4>1. \A l \in 1..(k - 1) : l \in 1..k
        BY <1>1
      <4>2. From(k)
        BY <3>1, <3>2, <4>1
      <4>3. QED BY <3>1, <3>2, <4>2
    <3>3. CASE g[k] = Append(g[k - 1], list[k])
      <4> DEFINE m == Len(g[k - 1])
                 x == list[k]
      <4>1. /\ m \in Nat /\ Len(g[k]) = m + 1 /\ g[k][m + 1] = x
            /\ \A i \in 1..m : g[k][i] = g[k - 1][i]
        BY <3>1, <3>3
      <4>2. ASSUME NEW i \in 1..m PROVE \E l \in 1..(k - 1) : g[k][i] = list[l]
        BY <3>1, <4>1
      <4> HIDE DEF m
      <4>3. From(k)
        <5>1. \A i \in 1..(m + 1) : i \in 1..m \/ i = m + 1
          BY <4>1
        <5>2. k \in 1..k /\ \A l \in 1..(k - 1) : l \in 1..k
          BY <1>1
        <5>3. QED BY <4>1, <4>2, <5>1, <5>2
      <4>4. ASSUME NEW i \in 1..(m + 1), NEW j \in 1..(m + 1), i < j
            PROVE  ~NaturalLessThan(g[k][j], g[k][i])
        <5>1. i \in 1..m
          BY <4>1, <4>4
        <5>2. CASE j = m + 1
          <6>1. PICK l \in 1..(k - 1) : g[k][i] = list[l]
            BY <4>2, <5>1
          <6>2. l \in 1..n /\ l < k
            BY <1>1
          <6>3. ~NaturalLessThan(list[k], list[l])
            BY <1>3, <6>2 DEF Ascending, n
          <6>4. QED BY <4>1, <5>2, <6>1, <6>3
        <5>3. CASE j # m + 1
          <6>1. j \in 1..m
            BY <4>1, <5>3
          <6>2. ~NaturalLessThan(g[k - 1][j], g[k - 1][i])
            BY <3>1, <4>4, <5>1, <6>1 DEF Ascending, m
          <6>3. QED BY <4>1, <5>1, <6>1, <6>2
        <5>4. QED BY <5>2, <5>3
      <4>5. Ascending(g[k])
        BY <4>1, <4>4 DEF Ascending
      <4>6. QED BY <3>1, <4>3, <4>5
    <3>4. QED BY <3>1, <3>2, <3>3 DEF Keep
  <2>3. \A k \in 0..n : k \in P
    <3> HIDE DEF P
    <3>1. QED BY <1>1, <2>1, <2>2, UptoInduction
  <2>4. QED BY <1>1, <2>3
<1>4. QED BY <1>1, <1>2, <1>3

\* Menus of names without a leading zero are in order.
LEMMA MenusAscend ==
    ASSUME objects \in Seq(Names)
    PROVE  MenusAreSorted
<1> SUFFICES ASSUME \A n \in ToSet(objects) : ~ZeroLed(n), NEW f \in Filters
             PROVE  LET menu == FilterActions(Sorted(objects), f)
                    IN  \A i, j \in DOMAIN menu : i < j => ~NaturalLessThan(menu[j], menu[i])
  BY DEF MenusAreSorted
<1> DEFINE T == ToSet(objects)
           sorted == Sorted(objects)
           menu == FilterActions(sorted, f)
<1>1. T \in SUBSET SoundNames
  BY MenusAssumption DEF MenusAssumption, SoundNames, ToSet
<1>2. objects \in Seq(T)
  <2>1. \A i \in 1..Len(objects) : objects[i] \in T
    BY DEF ToSet
  <2> HIDE DEF T
  <2>2. QED BY <2>1, SeqOfElements
<1> HIDE DEF T
<1>3. sorted \in Seq(T) /\ Ascending(sorted)
  BY <1>1, <1>2, SortedAscends
<1> HIDE DEF sorted
<1>4. menu \in Seq(T) /\ Ascending(menu)
  BY <1>3, FilterKeepsOrder
<1>5. \A i, j \in DOMAIN menu : i < j => ~NaturalLessThan(menu[j], menu[i])
  <2> HIDE DEF menu
  <2>1. DOMAIN menu = 1..Len(menu)
    BY <1>4
  <2>2. QED BY <1>4, <2>1 DEF Ascending
<1>6. QED BY <1>5 DEF sorted

-----------------------------------------------------------------------------
(* Pages                                                                   *)

\* FlattenSeq joins one sequence after the other.
Splices(f, ps, n) ==
    f[1] = ps[1] /\ \A i \in 2..n : f[i] = f[i - 1] \o ps[i]

Flattens(f, ps, T) ==
    /\ Splices(f, ps, Len(ps)) /\ FlattenSeq(ps) = f[Len(ps)]
    /\ \A i \in 1..Len(ps) : f[i] \in Seq(T)

LEMMA FlattenUnfolds ==
    ASSUME NEW T, NEW ps \in Seq(Seq(T)), ps # << >>
    PROVE  \E f : Flattens(f, ps, T)
<1> DEFINE V == Seq(T)
           n == Len(ps)
           B == [z \in V \X Nat |-> IF z[2] \in 1..n THEN z[1] \o ps[z[2]] ELSE z[1]]
           Fits(f) == f = [i \in 1..n |-> IF i = 1 THEN ps[i] ELSE f[i - 1] \o ps[i]]
           flat == CHOOSE f : Fits(f)
<1>1. /\ n \in Nat /\ n # 0 /\ 1 \in 1..n /\ n \in 1..n
      /\ \A i \in 1..n : ps[i] \in V
  <2> HIDE DEF V
  <2>1. ps \in Seq(V) /\ ps # << >>
    BY DEF V
  <2>2. n \in Nat \ {0} /\ \A i \in 1..n : ps[i] \in V
    BY <2>1, EmptySeq, ElementOfSeq
  <2>3. QED BY <2>2
<1>2. << >> \in V
  OBVIOUS
<1>3. \A v \in V : << >> \o v = v
  BY ConcatEmptySeq
<1>4. \A v, w \in V : v \o w \in V
  BY ConcatProperties
<1> HIDE DEF V, n
<1>5. B \in [V \X Nat -> V]
  BY <1>1, <1>4
<1>6. PICK f \in [Nat -> V] : IsCounted(f, B, << >>)
  <2> HIDE DEF B
  <2>1. QED BY <1>2, <1>5, CountedExists
<1> DEFINE h == [i \in 1..n |-> f[i]]
<1>7. ASSUME NEW i \in 1..n PROVE h[i] = IF i = 1 THEN ps[i] ELSE h[i - 1] \o ps[i]
  <2>1. i \in Nat \ {0} /\ i - 1 \in Nat /\ (i # 1 => i - 1 \in 1..n)
    BY <1>1
  <2>2. f[i] = B[<<f[i - 1], i>>] /\ f[i - 1] \in V /\ f[0] = << >>
    BY <1>6, <2>1 DEF IsCounted
  <2>3. f[i] = f[i - 1] \o ps[i]
    BY <2>1, <2>2
  <2>4. CASE i = 1
    <3>1. f[i - 1] = << >>
      BY <2>2, <2>4
    <3>2. f[i] = ps[i]
      BY <1>1, <1>3, <2>3, <3>1
    <3>3. QED BY <2>4, <3>2
  <2>5. CASE i # 1
    BY <2>1, <2>3, <2>5
  <2>6. QED BY <2>4, <2>5
<1>8. Fits(h)
  <2>1. h = [i \in 1..n |-> h[i]]
    OBVIOUS
  <2> HIDE DEF h
  <2>2. QED BY <1>7, <2>1
<1>9. Fits(flat)
  <2> HIDE DEF Fits, h
  <2>1. QED BY <1>8
<1> HIDE DEF flat
<1>10. \A i \in 1..n : flat[i] = IF i = 1 THEN ps[i] ELSE flat[i - 1] \o ps[i]
  BY <1>9
<1>11. flat[1] = ps[1]
  BY <1>1, <1>10
<1>12. ASSUME NEW i \in 2..n PROVE flat[i] = flat[i - 1] \o ps[i]
  <2>1. i \in 1..n /\ i # 1
    BY <1>1
  <2>2. QED BY <1>10, <2>1
<1>13. Splices(flat, ps, n)
  BY <1>11, <1>12 DEF Splices
<1>14. \A i \in 1..n : flat[i] \in V
  <2> DEFINE P == {i \in 0..n : i # 0 => flat[i] \in V}
  <2>1. 0 \in P
    BY <1>1
  <2>2. ASSUME NEW i \in 1..n, i - 1 \in P PROVE i \in P
    <3>1. i \in 0..n /\ (i # 1 => i - 1 # 0 /\ i \in 2..n)
      BY <1>1
    <3>2. CASE i = 1
      BY <1>1, <1>11, <3>1, <3>2
    <3>3. CASE i # 1
      <4>1. flat[i] = flat[i - 1] \o ps[i] /\ flat[i - 1] \in V /\ ps[i] \in V
        BY <1>1, <1>12, <2>2, <3>1, <3>3
      <4>2. flat[i] \in V
        BY <1>4, <4>1
      <4>3. QED BY <3>1, <4>2
    <3>4. QED BY <3>2, <3>3
  <2>3. \A i \in 0..n : i \in P
    <3> HIDE DEF P
    <3>1. QED BY <1>1, <2>1, <2>2, UptoInduction
  <2>4. \A i \in 1..n : i \in 0..n /\ i # 0
    BY <1>1
  <2>5. QED BY <2>3, <2>4
<1>15. FlattenSeq(ps) = flat[n]
  BY <1>1 DEF FlattenSeq, flat, n
<1>16. QED BY <1>13, <1>14, <1>15 DEF Flattens, V, n

LEMMA FlattenNone == FlattenSeq(<< >>) = << >>
  BY DEF FlattenSeq

LEMMA FlattenOne ==
    ASSUME NEW T, NEW x \in Seq(T)
    PROVE  <<x>> \in Seq(Seq(T)) /\ FlattenSeq(<<x>>) = x
<1> DEFINE V == Seq(T)
           ps == <<x>>
<1>1. ps \in Seq(V) /\ ps # << >> /\ Len(ps) = 1 /\ ps[1] = x
  <2> HIDE DEF V
  <2>1. x \in V
    BY DEF V
  <2>2. QED BY <2>1
<1> HIDE DEF ps
<1>2. PICK f : Flattens(f, ps, T)
  BY <1>1, FlattenUnfolds
<1>3. QED BY <1>1, <1>2 DEF Flattens, Splices, ps

LEMMA FlattenMore ==
    ASSUME NEW T, NEW x \in Seq(T), NEW qs \in Seq(Seq(T)), qs # << >>
    PROVE  <<x>> \o qs \in Seq(Seq(T)) /\ FlattenSeq(<<x>> \o qs) = x \o FlattenSeq(qs)
<1> DEFINE V == Seq(T)
           ps == <<x>> \o qs
           n == Len(qs)
<1>1. /\ n \in Nat /\ n # 0
      /\ ps \in Seq(V) /\ ps # << >> /\ Len(ps) = n + 1 /\ ps[1] = x
      /\ \A i \in 1..n : ps[i + 1] = qs[i] /\ qs[i] \in V
  <2> HIDE DEF V
  <2>1. x \in V /\ qs \in Seq(V)
    BY DEF V
  <2>2. n \in Nat \ {0} /\ \A i \in 1..n : qs[i] \in V
    BY <2>1, EmptySeq, ElementOfSeq
  <2>3. <<x>> \in Seq(V) /\ Len(<<x>>) = 1 /\ <<x>>[1] = x
    BY <2>1
  <2>4. /\ ps \in Seq(V) /\ Len(ps) = 1 + n
        /\ \A i \in 1..(1 + n) : ps[i] = IF i <= 1 THEN <<x>>[i] ELSE qs[i - 1]
    BY <2>1, <2>3, ConcatProperties
  <2> HIDE DEF ps, n
  <2>5. \A i \in 1..n : i + 1 \in 1..(1 + n) /\ ~(i + 1 <= 1) /\ (i + 1) - 1 = i
    BY <2>2
  <2>6. \A i \in 1..n : ps[i + 1] = qs[i]
    BY <2>4, <2>5
  <2>7. 1 \in 1..(1 + n) /\ 1 + n = n + 1 /\ n + 1 # 0
    BY <2>2
  <2>8. ps # << >>
    BY <2>4, <2>7
  <2>9. QED BY <2>2, <2>3, <2>4, <2>6, <2>7, <2>8
<1>2. PICK f : Flattens(f, ps, T)
  <2> HIDE DEF ps, n
  <2>1. QED BY <1>1, FlattenUnfolds
<1>3. PICK g : Flattens(g, qs, T)
  BY FlattenUnfolds
<1>4. /\ Splices(f, ps, n + 1) /\ FlattenSeq(ps) = f[n + 1]
      /\ Splices(g, qs, n) /\ FlattenSeq(qs) = g[n] /\ \A i \in 1..n : g[i] \in V
  BY <1>1, <1>2, <1>3 DEF Flattens
<1> HIDE DEF ps, n, V
<1> DEFINE P == {i \in 0..n : i # 0 => f[i + 1] = x \o g[i]}
<1>5. 0 \in P
  BY <1>1
<1>6. ASSUME NEW i \in 1..n, i - 1 \in P PROVE i \in P
  <2>1. /\ i \in 0..n /\ i # 0 /\ i + 1 \in 2..(n + 1) /\ (i + 1) - 1 = i
        /\ (i # 1 => i \in 2..n /\ i - 1 \in 1..n /\ i - 1 # 0 /\ (i - 1) + 1 = i)
    BY <1>1
  <2>2. f[i + 1] = f[i] \o qs[i]
    BY <1>1, <1>4, <2>1 DEF Splices
  <2>3. CASE i = 1
    BY <1>1, <1>4, <2>1, <2>2, <2>3 DEF Splices
  <2>4. CASE i # 1
    <3>1. f[i] = x \o g[i - 1] /\ g[i] = g[i - 1] \o qs[i]
      BY <1>4, <1>6, <2>1, <2>4 DEF Splices
    <3>2. x \in Seq(T) /\ g[i - 1] \in Seq(T) /\ qs[i] \in Seq(T)
      BY <1>1, <1>4, <2>1, <2>4 DEF V
    <3>3. (x \o g[i - 1]) \o qs[i] = x \o (g[i - 1] \o qs[i])
      <4> DEFINE a == g[i - 1]
                 b == qs[i]
      <4>1. a \in Seq(T) /\ b \in Seq(T)
        BY <3>2
      <4> HIDE DEF a, b, P
      <4>2. x \in Seq(T)
        OBVIOUS
      <4>3. (x \o a) \o b = x \o (a \o b)
        BY ONLY <4>1, <4>2, ConcatAssociative
      <4>4. QED BY <4>3 DEF a, b
    <3>4. f[i + 1] = x \o g[i]
      BY <2>2, <3>1, <3>3
    <3>5. QED BY <2>1, <3>4
  <2>5. QED BY <2>3, <2>4
<1>7. \A i \in 0..n : i \in P
  <2> HIDE DEF P
  <2>1. QED BY <1>1, <1>5, <1>6, UptoInduction
<1>8. n \in 0..n /\ n # 0
  BY <1>1
<1>9. f[n + 1] = x \o g[n]
  BY <1>7, <1>8
<1>10. QED BY <1>1, <1>4, <1>9 DEF ps, V

\* The width of a column is that of its widest entry, with two for spaces.
LEMMA WidthKnown ==
    ASSUME NEW column \in Seq(Names)
    PROVE  /\ ColumnWidth(column) \in Nat
           /\ \/ ColumnWidth(column) = 2
              \/ \E i \in DOMAIN column : ColumnWidth(column) = 2 + Len(column[i])
<1> DEFINE S == {0} \cup {Len(column[i]) : i \in DOMAIN column}
<1>1. \A i \in DOMAIN column : Len(column[i]) \in 0..19
  <2>1. ASSUME NEW i \in DOMAIN column PROVE Len(column[i]) \in 0..19
    <3>1. column[i] \in Names
      OBVIOUS
    <3>2. column[i] \in Seq(Nat) /\ Len(column[i]) < 19
      BY <3>1, MenusAssumption DEF MenusAssumption
    <3>3. Len(column[i]) \in Nat
      BY <3>2, LenProperties
    <3>4. \A a \in Nat : a < 19 => a \in 0..19
      OBVIOUS
    <3>5. QED BY <3>2, <3>3, <3>4
  <2>2. QED BY <2>1
<1>2. S \in SUBSET (0..19) /\ S # {}
  <2>1. 0 \in 0..19
    OBVIOUS
  <2>2. QED BY <1>1, <2>1
<1>3. Max(S) \in S
  <2> HIDE DEF S
  <2>1. (0..19) \in SUBSET Int
    OBVIOUS
  <2>2. 0 \in Int /\ 19 \in Int
    OBVIOUS
  <2>3. IsFiniteSet(0..19)
    BY <2>2, FS_Interval
  <2>4. QED BY <1>2, <2>1, <2>3, MaxExists
<1>4. ColumnWidth(column) = 2 + Max(S)
  BY DEF ColumnWidth
<1>5. Max(S) = 0 \/ \E i \in DOMAIN column : Max(S) = Len(column[i])
  BY <1>3
<1>6. Max(S) \in 0..19
  BY <1>2, <1>3
<1> HIDE DEF S
<1>7. QED BY <1>4, <1>5, <1>6

\* An entry is wider than a page, or any would be.
Wide(list) == Width < 2 \/ \E i \in DOMAIN list : Len(list[i]) + 2 > Width

\* A column is a part of the list.
LEMMA ColumnKnown ==
    ASSUME NEW list \in Seq(Names), NEW k \in Nat \ {0}
    PROVE  /\ Column(list, k) \in Seq(Names)
           /\ \A i \in DOMAIN Column(list, k) :
                 \E j \in DOMAIN list : Column(list, k)[i] = list[j]
<1> DEFINE a == (k - 1) * Height + 1
           b == Smaller(k * Height, Len(list))
<1>1. Len(list) \in Nat /\ DOMAIN list = 1..Len(list) /\ \A i \in 1..Len(list) : list[i] \in Names
  OBVIOUS
<1>2. a \in Nat /\ a >= 1 /\ b \in Int /\ b <= Len(list)
  <2>1. \A m, n \in Nat : m * n \in Nat
    OBVIOUS
  <2>2. k - 1 \in Nat /\ k \in Nat /\ Height \in Nat
    BY MenusAssumption DEF MenusAssumption
  <2> DEFINE c == (k - 1) * Height
             d == k * Height
  <2>3. c \in Nat /\ d \in Nat
    BY <2>1, <2>2
  <2> HIDE DEF c, d
  <2>4. a = c + 1 /\ b = IF d < Len(list) THEN d ELSE Len(list)
    BY DEF c, d, Smaller
  <2>5. QED BY <1>1, <2>3, <2>4
<1> HIDE DEF a, b
<1>3. \A i \in a..b : i \in 1..Len(list) /\ list[i] \in Names
  BY <1>1, <1>2
<1>4. /\ SubSeq(list, a, b) \in Seq(Names)
      /\ Len(SubSeq(list, a, b)) = IF a <= b THEN b - a + 1 ELSE 0
      /\ \A i \in 1..(b - a + 1) : SubSeq(list, a, b)[i] = list[a + i - 1]
  BY <1>2, <1>3, SubSeqProperties
<1> DEFINE col == SubSeq(list, a, b)
<1>5. Column(list, k) = col
  BY DEF Column, a, b
<1> HIDE DEF col
<1>6. col \in Seq(Names) /\ DOMAIN col = 1..Len(col)
  BY <1>4 DEF col
<1>7. ASSUME NEW i \in 1..Len(col) PROVE \E j \in DOMAIN list : col[i] = list[j]
  <2>1. i \in 1..(b - a + 1) /\ a + i - 1 \in a..b
    BY <1>2, <1>4, <1>6 DEF col
  <2>2. col[i] = list[a + i - 1] /\ a + i - 1 \in DOMAIN list
    BY <1>1, <1>3, <1>4, <2>1 DEF col
  <2>3. QED BY <2>2
<1>8. QED BY <1>5, <1>6, <1>7

\* Columns is a number, and not 0 unless an entry is too wide.
LEMMA ColumnsKnown ==
    ASSUME NEW list \in Seq(Names)
    PROVE  Columns(list) \in Nat /\ (list # << >> /\ Columns(list) = 0 => Wide(list))
<1> DEFINE m == (Len(list) + Height - 1) \div Height
           B == [z \in Int \X Nat |->
                    IF z[2] = 0 THEN z[1] ELSE z[1] + ColumnWidth(Column(list, z[2]))]
           Fits(f) == f = [k \in Nat |->
                              IF k = 0 THEN 0 ELSE f[k - 1] + ColumnWidth(Column(list, k))]
           total == CHOOSE f : Fits(f)
           S == {0} \cup {k \in 1..m : total[k] <= Width}
<1>1. Width \in Nat /\ Height \in Nat \ {0} /\ Len(list) \in Nat
  BY MenusAssumption DEF MenusAssumption
<1>2. m \in Nat /\ (list # << >> => m >= 1)
  <2>1. \A n \in Nat, h \in Nat \ {0} : (n + h - 1) \div h \in Nat
    OBVIOUS
  <2>2. \A n, h \in Nat \ {0} : (n + h - 1) \div h >= 1
    OBVIOUS
  <2>3. list # << >> => Len(list) \in Nat \ {0}
    BY EmptySeq
  <2>4. QED BY <1>1, <2>1, <2>2, <2>3
<1> HIDE DEF m
<1>3. \A k \in Nat \ {0} : ColumnWidth(Column(list, k)) \in Nat
  BY ColumnKnown, WidthKnown
<1>4. B \in [Int \X Nat -> Int]
  <2>1. ASSUME NEW z \in Int \X Nat
        PROVE  (IF z[2] = 0 THEN z[1] ELSE z[1] + ColumnWidth(Column(list, z[2]))) \in Int
    BY <1>3
  <2>2. QED BY <2>1
<1>5. PICK f \in [Nat -> Int] : IsCounted(f, B, 0)
  <2> DEFINE V == Int
  <2>1. B \in [V \X Nat -> V] /\ 0 \in V
    BY <1>4
  <2> HIDE DEF B, V
  <2>2. \E f \in [Nat -> V] : IsCounted(f, B, 0)
    BY <2>1, CountedExists
  <2>3. QED BY <2>2 DEF V
<1>6. Fits(f)
  <2>1. ASSUME NEW k \in Nat
        PROVE  f[k] = IF k = 0 THEN 0 ELSE f[k - 1] + ColumnWidth(Column(list, k))
    <3>1. CASE k = 0
      BY <1>5, <3>1 DEF IsCounted
    <3>2. CASE k # 0
      <4>1. k \in Nat \ {0} /\ k - 1 \in Nat
        BY <3>2
      <4>2. f[k] = B[<<f[k - 1], k>>] /\ f[k - 1] \in Int
        BY <1>5, <4>1 DEF IsCounted
      <4>3. f[k] = f[k - 1] + ColumnWidth(Column(list, k))
        BY <4>1, <4>2
      <4>4. QED BY <3>2, <4>3
    <3>3. QED BY <3>1, <3>2
  <2>2. f = [k \in Nat |-> f[k]]
    OBVIOUS
  <2>3. QED BY <2>1, <2>2
<1>7. Fits(total)
  <2> HIDE DEF Fits
  <2>1. QED BY <1>6
<1>8. Columns(list) = Max(S)
  BY DEF Columns, m
<1> HIDE DEF total
<1>9. total[0] = 0 /\ total[1] = total[0] + ColumnWidth(Column(list, 1))
  <2>1. \A k \in Nat : total[k] = IF k = 0 THEN 0 ELSE total[k - 1] + ColumnWidth(Column(list, k))
    BY <1>7
  <2>2. 0 \in Nat /\ 1 \in Nat /\ 1 # 0 /\ 1 - 1 = 0
    OBVIOUS
  <2>3. QED BY <2>1, <2>2
<1>10. S \in SUBSET (0..m) /\ S # {}
  BY <1>2
<1>11. Max(S) \in S /\ \A y \in S : Max(S) >= y
  <2> HIDE DEF S
  <2>1. (0..m) \in SUBSET Int /\ IsFiniteSet(0..m)
    BY <1>2, FS_Interval
  <2>2. QED BY <1>10, <2>1, MaxExists
<1>12. ASSUME list # << >>, Max(S) = 0 PROVE Wide(list)
  <2> DEFINE col == Column(list, 1)
             w == ColumnWidth(col)
  <2>1. /\ col \in Seq(Names) /\ \A i \in DOMAIN col : \E j \in DOMAIN list : col[i] = list[j]
        /\ w \in Nat /\ (w = 2 \/ \E i \in DOMAIN col : w = 2 + Len(col[i]))
    <3> HIDE DEF col
    <3>1. 1 \in Nat \ {0}
      OBVIOUS
    <3>2. col \in Seq(Names) /\ \A i \in DOMAIN col : \E j \in DOMAIN list : col[i] = list[j]
      BY <3>1, ColumnKnown DEF col
    <3>3. QED BY <3>2, WidthKnown
  <2>2. total[1] = w
    BY <1>9, <2>1
  <2> HIDE DEF w, col
  <2>3. 1 \notin S /\ 1 \in 1..m
    BY <1>2, <1>11, <1>12
  <2>4. ~(w <= Width)
    BY <2>2, <2>3
  <2>5. CASE w = 2
    BY <1>1, <2>4, <2>5 DEF Wide
  <2>6. ASSUME NEW i \in DOMAIN col, w = 2 + Len(col[i]) PROVE Wide(list)
    <3>1. PICK j \in DOMAIN list : col[i] = list[j]
      BY <2>1
    <3>2. list[j] \in Names
      OBVIOUS
    <3>3. Len(list[j]) \in Nat
      BY <3>2, MenusAssumption DEF MenusAssumption
    <3>4. Len(list[j]) + 2 > Width
      BY <1>1, <2>4, <2>6, <3>1, <3>3
    <3>5. QED BY <3>4 DEF Wide
  <2>7. QED BY <2>1, <2>5, <2>6
<1>13. QED BY <1>2, <1>8, <1>10, <1>11, <1>12

\* The pages from entry i on, of those from later entries on.
CutFrom(g, list, i) ==
    LET rest == SubSeq(list, i, Len(list))
        n    == Columns(rest) * Height
        next == i + ItemsOfPage(rest)
    IN  IF n = 0 THEN << >>
        ELSE IF n >= Len(rest) THEN <<rest>>
        ELSE IF next > Len(list) THEN <<SubSeq(rest, 1, n)>>
        ELSE IF g[next] = << >> THEN << >>
        ELSE <<SubSeq(rest, 1, n)>> \o g[next]

\* The rest of a list, and the number of its entries on a page.
LEMMA RestKnown ==
    ASSUME NEW list \in Seq(Names), NEW i \in 1..(Len(list) + 1)
    PROVE  LET rest == SubSeq(list, i, Len(list))
               n    == Columns(rest) * Height
           IN  /\ rest \in Seq(Names) /\ Len(rest) = Len(list) - i + 1
               /\ \A j \in 1..Len(rest) : rest[j] = list[i + j - 1]
               /\ n \in Nat /\ ItemsOfPage(rest) = n
               /\ \A k \in 0..Len(rest) :
                     /\ SubSeq(rest, 1, k) \in Seq(Names)
                     /\ SubSeq(rest, 1, k) = SubSeq(list, i, i + k - 1)
               /\ n = 0 /\ rest # << >> => Wide(list)
<1> DEFINE len == Len(list)
           rest == SubSeq(list, i, len)
           c == Columns(rest)
           n == c * Height
<1>1. len \in Nat /\ i \in Nat /\ 1 <= i /\ i <= len + 1 /\ \A j \in 1..len : list[j] \in Names
  OBVIOUS
<1> HIDE DEF len
<1>2. /\ rest \in Seq(Names) /\ Len(rest) = len - i + 1
      /\ \A j \in 1..(len - i + 1) : rest[j] = list[i + j - 1]
  <2>1. \A j \in i..len : list[j] \in Names
    BY <1>1
  <2>2. i \in Int /\ len \in Int
    BY <1>1
  <2>3. /\ SubSeq(list, i, len) \in Seq(Names)
        /\ Len(SubSeq(list, i, len)) = IF i <= len THEN len - i + 1 ELSE 0
        /\ \A j \in 1..(len - i + 1) : SubSeq(list, i, len)[j] = list[i + j - 1]
    BY <2>1, <2>2, SubSeqProperties
  <2>4. QED BY <1>1, <2>3
<1> HIDE DEF rest
<1>3. c \in Nat /\ (rest # << >> /\ c = 0 => Wide(rest))
  BY <1>2, ColumnsKnown
<1> HIDE DEF c
<1>4. Height \in Nat \ {0} /\ Width \in Nat
  BY MenusAssumption DEF MenusAssumption
<1>5. n \in Nat /\ (n = 0 => c = 0)
  <2>1. \A a \in Nat, h \in Nat \ {0} : a * h \in Nat /\ (a * h = 0 => a = 0)
    OBVIOUS
  <2>2. QED BY <1>3, <1>4, <2>1
<1>6. ItemsOfPage(rest) = n
  BY DEF ItemsOfPage, c
<1> HIDE DEF n
<1>7. Wide(rest) => Wide(list)
  <2> SUFFICES ASSUME NEW j \in DOMAIN rest, Len(rest[j]) + 2 > Width PROVE Wide(list)
    BY DEF Wide
  <2>1. j \in 1..(len - i + 1) /\ i + j - 1 \in 1..len
    BY <1>1, <1>2
  <2> DEFINE l == i + j - 1
  <2>2. DOMAIN list = 1..len
    BY DEF len
  <2>3. rest[j] = list[l] /\ l \in 1..len
    BY <1>2, <2>1
  <2> HIDE DEF l
  <2>4. rest[j] = list[l] /\ l \in DOMAIN list
    BY <2>2, <2>3
  <2>5. Len(list[l]) + 2 > Width
    BY <2>4
  <2>6. QED BY <2>4, <2>5 DEF Wide
<1>8. ASSUME NEW k \in 0..Len(rest)
      PROVE  SubSeq(rest, 1, k) \in Seq(Names) /\ SubSeq(rest, 1, k) = SubSeq(list, i, i + k - 1)
  <2> DEFINE a == SubSeq(rest, 1, k)
             b == SubSeq(list, i, i + k - 1)
  <2>1. k \in Nat /\ k <= len - i + 1
    BY <1>1, <1>2
  <2>2. /\ a \in Seq(Names) /\ Len(a) = k
        /\ \A j \in 1..k : a[j] = list[i + j - 1]
    <3>1. \A j \in 1..k : rest[j] \in Names
      BY <1>1, <1>2, <2>1
    <3>2. 1 \in Int /\ k \in Int
      BY <2>1
    <3>3. /\ SubSeq(rest, 1, k) \in Seq(Names)
          /\ Len(SubSeq(rest, 1, k)) = IF 1 <= k THEN k - 1 + 1 ELSE 0
          /\ \A j \in 1..(k - 1 + 1) : SubSeq(rest, 1, k)[j] = rest[1 + j - 1]
      BY <3>1, <3>2, SubSeqProperties
    <3>4. \A j \in 1..k : j \in 1..(k - 1 + 1) /\ 1 + j - 1 = j /\ j \in 1..(len - i + 1)
      BY <1>1, <2>1
    <3>5. \A j \in 1..k : SubSeq(rest, 1, k)[j] = list[i + j - 1]
      BY <1>2, <3>3, <3>4
    <3>6. QED BY <2>1, <3>3, <3>5
  <2>3. /\ b \in Seq(Names) /\ Len(b) = k
        /\ \A j \in 1..k : b[j] = list[i + j - 1]
    <3>1. \A j \in i..(i + k - 1) : list[j] \in Names
      BY <1>1, <2>1
    <3>2. i \in Int /\ i + k - 1 \in Int
      BY <1>1, <2>1
    <3>3. /\ SubSeq(list, i, i + k - 1) \in Seq(Names)
          /\ Len(SubSeq(list, i, i + k - 1)) = IF i <= i + k - 1 THEN i + k - 1 - i + 1 ELSE 0
          /\ \A j \in 1..(i + k - 1 - i + 1) : SubSeq(list, i, i + k - 1)[j] = list[i + j - 1]
      BY <3>1, <3>2, SubSeqProperties
    <3>4. i + k - 1 - i + 1 = k /\ (IF i <= i + k - 1 THEN i + k - 1 - i + 1 ELSE 0) = k
      BY <1>1, <2>1
    <3>5. QED BY <3>3, <3>4
  <2> HIDE DEF a, b
  <2>4. a = b
    BY <2>2, <2>3, SeqEqual
  <2>5. QED BY <2>2, <2>4 DEF a, b
<1>9. QED BY <1>2, <1>3, <1>5, <1>6, <1>7, <1>8 DEF rest, n, c, len

LEMMA PaginateUnfolds ==
    ASSUME NEW list \in Seq(Names), list # << >>
    PROVE  \E g : /\ \A i \in 1..(Len(list) + 1) : g[i] = CutFrom(g, list, i)
                  /\ Paginate(list) = g[1]
<1> DEFINE V == Seq(Seq(Names))
           N == Len(list) + 1
           W == [1..N -> V]
           B == [g \in W |-> [i \in 1..N |-> CutFrom(g, list, i)]]
           Fits(g) == g = [i \in 1..N |-> CutFrom(g, list, i)]
           from == CHOOSE g : Fits(g)
<1>1. N \in Nat /\ Len(list) \in Nat
  OBVIOUS
<1>2. << >> \in V /\ \A p \in Seq(Names) : <<p>> \in V
  BY SMT
<1>3. \A p \in Seq(Names), ps \in V : <<p>> \o ps \in V
  <2> DEFINE T == Seq(Names)
  <2> HIDE DEF T
  <2>1. \A p \in T, ps \in Seq(T) : <<p>> \in Seq(T) /\ <<p>> \o ps \in Seq(T)
    BY ConcatProperties
  <2>2. QED BY <2>1 DEF T
<1> HIDE DEF V
<1>4. ASSUME NEW i \in 1..N, NEW g
      PROVE  LET rest == SubSeq(list, i, Len(list))
                 n    == Columns(rest) * Height
             IN  /\ CutFrom(g, list, i) =
                       IF n = 0 THEN << >>
                       ELSE IF n >= Len(rest) THEN <<rest>>
                       ELSE IF g[i + n] = << >> THEN << >>
                       ELSE <<SubSeq(rest, 1, n)>> \o g[i + n]
                 /\ rest \in Seq(Names)
                 /\ n # 0 /\ ~(n >= Len(rest)) =>
                       SubSeq(rest, 1, n) \in Seq(Names) /\ i + n \in 1..N /\ i + n > i
  <2> DEFINE rest == SubSeq(list, i, Len(list))
             n == Columns(rest) * Height
  <2>1. /\ rest \in Seq(Names) /\ Len(rest) = Len(list) - i + 1
        /\ n \in Nat /\ ItemsOfPage(rest) = n
        /\ \A k \in 0..Len(rest) : SubSeq(rest, 1, k) \in Seq(Names)
    BY RestKnown
  <2> HIDE DEF n, rest
  <2>2. ASSUME n # 0, ~(n >= Len(rest))
        PROVE  n \in 0..Len(rest) /\ i + n \in 1..N /\ i + n > i /\ ~(i + n > Len(list))
    BY <1>1, <2>1, <2>2
  <2>3. CutFrom(g, list, i) =
            IF n = 0 THEN << >>
            ELSE IF n >= Len(rest) THEN <<rest>>
            ELSE IF i + ItemsOfPage(rest) > Len(list) THEN <<SubSeq(rest, 1, n)>>
            ELSE IF g[i + ItemsOfPage(rest)] = << >> THEN << >>
            ELSE <<SubSeq(rest, 1, n)>> \o g[i + ItemsOfPage(rest)]
    BY DEF CutFrom, n, rest
  <2>4. CutFrom(g, list, i) =
            IF n = 0 THEN << >>
            ELSE IF n >= Len(rest) THEN <<rest>>
            ELSE IF g[i + n] = << >> THEN << >>
            ELSE <<SubSeq(rest, 1, n)>> \o g[i + n]
    BY <2>1, <2>2, <2>3
  <2>5. n # 0 /\ ~(n >= Len(rest)) =>
            SubSeq(rest, 1, n) \in Seq(Names) /\ i + n \in 1..N /\ i + n > i
    BY <2>1, <2>2
  <2>6. QED BY <2>1, <2>4, <2>5 DEF n, rest
<1>5. ASSUME NEW g \in W, NEW i \in 1..N PROVE CutFrom(g, list, i) \in V
  <2> DEFINE rest == SubSeq(list, i, Len(list))
             n == Columns(rest) * Height
             page == SubSeq(rest, 1, n)
  <2>1. /\ CutFrom(g, list, i) =
              IF n = 0 THEN << >>
              ELSE IF n >= Len(rest) THEN <<rest>>
              ELSE IF g[i + n] = << >> THEN << >>
              ELSE <<page>> \o g[i + n]
        /\ rest \in Seq(Names)
        /\ n # 0 /\ ~(n >= Len(rest)) => page \in Seq(Names) /\ i + n \in 1..N
    BY <1>4
  <2> HIDE DEF n, rest, page
  <2>2. QED BY <1>2, <1>3, <2>1
<1>6. B \in [W -> W]
  <2>1. \A g \in W : [i \in 1..N |-> CutFrom(g, list, i)] \in W
    BY <1>5
  <2>2. QED BY <2>1
<1>7. LooksAhead(B, 1..N, V)
  <2> SUFFICES ASSUME NEW i \in 1..N, NEW g \in W, NEW h \in W,
                      \A j \in 1..N : j > i => g[j] = h[j]
               PROVE  B[g][i] = B[h][i]
    BY DEF LooksAhead
  <2> DEFINE rest == SubSeq(list, i, Len(list))
             n == Columns(rest) * Height
             page == SubSeq(rest, 1, n)
  <2>1. \A f \in {g, h} :
           /\ CutFrom(f, list, i) =
                 IF n = 0 THEN << >>
                 ELSE IF n >= Len(rest) THEN <<rest>>
                 ELSE IF f[i + n] = << >> THEN << >>
                 ELSE <<page>> \o f[i + n]
           /\ n # 0 /\ ~(n >= Len(rest)) => i + n \in 1..N /\ i + n > i
    BY <1>4
  <2>2. B[g][i] = CutFrom(g, list, i) /\ B[h][i] = CutFrom(h, list, i)
    OBVIOUS
  <2> HIDE DEF n, rest, page, B
  <2>3. CutFrom(g, list, i) = CutFrom(h, list, i)
    <3>1. CASE n = 0
      BY <2>1, <3>1
    <3>2. CASE n # 0 /\ n >= Len(rest)
      BY <2>1, <3>2
    <3>3. CASE n # 0 /\ ~(n >= Len(rest))
      <4>1. i + n \in 1..N /\ i + n > i
        BY <2>1, <3>3
      <4>2. g[i + n] = h[i + n]
        BY <4>1
      <4>3. \A f \in {g, h} : CutFrom(f, list, i) =
                IF f[i + n] = << >> THEN << >> ELSE <<page>> \o f[i + n]
        BY <2>1, <3>3
      <4> DEFINE later == h[i + n]
      <4>4. CutFrom(g, list, i) = IF later = << >> THEN << >> ELSE <<page>> \o later
        BY <4>2, <4>3
      <4>5. CutFrom(h, list, i) = IF later = << >> THEN << >> ELSE <<page>> \o later
        BY <4>3
      <4>6. QED BY <4>4, <4>5
    <3>4. QED BY <3>1, <3>2, <3>3
  <2>4. QED BY <2>2, <2>3
<1>8. \E g : Fits(g)
  <2>1. PICK g \in W : g = B[g]
    <3> HIDE DEF B, N
    <3>1. << >> \in V /\ N \in Nat
      BY <1>1, <1>2
    <3>2. B \in [[1..N -> V] -> [1..N -> V]]
      BY <1>6
    <3>3. \E g \in [1..N -> V] : IsFixed(g, B)
      BY <1>7, <3>1, <3>2, DescentExists
    <3>4. QED BY <3>3 DEF IsFixed
  <2>2. Fits(g)
    BY <2>1
  <2> HIDE DEF Fits
  <2>3. QED BY <2>2
<1>9. Fits(from)
  <2> HIDE DEF Fits
  <2>1. QED BY <1>8
<1>10. Paginate(list) = from[1]
  BY DEF Paginate, CutFrom
<1> HIDE DEF from
<1>11. \A i \in 1..N : from[i] = CutFrom(from, list, i)
  BY <1>9
<1>12. QED BY <1>10, <1>11

\* Paginate loses no entry and puts none on two pages; it cuts no pages only if
\* an entry is wider than one.
LEMMA PaginateHoldsAll ==
    ASSUME NEW list \in Seq(Names)
    PROVE  /\ Paginate(list) \in Seq(Seq(Names))
           /\ Paginate(list) = << >> => Wide(list)
           /\ Paginate(list) # << >> => FlattenSeq(Paginate(list)) = list
<1>1. CASE list = << >>
  <2>1. Paginate(list) = IF Width < 2 THEN << >> ELSE << << >> >>
    BY <1>1 DEF Paginate
  <2>2. << >> \in Seq(Names) /\ << >> \in Seq(Seq(Names)) /\ << << >> >> # << >>
    BY SMT
  <2>3. << << >> >> \in Seq(Seq(Names)) /\ FlattenSeq(<< << >> >>) = << >>
    BY <2>2, FlattenOne
  <2>4. CASE Width < 2
    BY <2>1, <2>2, <2>4 DEF Wide
  <2>5. CASE ~(Width < 2)
    <3>1. Paginate(list) = << << >> >>
      BY <2>1, <2>5
    <3>2. QED BY <1>1, <2>2, <2>3, <3>1
  <2>6. QED BY <2>4, <2>5
<1>2. CASE list # << >>
  <2> DEFINE n == Len(list)
             V == Seq(Seq(Names))
             Holds(g, i) == /\ g[i] \in V
                            /\ g[i] = << >> => Wide(list)
                            /\ g[i] # << >> => FlattenSeq(g[i]) = SubSeq(list, i, n)
  <2>1. n \in Nat /\ n >= 1
    BY <1>2, EmptySeq
  <2>2. PICK g : /\ \A i \in 1..(n + 1) : g[i] = CutFrom(g, list, i)
                 /\ Paginate(list) = g[1]
    BY <1>2, PaginateUnfolds
  <2>3. ASSUME NEW i \in 1..n, \A j \in 1..n : j > i => Holds(g, j)
        PROVE  Holds(g, i)
    <3> DEFINE rest == SubSeq(list, i, n)
               c == Columns(rest) * Height
               page == SubSeq(rest, 1, c)
               later == SubSeq(list, i + c, n)
    <3>1. i \in 1..(n + 1) /\ i \in Nat /\ i <= n
      BY <2>1
    <3>2. /\ rest \in Seq(Names) /\ Len(rest) = n - i + 1
          /\ c \in Nat /\ ItemsOfPage(rest) = c
          /\ \A k \in 0..Len(rest) :
                /\ SubSeq(rest, 1, k) \in Seq(Names)
                /\ SubSeq(rest, 1, k) = SubSeq(list, i, i + k - 1)
          /\ c = 0 /\ rest # << >> => Wide(list)
      BY <3>1, RestKnown
    <3>3. g[i] = IF c = 0 THEN << >>
                 ELSE IF c >= Len(rest) THEN <<rest>>
                 ELSE IF i + ItemsOfPage(rest) > n THEN <<page>>
                 ELSE IF g[i + ItemsOfPage(rest)] = << >> THEN << >>
                 ELSE <<page>> \o g[i + ItemsOfPage(rest)]
      BY <2>2, <3>1 DEF CutFrom
    <3>4. << >> \in V
      BY SMT
    <3> HIDE DEF n, V, c, rest, page
    <3>5. CASE c = 0
      <4>1. Len(rest) # 0
        BY <2>1, <3>1, <3>2
      <4>2. rest # << >>
        BY <4>1
      <4>3. QED BY <3>2, <3>3, <3>4, <3>5, <4>2
    <3>6. CASE c # 0 /\ c >= Len(rest)
      <4>1. g[i] = <<rest>>
        BY <3>3, <3>6
      <4>2. <<rest>> \in V /\ FlattenSeq(<<rest>>) = rest
        BY <3>2, FlattenOne DEF V
      <4>3. <<rest>> # << >>
        OBVIOUS
      <4>4. QED BY <4>1, <4>2, <4>3 DEF rest
    <3>7. CASE c # 0 /\ ~(c >= Len(rest))
      <4>1. c \in 0..Len(rest) /\ i + c \in 1..n /\ i + c > i /\ ~(i + c > n)
        BY <2>1, <3>1, <3>2, <3>7
      <4>2. page \in Seq(Names) /\ page = SubSeq(list, i, i + c - 1)
        BY <3>2, <4>1 DEF page
      <4>3. g[i] = IF g[i + c] = << >> THEN << >> ELSE <<page>> \o g[i + c]
        BY <3>2, <3>3, <3>7, <4>1
      <4>4. Holds(g, i + c)
        BY <2>3, <4>1
      <4>5. CASE g[i + c] = << >>
        BY <3>4, <4>3, <4>4, <4>5
      <4>6. CASE g[i + c] # << >>
        <5> DEFINE qs == g[i + c]
        <5>1. qs \in Seq(Seq(Names)) /\ qs # << >> /\ FlattenSeq(qs) = later
          BY <4>4, <4>6 DEF V
        <5> HIDE DEF qs
        <5>2. /\ <<page>> \o qs \in Seq(Seq(Names))
              /\ FlattenSeq(<<page>> \o qs) = page \o FlattenSeq(qs)
          BY <4>2, <5>1, FlattenMore
        <5>3. page \o later = rest
          <6> DEFINE k == i + c - 1
          <6>1. /\ i \in 1..(Len(list) + 1) /\ k \in (i - 1)..Len(list) /\ n \in k..Len(list)
                /\ k + 1 = i + c
            BY <2>1, <3>1, <3>2, <4>1 DEF n
          <6> HIDE DEF k
          <6>2. SubSeq(list, i, k) \o SubSeq(list, k + 1, n) = SubSeq(list, i, n)
            BY <6>1, ConcatAdjacentSubSeq
          <6>3. QED BY <4>2, <6>1, <6>2 DEF k, rest
        <5>4. <<page>> \o qs # << >>
          <6> DEFINE T == Seq(Names)
                     p == <<page>>
          <6>1. p \in Seq(T) /\ p # << >> /\ qs \in Seq(T)
            BY <4>2, <5>1
          <6> HIDE DEF T, p
          <6>2. p \o qs # << >>
            BY <6>1, ConcatEqualIffEmpty
          <6>3. QED BY <6>2 DEF p
        <5>5. g[i] = <<page>> \o qs
          BY <4>3, <4>6 DEF qs
        <5>6. QED BY <5>1, <5>2, <5>3, <5>4, <5>5 DEF V, rest
      <4>7. QED BY <4>5, <4>6
    <3>8. QED BY <3>5, <3>6, <3>7
  <2> HIDE DEF Holds
  <2> DEFINE P == {k \in 0..n : \A i \in 1..n : i > n - k => Holds(g, i)}
  <2>4. 0 \in P
    BY <2>1
  <2>5. ASSUME NEW k \in 1..n, k - 1 \in P PROVE k \in P
    <3>1. \A i \in 1..n : i > n - (k - 1) => Holds(g, i)
      BY <2>5
    <3>2. ASSUME NEW i \in 1..n, i > n - k PROVE Holds(g, i)
      <4>1. \A j \in 1..n : j > i => j > n - (k - 1)
        BY <2>1, <3>2
      <4>2. QED BY <2>3, <3>1, <4>1
    <3>3. k \in 0..n
      BY <2>1
    <3>4. QED BY <3>2, <3>3
  <2>6. \A k \in 0..n : k \in P
    <3> HIDE DEF P, n
    <3>1. QED BY <2>1, <2>4, <2>5, UptoInduction
  <2>7. n \in 0..n /\ 1 \in 1..n /\ 1 > n - n
    BY <2>1
  <2>8. Holds(g, 1)
    BY <2>6, <2>7
  <2>9. SubSeq(list, 1, n) = list
    BY SubSeqFull
  <2>10. QED BY <2>2, <2>8, <2>9 DEF Holds
<1>3. QED BY <1>1, <1>2

-----------------------------------------------------------------------------
(* Names                                                                   *)

\* What BestMatch finds begins with what it was asked for.
LEMMA BestMatchFinds ==
    ASSUME NEW T, NEW list \in Seq(T), NEW pattern
    PROVE  LET best == BestMatch(pattern, list)
               some == Beginning(pattern, list)
           IN  /\ best > 0 => (list[best] = pattern \/ Cardinality(some) = 1)
               /\ Cardinality(some) = 1 => best \in some
<1> DEFINE some == Beginning(pattern, list)
           exact == {i \in some : list[i] = pattern}
           first == IF exact = {} THEN Len(list) + 1 ELSE Min(exact)
           before == {i \in some : i < first}
           best == BestMatch(pattern, list)
<1>1. Len(list) \in Nat /\ DOMAIN list = 1..Len(list)
  OBVIOUS
<1>2. some \in SUBSET (1..Len(list))
  BY <1>1 DEF Beginning
<1>3. exact \in SUBSET some
  OBVIOUS
<1>4. best = IF Cardinality(before) > 1 THEN -2
             ELSE IF exact # {} THEN first
             ELSE IF some = {} THEN -1
             ELSE Min(some)
  BY DEF BestMatch
<1>5. exact # {} => first \in exact
  <2> HIDE DEF exact, some
  <2>1. exact \in SUBSET Nat
    BY <1>1, <1>2, <1>3
  <2>2. exact # {} => Min(exact) \in exact
    BY <2>1, MinExists
  <2>3. QED BY <2>2
<1>6. some # {} => Min(some) \in some
  <2> HIDE DEF some
  <2>1. some \in SUBSET Nat
    BY <1>1, <1>2
  <2>2. QED BY <2>1, MinExists
<1>7. IsFiniteSet(some) /\ Cardinality(some) \in Nat
  <2> HIDE DEF some
  <2>1. 1 \in Int /\ Len(list) \in Int
    BY <1>1
  <2>2. IsFiniteSet(1..Len(list))
    BY <2>1, FS_Interval
  <2>3. QED BY <1>2, <2>2, FS_Subset, FS_CardinalityType
<1>8. /\ IsFiniteSet(before) /\ Cardinality(before) \in Nat
      /\ Cardinality(before) <= Cardinality(some)
  <2> HIDE DEF some, first
  <2>1. before \in SUBSET some
    OBVIOUS
  <2> HIDE DEF before
  <2>2. QED BY <1>7, <2>1, FS_Subset, FS_CardinalityType
<1>9. exact = {} => before = some
  <2>1. exact = {} => first = Len(list) + 1
    OBVIOUS
  <2>2. \A i \in some : i < Len(list) + 1
    BY <1>1, <1>2
  <2>3. QED BY <2>1, <2>2
<1>10. some = {} <=> Cardinality(some) = 0
  BY <1>7, FS_EmptySet
<1>11. \A i \in exact : list[i] = pattern
  OBVIOUS
<1> HIDE DEF some, exact, first, before, best
<1>12. ASSUME best > 0 PROVE list[best] = pattern \/ Cardinality(some) = 1
  <2>1. ~(Cardinality(before) > 1)
    BY <1>4, <1>12
  <2>2. CASE exact # {}
    BY <1>4, <1>5, <1>11, <2>1, <2>2
  <2>3. CASE exact = {}
    <3>1. some # {}
      BY <1>4, <1>12, <2>1, <2>3
    <3>2. Cardinality(some) # 0 /\ ~(Cardinality(some) > 1)
      BY <1>9, <1>10, <2>1, <2>3, <3>1
    <3>3. QED BY <1>7, <3>2
  <2>4. QED BY <2>2, <2>3
<1>13. ASSUME Cardinality(some) = 1 PROVE best \in some
  <2>1. ~(Cardinality(before) > 1) /\ some # {}
    BY <1>8, <1>10, <1>13
  <2>2. CASE exact # {}
    BY <1>3, <1>4, <1>5, <2>1, <2>2
  <2>3. CASE exact = {}
    BY <1>4, <1>6, <2>1, <2>3
  <2>4. QED BY <2>2, <2>3
<1>14. QED BY <1>12, <1>13 DEF best, some

LEMMA NamesFound ==
    ASSUME objects \in Seq(Names)
    PROVE  NamesAreFound
<1>1. \A p : LET best == BestMatch(p, objects)
                 some == Beginning(p, objects)
             IN  /\ best > 0 => (objects[best] = p \/ Cardinality(some) = 1)
                 /\ Cardinality(some) = 1 => best \in some
  BY BestMatchFinds
<1>2. QED BY <1>1 DEF NamesAreFound

-----------------------------------------------------------------------------
(* The menu                                                                *)

\* Removing an element leaves a sequence.
LEMMA RemoveStays ==
    ASSUME NEW T, NEW s \in Seq(T), NEW i \in DOMAIN s
    PROVE  RemoveAt(s, i) \in Seq(T)
<1> DEFINE a == SubSeq(s, 1, i - 1)
           b == SubSeq(s, i + 1, Len(s))
<1>1. Len(s) \in Nat /\ i \in 1..Len(s) /\ \A j \in 1..Len(s) : s[j] \in T
  OBVIOUS
<1>2. /\ 1 \in Int /\ i - 1 \in Int /\ i + 1 \in Int /\ Len(s) \in Int
      /\ \A j \in 1..(i - 1) : s[j] \in T
      /\ \A j \in (i + 1)..Len(s) : s[j] \in T
  BY <1>1
<1>3. a \in Seq(T) /\ b \in Seq(T)
  BY <1>2, SubSeqProperties
<1> HIDE DEF a, b
<1>4. a \o b \in Seq(T)
  BY <1>3, ConcatProperties
<1>5. QED BY <1>4 DEF RemoveAt, a, b

\* As long as nobody has searched or changed anything, the pages were counted
\* of the list there is.
FullMenu == FilterActions(Sorted(objects), << >>)

PagesCounted ==
    ~searched /\ changes = 0 =>
        /\ filter = << >>
        /\ pageCount = 1 \/ pageCount = Len(Paginate(FullMenu))

MenusInv == MenusTypeOK /\ PagesHoldAll /\ MenuPanicsHaveCause /\ PagesCounted

LEMMA MenusInvStarts == MenusInit => MenusInv
<1> SUFFICES ASSUME MenusInit PROVE MenusInv
  OBVIOUS
<1>1. objects \in Seq(Names)
  BY DEF MenusInit, SeqOf
<1>2. << >> \in Seq(Names) /\ << >> \in Seq(Seq(Names))
  BY SMT
<1>3. MenusTypeOK
  <2>1. /\ menuAt = "build" /\ pageIndex = 0 /\ pageCount = 1 /\ filter = << >>
        /\ actions = << >> /\ options = << >> /\ pages = << >> /\ chosen = << >>
        /\ searched = FALSE /\ inputs = 0 /\ changes = 0
    BY DEF MenusInit
  <2>2. filter \in Filters /\ 0 \in 0..MaxInputs /\ 0 \in 0..MaxChanges
    BY <2>1, MenusAssumption DEF MenusAssumption
  <2>3. pageIndex \in Int /\ pageCount \in Nat \ {0}
    BY <2>1
  <2>4. searched \in BOOLEAN
    BY <2>1, Zenon
  <2>5. actions \in Seq(Names) /\ options \in Seq(Names) /\ pages \in Seq(Seq(Names))
    BY <1>2, <2>1
  <2>6. QED BY <1>1, <2>1, <2>2, <2>3, <2>4, <2>5 DEF MenusTypeOK
<1>4. PagesHoldAll /\ MenuPanicsHaveCause /\ PagesCounted
  BY DEF MenusInit, PagesHoldAll, MenuPanicsHaveCause, PagesCounted
<1>5. QED BY <1>3, <1>4 DEF MenusInv

\* Printing the menu shows all of it, or takes the session down for a reason.
LEMMA PrintMenuKeeps == MenusInv /\ PrintMenu => MenusInv'
<1> SUFFICES ASSUME MenusInv, PrintMenu PROVE MenusInv'
  OBVIOUS
<1>1. /\ objects \in Seq(Names) /\ menuAt = "build" /\ pageIndex \in Int /\ pageCount \in Nat \ {0}
      /\ filter \in Filters /\ << >> \in Filters
  BY MenusAssumption DEF MenusInv, MenusTypeOK, PrintMenu, MenusAssumption
<1>2. actions' \in Seq(Names) /\ options' \in Seq(Names)
  BY <1>1, SortedAscends, FilterKeepsOrder DEF PrintMenu
<1>3. /\ pages' \in Seq(Seq(Names))
      /\ pages' = << >> => Wide(options')
      /\ pages' # << >> => FlattenSeq(pages') = options'
  BY <1>2, PaginateHoldsAll DEF PrintMenu
<1>4. Len(pages') \in Nat /\ (pages' # << >> => Len(pages') \in Nat \ {0})
  <2> DEFINE T == Seq(Names)
  <2>1. pages' \in Seq(T)
    BY <1>3
  <2> HIDE DEF T
  <2>2. QED BY <2>1, EmptySeq, LenProperties
<1>5. /\ pageIndex' \in 0..(pageCount - 1)
      /\ pageIndex' = Bound(pageIndex, 0, pageCount - 1)
  BY <1>1 DEF PrintMenu, Bound
<1>6. CASE pages' = << >> \/ (pageIndex' >= Len(pages') /\ ~(options' = << >> /\ filter # << >>))
  <2>1. /\ menuAt' = "panicked"
        /\ UNCHANGED <<pageCount, filter, objects, chosen, searched, inputs, changes>>
    BY <1>6 DEF PrintMenu
  <2>2. MenusTypeOK'
    BY <1>1, <1>2, <1>3, <1>5, <2>1 DEF MenusInv, MenusTypeOK
  <2>3. PagesHoldAll'
    BY <2>1 DEF PagesHoldAll
  <2>4. PagesCounted'
    BY <2>1 DEF MenusInv, PagesCounted, FullMenu
  <2>5. MenuPanicsHaveCause'
    <3>1. CASE pages' = << >>
      BY <1>3, <3>1 DEF Wide, MenuPanicsHaveCause
    <3>2. CASE pages' # << >>
      <4>1. pageIndex' >= Len(pages') /\ pageIndex' > 0
        BY <1>4, <1>5, <1>6, <3>2
      <4>2. ASSUME ~searched, changes = 0 PROVE FALSE
        <5>1. filter = << >> /\ (pageCount = 1 \/ pageCount = Len(Paginate(FullMenu)))
          BY <4>2 DEF MenusInv, PagesCounted
        <5>2. pages' = Paginate(FullMenu)
          BY <5>1 DEF PrintMenu, FullMenu
        <5>3. pageCount = 1 \/ pageCount = Len(pages')
          BY <5>1, <5>2
        <5>4. QED BY <1>1, <1>4, <1>5, <3>2, <4>1, <5>3
      <4>3. changes \in Nat
        BY MenusAssumption DEF MenusInv, MenusTypeOK, MenusAssumption
      <4>4. searched \/ changes > 0
        BY <4>2, <4>3
      <4>5. searched' \/ changes' > 0
        BY <2>1, <4>4
      <4>6. QED BY <4>1, <4>5 DEF MenuPanicsHaveCause
    <3>3. QED BY <3>1, <3>2
  <2>6. QED BY <2>2, <2>3, <2>4, <2>5 DEF MenusInv
<1>7. CASE ~(pages' = << >> \/ (pageIndex' >= Len(pages') /\ ~(options' = << >> /\ filter # << >>)))
  <2>1. /\ menuAt' = "input" /\ pageCount' = Len(pages') /\ filter' = << >> /\ pages' # << >>
        /\ UNCHANGED <<objects, chosen, searched, inputs, changes>>
    BY <1>7 DEF PrintMenu
  <2>2. MenusTypeOK'
    BY <1>1, <1>2, <1>3, <1>4, <1>5, <2>1 DEF MenusInv, MenusTypeOK
  <2>3. PagesHoldAll' /\ MenuPanicsHaveCause'
    BY <1>3, <2>1 DEF PagesHoldAll, MenuPanicsHaveCause
  <2>4. PagesCounted'
    <3>1. ASSUME ~searched, changes = 0 PROVE pageCount' = Len(Paginate(FullMenu'))
      <4>1. filter = << >>
        BY <3>1 DEF MenusInv, PagesCounted
      <4>2. pages' = Paginate(FullMenu) /\ FullMenu' = FullMenu
        BY <2>1, <4>1 DEF PrintMenu, FullMenu
      <4>3. QED BY <2>1, <4>2
    <3>2. QED BY <2>1, <3>1 DEF PagesCounted
  <2>5. QED BY <2>2, <2>3, <2>4 DEF MenusInv
<1>8. QED BY <1>6, <1>7

\* Input by the user leaves the list and its pages as they are.
LEMMA InputKeeps ==
    MenusInv /\ (Turn \/ Search \/ Choose \/ Exit) => MenusInv'
<1> SUFFICES ASSUME MenusInv, Turn \/ Search \/ Choose \/ Exit PROVE MenusInv'
  OBVIOUS
<1>1. MenusTypeOK
  BY DEF MenusInv
<1>2. /\ menuAt' \in {"build", "exited"} /\ inputs' \in 0..MaxInputs
      /\ UNCHANGED <<objects, pageCount, actions, options, pages, changes>>
  <2>1. /\ menuAt' \in {"build", "exited"} /\ inputs < MaxInputs /\ inputs' = inputs + 1
        /\ UNCHANGED <<objects, pageCount, actions, options, pages, changes>>
    BY DEF Turn, Search, Choose, Exit, Input
  <2>2. inputs \in 0..MaxInputs /\ MaxInputs \in Nat
    BY <1>1, MenusAssumption DEF MenusTypeOK, MenusAssumption
  <2>3. QED BY <2>1, <2>2
<1>3. pageIndex' \in Int
  BY <1>1 DEF MenusTypeOK, Turn, Search, Choose, Exit
<1>4. filter' \in Filters /\ searched' \in BOOLEAN
  BY <1>1 DEF MenusTypeOK, Turn, Search, Choose, Exit
<1>5. chosen' \in Names \cup {<< >>}
  <2>1. CASE Choose
    BY <1>1, <2>1 DEF MenusTypeOK, Choose
  <2>2. CASE Turn \/ Search \/ Exit
    BY <1>1, <2>2 DEF MenusTypeOK, Turn, Search, Exit
  <2>3. QED BY <2>1, <2>2
<1>6. MenusTypeOK'
  BY <1>1, <1>2, <1>3, <1>4, <1>5 DEF MenusTypeOK
<1>7. PagesHoldAll' /\ MenuPanicsHaveCause'
  BY <1>2 DEF PagesHoldAll, MenuPanicsHaveCause
<1>8. PagesCounted'
  <2>1. ASSUME ~searched', changes' = 0 PROVE ~searched /\ changes = 0 /\ filter' = << >>
    <3>1. changes = 0
      BY <1>2, <2>1
    <3>2. CASE Search
      BY <2>1, <3>1, <3>2 DEF Search
    <3>3. CASE Turn \/ Choose \/ Exit
      BY <2>1, <3>1, <3>3 DEF Turn, Choose, Exit, MenusInv, PagesCounted
    <3>4. QED BY <3>2, <3>3
  <2>2. FullMenu' = FullMenu
    BY <1>2 DEF FullMenu
  <2>3. QED BY <1>2, <2>1, <2>2 DEF MenusInv, PagesCounted
<1>9. QED BY <1>6, <1>7, <1>8 DEF MenusInv

\* So does another session, but it is counted as having changed something.
LEMMA ChangeKeeps == MenusInv /\ Change => MenusInv'
<1> SUFFICES ASSUME MenusInv, Change PROVE MenusInv'
  OBVIOUS
<1>1. MenusTypeOK
  BY DEF MenusInv
<1>2. /\ UNCHANGED <<menuAt, pageIndex, pageCount, filter, actions, options, pages, chosen,
                      searched, inputs>>
      /\ changes' \in 0..MaxChanges /\ changes' > 0
  <2>1. changes \in 0..MaxChanges /\ MaxChanges \in Nat
    BY <1>1, MenusAssumption DEF MenusTypeOK, MenusAssumption
  <2>2. QED BY <2>1 DEF Change
<1>3. objects' \in Seq(Names)
  <2>1. objects \in Seq(Names)
    BY <1>1 DEF MenusTypeOK
  <2>2. ASSUME NEW n \in Names PROVE Append(objects, n) \in Seq(Names)
    BY <2>1
  <2>3. ASSUME NEW i \in DOMAIN objects PROVE RemoveAt(objects, i) \in Seq(Names)
    BY <2>1, RemoveStays
  <2>4. \/ \E n \in Names : objects' = Append(objects, n)
        \/ \E i \in DOMAIN objects : objects' = RemoveAt(objects, i)
    BY DEF Change
  <2>5. QED BY <2>2, <2>3, <2>4
<1>4. MenusTypeOK'
  BY <1>1, <1>2, <1>3 DEF MenusTypeOK
<1>5. PagesHoldAll'
  BY <1>2 DEF MenusInv, PagesHoldAll
<1>6. MenuPanicsHaveCause'
  BY <1>2 DEF MenusInv, MenuPanicsHaveCause
<1>7. PagesCounted'
  BY <1>2 DEF PagesCounted
<1>8. QED BY <1>4, <1>5, <1>6, <1>7 DEF MenusInv

LEMMA MenusInvAlways == MenusSpec => []MenusInv
<1>1. MenusInv /\ [MenusNext]_menusVars => MenusInv'
  <2> SUFFICES ASSUME MenusInv, [MenusNext]_menusVars PROVE MenusInv'
    OBVIOUS
  <2>1. CASE UNCHANGED menusVars
    BY <2>1 DEF menusVars, MenusInv, MenusTypeOK, PagesHoldAll, MenuPanicsHaveCause, PagesCounted,
                FullMenu
  <2>2. CASE MenusNext
    BY <2>2, PrintMenuKeeps, InputKeeps, ChangeKeeps DEF MenusNext
  <2>3. QED BY <2>1, <2>2
<1>2. QED BY <1>1, MenusInvStarts, PTL DEF MenusSpec

\* Names, menus and pages are what they are taken for.
THEOREM MenusTypes == MenusSpec => []MenusTypeOK
<1>1. MenusInv => MenusTypeOK
  BY DEF MenusInv
<1>2. QED BY <1>1, MenusInvAlways, PTL

\* Menus show what there is: MenusHold.
THEOREM MenusAlwaysHold == MenusSpec => []MenusHold
<1>1. MenusInv => MenusHold
  BY MenusAscend, NamesFound DEF MenusInv, MenusTypeOK, MenusHold
<1>2. QED BY <1>1, MenusInvAlways, PTL
=============================================================================
