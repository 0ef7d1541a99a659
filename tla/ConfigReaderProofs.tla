------------------------- MODULE ConfigReaderProofs -------------------------
(***************************************************************************)
(* Proofs about the JSON reader, for every text: what each of its helpers  *)
(* may do to the position, from which follow the types of what is read,    *)
(* and that every iteration of every loop brings the reader closer to its  *)
(* end.                                                                    *)
(***************************************************************************)
EXTENDS ConfigReader, Recursion

-----------------------------------------------------------------------------
(* The text                                                                *)

\* The reader goes from n to m: it never goes back.
Forward(n, m) == m \in Nat /\ n <= m

\* And has consumed a token on the way.
Consumes(n, m) == Forward(n + 1, m) /\ m <= Len(text) + 1

(***************************************************************************)
(* A text has an end, behind which there is nothing.                       *)
(***************************************************************************)
LEMMA TextEnds ==
    ASSUME IsText(text)
    PROVE  /\ Len(text) \in Nat
           /\ \A n \in Nat : n > Len(text) => Kind(n) = "end"
           /\ \A n \in Nat : Kind(n) # "end" => n \in 1 .. Len(text)
           /\ \A n \in Nat : Kind(n) = "number" => text[n][2] \in Nat
<1>1. Len(text) \in Nat /\ DOMAIN text = 1 .. Len(text)
  BY DEF IsText
<1>2. \A k \in DOMAIN text : text[k][1] = "number" => text[k][2] \in Nat
  BY DEF IsText
<1> QED BY <1>1, <1>2 DEF Kind

(***************************************************************************)
(* A loop that looks for a token from n on finds it, or the end, and does  *)
(* not look behind it.  Stop is where such a loop stops.                   *)
(***************************************************************************)
Search(f, Stop) == f = [n \in Nat |-> IF n \in Stop THEN n ELSE f[n + 1]]

LEMMA SearchExists ==
    ASSUME NEW N \in Nat, NEW Stop, \A n \in Nat : n > N => n \in Stop
    PROVE  \E f : Search(f, Stop)
<1> DEFINE a == [n \in Nat |-> n]
           F == [p \in (0 .. N) \X Nat |-> IF p[1] \in Stop THEN p[1] ELSE p[2]]
<1>1. a \in [Nat -> Nat] /\ F \in [(0 .. N) \X Nat -> Nat]
  OBVIOUS
<1>2. PICK f : ComesDown(f, N, Nat, a, F)
  <2> HIDE DEF a, F
  <2> QED BY <1>1, DownwardRecursion
<1>3. \A n \in Nat : f[n] = IF n \in Stop THEN n ELSE f[n + 1]
  <2> TAKE n \in Nat
  <2>1. CASE n > N
    BY <1>2, <2>1 DEF ComesDown
  <2>2. CASE ~(n > N)
    <3>1. n \in 0 .. N /\ f[n + 1] \in Nat
      BY <1>2, <2>2 DEF ComesDown
    <3> QED BY <1>2, <2>2, <3>1 DEF ComesDown
  <2> QED BY <2>1, <2>2
<1>4. f = [n \in Nat |-> f[n]]
  BY <1>2 DEF ComesDown
<1> QED BY <1>3, <1>4 DEF Search

LEMMA SearchForward ==
    ASSUME NEW N \in Nat, NEW Stop, \A n \in Nat : n > N => n \in Stop,
           NEW f, Search(f, Stop)
    PROVE  \A n \in Nat : Forward(n, f[n])
<1> DEFINE T == {n \in Nat : Forward(n, f[n])}
<1>1. \A n \in Nat : f[n] = IF n \in Stop THEN n ELSE f[n + 1]
  BY DEF Search
<1>2. ASSUME NEW n \in Nat, n > N
      PROVE  n \in T
  BY <1>1, <1>2 DEF Forward
<1>3. ASSUME NEW n \in 0 .. N, n + 1 \in T
      PROVE  n \in T
  BY <1>1, <1>3 DEF Forward
<1>4. \A n \in Nat : n \in T
  <2> HIDE DEF T
  <2> QED BY <1>2, <1>3, DownwardInduction
<1> QED BY <1>4

-----------------------------------------------------------------------------
(* The helpers                                                             *)

LEMMA SkipWhitespaceForward ==
    ASSUME IsText(text)
    PROVE  \A n \in Nat : Forward(n, SkipWhitespace[n])
<1> DEFINE Stop == {n \in Nat : Kind(n) # "space"}
<1>1. Len(text) \in Nat /\ \A n \in Nat : n > Len(text) => n \in Stop
  BY TextEnds
<1>2. PICK f : Search(f, Stop)
  <2> HIDE DEF Stop
  <2> QED BY <1>1, SearchExists
<1>3. f = [n \in Nat |-> IF Kind(n) = "space" THEN f[n + 1] ELSE n]
  BY <1>2 DEF Search
<1>4. SkipWhitespace = [n \in Nat |-> IF Kind(n) = "space" THEN SkipWhitespace[n + 1] ELSE n]
  BY <1>3 DEF SkipWhitespace
<1>5. Search(SkipWhitespace, Stop)
  <2> HIDE DEF SkipWhitespace
  <2> QED BY <1>4 DEF Search
<1> HIDE DEF Stop
<1> QED BY <1>1, <1>5, SearchForward

LEMMA SkipToForward ==
    ASSUME IsText(text), NEW stops, NEW n \in Nat
    PROVE  Forward(n, SkipTo(stops, n))
<1> DEFINE Stop == {m \in Nat : Kind(m) \in stops \cup {"end"}}
           to[m \in Nat] == IF Kind(m) \in stops \cup {"end"} THEN m ELSE to[m + 1]
<1>1. Len(text) \in Nat /\ \A m \in Nat : m > Len(text) => m \in Stop
  BY TextEnds
<1>2. PICK f : Search(f, Stop)
  <2> HIDE DEF Stop, to
  <2> QED BY <1>1, SearchExists
<1>3. SkipTo(stops, n) = to[n]
  BY DEF SkipTo
<1>4. f = [m \in Nat |-> IF Kind(m) \in stops \cup {"end"} THEN m ELSE f[m + 1]]
  <2> HIDE DEF to
  <2> QED BY <1>2 DEF Search
<1>5. to = [m \in Nat |-> IF Kind(m) \in stops \cup {"end"} THEN m ELSE to[m + 1]]
  BY <1>4
<1> HIDE DEF to
<1>6. Search(to, Stop)
  BY <1>5 DEF Search
<1> HIDE DEF Stop
<1> QED BY <1>1, <1>3, <1>6, SearchForward

(***************************************************************************)
(* However deep the brackets are nested, closed or not, in strings or not. *)
(* A state of the loop at a position is its depth and whether it is in a   *)
(* string.                                                                 *)
(***************************************************************************)
LEMMA SkipNestedForward ==
    ASSUME IsText(text), NEW open, NEW close, NEW quotes, "end" \notin open \cup close \cup quotes,
           NEW n \in Nat, NEW depth \in Nat
    PROVE  Forward(n, SkipNested(open, close, quotes, n, depth))
<1> DEFINE E(b) == [p \in Nat \X Nat \X BOOLEAN |->
                       LET m == p[1]
                           d == p[2]
                           quoted == p[3]
                       IN  CASE d = 0 \/ Kind(m) = "end" -> m
                             [] d > 0 /\ Kind(m) \in quotes -> b[<<m + 1, d, ~quoted>>]
                             [] d > 0 /\ ~quoted /\ Kind(m) \in open -> b[<<m + 1, d + 1, quoted>>]
                             [] d > 0 /\ ~quoted /\ Kind(m) \in close -> b[<<m + 1, d - 1, quoted>>]
                             [] OTHER -> b[<<m + 1, d, quoted>>]]
           behind[p \in Nat \X Nat \X BOOLEAN] ==
               LET m == p[1]
                   d == p[2]
                   quoted == p[3]
               IN  CASE d = 0 \/ Kind(m) = "end" -> m
                     [] d > 0 /\ Kind(m) \in quotes -> behind[<<m + 1, d, ~quoted>>]
                     [] d > 0 /\ ~quoted /\ Kind(m) \in open -> behind[<<m + 1, d + 1, quoted>>]
                     [] d > 0 /\ ~quoted /\ Kind(m) \in close -> behind[<<m + 1, d - 1, quoted>>]
                     [] OTHER -> behind[<<m + 1, d, quoted>>]
           N == Len(text)
           States == Nat \X BOOLEAN
           S == [States -> Nat]
           a == [m \in Nat |-> [e \in States |-> m]]
           from(m, h, d, quoted) ==
               CASE d = 0 \/ Kind(m) = "end" -> m
                 [] d > 0 /\ Kind(m) \in quotes -> h[<<d, ~quoted>>]
                 [] d > 0 /\ ~quoted /\ Kind(m) \in open -> h[<<d + 1, quoted>>]
                 [] d > 0 /\ ~quoted /\ Kind(m) \in close -> h[<<d - 1, quoted>>]
                 [] OTHER -> h[<<d, quoted>>]
           next(m, h) == [e \in States |-> from(m, h, e[1], e[2])]
           F == [p \in (0 .. N) \X S |-> next(p[1], p[2])]
<1>1. SkipNested(open, close, quotes, n, depth) = behind[<<n, depth, FALSE>>]
  BY DEF SkipNested
<1>2. N \in Nat /\ \A m \in Nat : m > N => Kind(m) = "end"
  BY TextEnds
<1> HIDE DEF behind
<1>3. ASSUME NEW d \in Nat, NEW quoted \in BOOLEAN
      PROVE  /\ <<d, ~quoted>> \in States /\ <<d + 1, quoted>> \in States
             /\ <<d, quoted>> \in States
             /\ d > 0 => <<d - 1, quoted>> \in States
  <2>1. (d + 1 \in Nat) /\ (d > 0 => d - 1 \in Nat)
    OBVIOUS
  <2>2. (~quoted) \in BOOLEAN
    OBVIOUS
  <2> QED BY <2>1, <2>2, Zenon
<1> HIDE DEF States
<1>4. ASSUME NEW m \in Nat, NEW h \in S, NEW d \in Nat, NEW quoted \in BOOLEAN
      PROVE  from(m, h, d, quoted) \in Nat
  <2>1. /\ h[<<d, ~quoted>>] \in Nat /\ h[<<d + 1, quoted>>] \in Nat
        /\ h[<<d, quoted>>] \in Nat
        /\ d > 0 => h[<<d - 1, quoted>>] \in Nat
    BY <1>3, Zenon
  <2> QED BY <2>1
<1> HIDE DEF from
<1>5. ASSUME NEW m \in Nat, NEW h \in S
      PROVE  next(m, h) \in S
  BY <1>4 DEF States
<1> HIDE DEF next, N, S
<1>6. a \in [Nat -> S] /\ F \in [(0 .. N) \X S -> S]
  <2>1. ASSUME NEW m \in 0 .. N, NEW h \in S
        PROVE  next(m, h) \in S
    <3>1. m \in Nat
      BY <1>2
    <3> QED BY <1>5, <3>1
  <2>2. F \in [(0 .. N) \X S -> S]
    BY <2>1
  <2>3. a \in [Nat -> S]
    BY DEF S
  <2> QED BY <2>2, <2>3
<1>7. PICK f : ComesDown(f, N, S, a, F)
  <2> HIDE DEF a, F
  <2> QED BY <1>2, <1>6, DownwardRecursion
<1>8. \A m \in Nat, d \in Nat, quoted \in BOOLEAN :
         f[m][<<d, quoted>>] = from(m, f[m + 1], d, quoted)
  <2> TAKE m \in Nat, d \in Nat, quoted \in BOOLEAN
  <2>1. <<d, quoted>> \in States
    BY <1>3
  <2>2. CASE m > N
    <3>1. f[m] = [e \in States |-> m] /\ Kind(m) = "end"
      BY <1>2, <1>7, <2>2 DEF ComesDown
    <3>2. from(m, f[m + 1], d, quoted) = m
      BY <3>1 DEF from
    <3> QED BY <2>1, <3>1, <3>2
  <2>3. CASE ~(m > N)
    <3>1. m \in 0 .. N /\ f[m + 1] \in S
      BY <1>2, <1>7, <2>3 DEF ComesDown
    <3>2. f[m] = F[<<m, f[m + 1]>>]
      BY <1>7, <2>3 DEF ComesDown
    <3> HIDE DEF a
    <3>3. \A p \in (0 .. N) \X S : F[p] = next(p[1], p[2])
      OBVIOUS
    <3> HIDE DEF F
    <3>4. F[<<m, f[m + 1]>>] = next(m, f[m + 1])
      BY <3>1, <3>3
    <3>5. next(m, f[m + 1])[<<d, quoted>>] = from(m, f[m + 1], <<d, quoted>>[1], <<d, quoted>>[2])
      BY <2>1 DEF next
    <3>6. <<d, quoted>>[1] = d /\ <<d, quoted>>[2] = quoted
      OBVIOUS
    <3> QED BY <3>2, <3>4, <3>5, <3>6, Zenon
  <2> QED BY <2>2, <2>3
<1> DEFINE g == [p \in Nat \X Nat \X BOOLEAN |-> f[p[1]][<<p[2], p[3]>>]]
<1>9. g = E(g)
  <2>1. ASSUME NEW p \in Nat \X Nat \X BOOLEAN
        PROVE  g[p] = E(g)[p]
    <3> DEFINE m == p[1]
               d == p[2]
               quoted == p[3]
    <3>1. /\ m \in Nat /\ d \in Nat /\ m + 1 \in Nat /\ d + 1 \in Nat /\ (d > 0 => d - 1 \in Nat)
          /\ quoted \in BOOLEAN
      OBVIOUS
    <3>2. (~quoted) \in BOOLEAN
      BY <3>1
    <3>3. ASSUME NEW x \in Nat, NEW y \in Nat, NEW q \in BOOLEAN
          PROVE  g[<<x, y, q>>] = f[x][<<y, q>>]
      OBVIOUS
    <3>4. g[p] = f[m][<<d, quoted>>]
      OBVIOUS
    <3> HIDE DEF g
    <3>5. /\ g[<<m + 1, d, ~quoted>>] = f[m + 1][<<d, ~quoted>>]
          /\ g[<<m + 1, d + 1, quoted>>] = f[m + 1][<<d + 1, quoted>>]
          /\ d > 0 => g[<<m + 1, d - 1, quoted>>] = f[m + 1][<<d - 1, quoted>>]
          /\ g[<<m + 1, d, quoted>>] = f[m + 1][<<d, quoted>>]
      <4> DEFINE next1 == m + 1
                 more == d + 1
                 less == d - 1
                 shut == ~quoted
      <4>1. /\ next1 \in Nat /\ more \in Nat /\ (d > 0 => less \in Nat)
            /\ d \in Nat /\ quoted \in BOOLEAN /\ shut \in BOOLEAN
        BY <3>1, <3>2
      <4> HIDE DEF m, d, quoted, next1, more, less, shut
      <4>2. g[<<next1, d, shut>>] = f[next1][<<d, shut>>]
        BY <3>3, <4>1
      <4>3. g[<<next1, more, quoted>>] = f[next1][<<more, quoted>>]
        BY <3>3, <4>1
      <4>4. d > 0 => g[<<next1, less, quoted>>] = f[next1][<<less, quoted>>]
        BY <3>3, <4>1
      <4>5. g[<<next1, d, quoted>>] = f[next1][<<d, quoted>>]
        BY <3>3, <4>1
      <4> QED BY <4>2, <4>3, <4>4, <4>5, Zenon DEF next1, more, less, shut
    <3>6. g[p] = from(m, f[m + 1], d, quoted)
      BY <1>8, <3>1, <3>4
    <3>7. E(g)[p] = CASE d = 0 \/ Kind(m) = "end" -> m
                      [] d > 0 /\ Kind(m) \in quotes -> g[<<m + 1, d, ~quoted>>]
                      [] d > 0 /\ ~quoted /\ Kind(m) \in open -> g[<<m + 1, d + 1, quoted>>]
                      [] d > 0 /\ ~quoted /\ Kind(m) \in close -> g[<<m + 1, d - 1, quoted>>]
                      [] OTHER -> g[<<m + 1, d, quoted>>]
      BY Zenon
    <3> HIDE DEF m, d, quoted, E
    <3> DEFINE A1 == f[m + 1][<<d, ~quoted>>]
               A2 == f[m + 1][<<d + 1, quoted>>]
               A3 == f[m + 1][<<d - 1, quoted>>]
               A4 == f[m + 1][<<d, quoted>>]
               G1 == g[<<m + 1, d, ~quoted>>]
               G2 == g[<<m + 1, d + 1, quoted>>]
               G3 == g[<<m + 1, d - 1, quoted>>]
               G4 == g[<<m + 1, d, quoted>>]
               R(r1, r2, r3, r4) ==
                   CASE d = 0 \/ Kind(m) = "end" -> m
                     [] d > 0 /\ Kind(m) \in quotes -> r1
                     [] d > 0 /\ ~quoted /\ Kind(m) \in open -> r2
                     [] d > 0 /\ ~quoted /\ Kind(m) \in close -> r3
                     [] OTHER -> r4
    <3>8. g[p] = R(A1, A2, A3, A4) /\ E(g)[p] = R(G1, G2, G3, G4)
      BY <3>6, <3>7, Zenon DEF from
    <3>9. G1 = A1 /\ G2 = A2 /\ G4 = A4 /\ (d > 0 => G3 = A3)
      BY <3>5, Zenon
    <3> HIDE DEF A1, A2, A3, A4, G1, G2, G3, G4
    <3>10. R(A1, A2, A3, A4) = R(G1, G2, G3, G4)
      BY <3>9
    <3> QED BY <3>8, <3>10, Zenon
  <2>2. /\ g = [p \in Nat \X Nat \X BOOLEAN |-> g[p]]
        /\ E(g) = [p \in Nat \X Nat \X BOOLEAN |-> E(g)[p]]
    OBVIOUS
  <2> HIDE DEF g, E
  <2> QED BY <2>1, <2>2
<1>10. behind = E(behind)
  <2> HIDE DEF g
  <2> QED BY <1>9 DEF behind
<1>11. ASSUME NEW m \in Nat, NEW d \in Nat, NEW quoted \in BOOLEAN
       PROVE  \/ behind[<<m, d, quoted>>] = m
              \/ /\ m <= N
                 /\ \E e \in Nat, q \in BOOLEAN :
                       behind[<<m, d, quoted>>] = behind[<<m + 1, e, q>>]
  <2> DEFINE p == <<m, d, quoted>>
  <2>1. p \in Nat \X Nat \X BOOLEAN /\ p[1] = m /\ p[2] = d /\ p[3] = quoted
    OBVIOUS
  <2>2. E(behind)[p] = CASE d = 0 \/ Kind(m) = "end" -> m
                         [] d > 0 /\ Kind(m) \in quotes -> behind[<<m + 1, d, ~quoted>>]
                         [] d > 0 /\ ~quoted /\ Kind(m) \in open -> behind[<<m + 1, d + 1, quoted>>]
                         [] d > 0 /\ ~quoted /\ Kind(m) \in close ->
                               behind[<<m + 1, d - 1, quoted>>]
                         [] OTHER -> behind[<<m + 1, d, quoted>>]
    <3> HIDE DEF p
    <3> QED BY <2>1, Zenon
  <2> DEFINE B1 == behind[<<m + 1, d, ~quoted>>]
             B2 == behind[<<m + 1, d + 1, quoted>>]
             B3 == behind[<<m + 1, d - 1, quoted>>]
             B4 == behind[<<m + 1, d, quoted>>]
             b == behind[p]
  <2>3. b = CASE d = 0 \/ Kind(m) = "end" -> m
              [] d > 0 /\ Kind(m) \in quotes -> B1
              [] d > 0 /\ ~quoted /\ Kind(m) \in open -> B2
              [] d > 0 /\ ~quoted /\ Kind(m) \in close -> B3
              [] OTHER -> B4
    <3> HIDE DEF E, p
    <3> QED BY <1>10, <2>2, Zenon
  <2> HIDE DEF B1, B2, B3, B4, b, E
  <2>4. CASE d = 0 \/ Kind(m) = "end"
    <3>1. b = m
      BY <2>3, <2>4
    <3> QED BY <3>1 DEF b
  <2>5. CASE ~(d = 0 \/ Kind(m) = "end")
    <3>1. m <= N /\ d > 0 /\ d - 1 \in Nat /\ d + 1 \in Nat
      BY <1>2, <2>5
    <3>2. b = B1 \/ b = B2 \/ b = B3 \/ b = B4
      BY <2>3, <2>5
    <3>3. (~quoted) \in BOOLEAN
      OBVIOUS
    <3>4. \E e \in Nat, q \in BOOLEAN : b = behind[<<m + 1, e, q>>]
      BY <3>1, <3>2, <3>3, Zenon DEF B1, B2, B3, B4
    <3> QED BY <3>1, <3>4, Zenon DEF b, p
  <2> QED BY <2>4, <2>5
<1> DEFINE T == {m \in Nat : \A d \in Nat, q \in BOOLEAN : Forward(m, behind[<<m, d, q>>])}
<1>12. ASSUME NEW m \in Nat, m > N \/ m + 1 \in T
       PROVE  m \in T
  <2> SUFFICES ASSUME NEW d \in Nat, NEW quoted \in BOOLEAN
               PROVE  Forward(m, behind[<<m, d, quoted>>])
    BY Zenon
  <2> DEFINE b == behind[<<m, d, quoted>>]
  <2>1. CASE b = m
    BY <2>1 DEF Forward
  <2>2. CASE m <= N /\ \E e \in Nat, q \in BOOLEAN : b = behind[<<m + 1, e, q>>]
    <3>1. m + 1 \in T
      BY <1>2, <1>12, <2>2
    <3>2. Forward(m + 1, b)
      BY <2>2, <3>1, Zenon
    <3> HIDE DEF b
    <3>3. Forward(m, b)
      BY <3>2 DEF Forward
    <3> QED BY <3>3 DEF b
  <2>3. \/ b = m
        \/ m <= N /\ \E e \in Nat, q \in BOOLEAN : b = behind[<<m + 1, e, q>>]
    BY <1>11
  <2> HIDE DEF T
  <2> QED BY <2>1, <2>2, <2>3, Zenon
<1>13. \A m \in Nat : m \in T
  <2>1. \A m \in 0 .. N : m \in Nat
    BY <1>2
  <2> HIDE DEF T
  <2>2. \A m \in Nat : m > N => m \in T
    BY <1>12
  <2>3. \A m \in 0 .. N : m + 1 \in T => m \in T
    BY <1>12, <2>1
  <2> QED BY <1>2, <2>2, <2>3, DownwardInduction
<1>14. FALSE \in BOOLEAN
  OBVIOUS
<1> QED BY <1>1, <1>13, <1>14, Zenon

(***************************************************************************)
(* What the helpers return: a value and a position; and whether there is   *)
(* another member.                                                         *)
(***************************************************************************)
LEMMA ValueFields ==
    ASSUME NEW r, NEW v, NEW n, r = [value |-> v, i |-> n]
    PROVE  r.value = v /\ r.i = n
  OBVIOUS

LEMMA MemberFields ==
    ASSUME NEW r, NEW v, NEW k, NEW x, NEW n, r = [more |-> v, key |-> k, name |-> x, i |-> n]
    PROVE  r.more = v /\ r.i = n
  OBVIOUS

LEMMA ForwardTransitive ==
    ASSUME NEW n \in Nat, NEW m, NEW k, Forward(n, m), Forward(m, k) \/ Forward(m + 1, k)
    PROVE  Forward(n, k)
  BY DEF Forward

LEMMA ConsumesTransitive ==
    ASSUME IsText(text), NEW n \in Nat, NEW m, NEW k, Forward(n, m), Consumes(m, k)
    PROVE  Consumes(n, k)
  BY TextEnds DEF Forward, Consumes

LEMMA MatchCharForward ==
    ASSUME IsText(text), NEW n \in Nat, NEW c, c # "end"
    PROVE  /\ MatchChar(n, c).ok \in BOOLEAN
           /\ Forward(n, MatchChar(n, c).i)
           /\ MatchChar(n, c).ok => Consumes(n, MatchChar(n, c).i)
<1> DEFINE m == SkipWhitespace[n]
<1>1. Forward(n, m)
  BY SkipWhitespaceForward
<1> DEFINE found == Kind(m) = c
<1>2. MatchChar(n, c) = [ok |-> found, i |-> IF found THEN m + 1 ELSE m]
  BY <1>1 DEF MatchChar, Forward
<1>3. Kind(m) = c => m \in 1 .. Len(text) /\ Len(text) \in Nat
  BY <1>1, TextEnds DEF Forward
<1>4. found \in BOOLEAN /\ (found => m \in 1 .. Len(text) /\ Len(text) \in Nat)
  BY <1>3
<1> HIDE DEF m, found
<1>5. MatchChar(n, c).ok = found /\ MatchChar(n, c).i = IF found THEN m + 1 ELSE m
  BY <1>2
<1>6. CASE found
  BY <1>1, <1>4, <1>5, <1>6 DEF Forward, Consumes
<1>7. CASE ~found
  BY <1>1, <1>4, <1>5, <1>7 DEF Forward
<1> QED BY <1>4, <1>6, <1>7

LEMMA ReadStringForward ==
    ASSUME IsText(text), NEW n \in Nat
    PROVE  Forward(n, ReadString(n).i)
<1> DEFINE open  == MatchChar(n, "quote")
           close == SkipTo({"quote"}, open.i)
<1>1. Forward(n, open.i)
  BY MatchCharForward
<1>2. \/ ReadString(n).i \in {close, close + 1}
      \/ ReadString(n).i = open.i
  BY DEF ReadString
<1> HIDE DEF open
<1>3. Forward(open.i, close)
  BY <1>1, SkipToForward DEF Forward
<1> HIDE DEF close
<1> QED BY <1>1, <1>2, <1>3 DEF Forward

(***************************************************************************)
(* A number is what fits into 64 bits, and what is left of it in 32.       *)
(***************************************************************************)
LEMMA ReadUInt64Forward ==
    ASSUME IsText(text), NEW n \in Nat
    PROVE  /\ Forward(n, ReadUInt64(n).i)
           /\ ReadUInt64(n).value \in 0 .. UInt64Range - 1
           /\ ReadUInt64(n) = [value |-> ReadUInt64(n).value, i |-> ReadUInt64(n).i]
<1> DEFINE m == SkipWhitespace[n]
<1>1. Forward(n, m)
  BY SkipWhitespaceForward
<1>2. ReadUInt64(n) = IF Kind(m) = "number"
                      THEN [value |-> text[m][2] % UInt64Range, i |-> m + 1]
                      ELSE [value |-> 0, i |-> m]
  BY <1>1 DEF ReadUInt64, Forward
<1> HIDE DEF m
<1>3. UInt64Range \in Nat /\ UInt64Range > 0
  BY ReaderAssumption DEF SteamIdBase
<1>4. CASE Kind(m) = "number"
  <2>1. text[m][2] \in Nat
    BY <1>1, <1>4, TextEnds DEF Forward
  <2> DEFINE v == text[m][2] % UInt64Range
  <2>2. v \in 0 .. UInt64Range - 1
    BY <1>3, <2>1
  <2> HIDE DEF v
  <2>3. ReadUInt64(n) = [value |-> v, i |-> m + 1]
    BY <1>2, <1>4 DEF v
  <2> QED BY <1>1, <2>2, <2>3 DEF Forward
<1>5. CASE Kind(m) # "number"
  BY <1>1, <1>2, <1>3, <1>5 DEF Forward
<1> QED BY <1>4, <1>5

LEMMA ToIntType ==
    ASSUME NEW v \in Nat
    PROVE  IsInt(ToInt(v))
<1> DEFINE low == v % IntRange
<1>1. IntRange \in Nat \ {0}
  BY ReaderAssumption
<1>2. low \in 0 .. IntRange - 1
  BY <1>1
<1>3. ToInt(v) = IF 2 * low < IntRange THEN low ELSE low - IntRange
  BY DEF ToInt
<1> HIDE DEF low
<1> QED BY <1>1, <1>2, <1>3 DEF IsInt

LEMMA ReadIntForward ==
    ASSUME IsText(text), NEW n \in Nat
    PROVE  Forward(n, ReadInt(n).i) /\ IsInt(ReadInt(n).value)
<1> DEFINE r == ReadUInt64(n)
<1>1. Forward(n, r.i) /\ r.value \in 0 .. UInt64Range - 1 /\ r = [value |-> r.value, i |-> r.i]
  BY ReadUInt64Forward
<1>2. ReadInt(n) = [r EXCEPT !.value = ToInt(@)]
  BY DEF ReadInt
<1> HIDE DEF r
<1>3. ReadInt(n).i = r.i /\ ReadInt(n).value = ToInt(r.value)
  BY <1>1, <1>2
<1>4. r.value \in Nat
  BY <1>1, ReaderAssumption
<1> QED BY <1>1, <1>3, <1>4, ToIntType

LEMMA ReadBoolForward ==
    ASSUME IsText(text), NEW n \in Nat
    PROVE  ReadBool(n).value \in BOOLEAN /\ Forward(n, ReadBool(n).i)
<1> DEFINE m == SkipWhitespace[n]
<1>1. Forward(n, m)
  BY SkipWhitespaceForward
<1>2. \E v \in BOOLEAN : ReadBool(n) = [value |-> v, i |-> SkipTo({",", "}"}, m)]
  <2> DEFINE v == Kind(m) = "true" \/ (Kind(m) = "number" /\ FirstDigit[text[m][2]] = 1)
  <2>1. ReadBool(n) = [value |-> v, i |-> SkipTo({",", "}"}, m)]
    BY <1>1 DEF ReadBool, Forward
  <2>2. v \in BOOLEAN
    OBVIOUS
  <2> HIDE DEF v
  <2> HIDE DEF m
  <2> QED BY <2>1, <2>2, Zenon
<1> HIDE DEF m
<1>3. Forward(m, SkipTo({",", "}"}, m))
  BY <1>1, SkipToForward DEF Forward
<1>4. Forward(n, SkipTo({",", "}"}, m))
  BY <1>1, <1>3, ForwardTransitive
<1>5. PICK v \in BOOLEAN : ReadBool(n) = [value |-> v, i |-> SkipTo({",", "}"}, m)]
  BY <1>2, Zenon
<1>6. ReadBool(n).value = v /\ ReadBool(n).i = SkipTo({",", "}"}, m)
  BY <1>5, ValueFields
<1> QED BY <1>4, <1>6, Zenon

LEMMA SkipJsonValueForward ==
    ASSUME IsText(text), NEW n \in Nat
    PROVE  Forward(n, SkipJsonValue(n))
<1> DEFINE m == SkipWhitespace[n]
           string == ReadString(m).i
           nested == SkipNested({"{", "["}, {"}", "]"}, {"quote"}, m + 1, 1)
           scalar == SkipTo({",", "}", "]"}, m)
<1>1. Forward(n, m)
  BY SkipWhitespaceForward
<1>2. SkipJsonValue(n) = CASE Kind(m) = "quote"      -> string
                           [] Kind(m) \in {"{", "["} -> nested
                           [] OTHER                  -> scalar
  BY <1>1 DEF SkipJsonValue, Forward
<1> HIDE DEF m
<1>3. m \in Nat /\ m + 1 \in Nat
  BY <1>1 DEF Forward
<1>4. Forward(m + 1, nested)
  BY <1>3, SkipNestedForward
<1>5. Forward(m, scalar)
  BY <1>3, SkipToForward
<1>6. Forward(m, string)
  BY <1>3, ReadStringForward
<1> HIDE DEF string, nested, scalar
<1>7. SkipJsonValue(n) \in {string, nested, scalar}
  BY <1>2
<1> QED BY <1>1, <1>4, <1>5, <1>6, <1>7, ForwardTransitive

LEMMA BehindForward ==
    ASSUME IsText(text), NEW n \in Nat, NEW close, close # "end"
    PROVE  Forward(n, Behind(close, n))
  BY MatchCharForward DEF Behind

(***************************************************************************)
(* A loop goes on with another member only behind the colon of one.        *)
(***************************************************************************)
LEMMA NextMemberForward ==
    ASSUME IsText(text), NEW n \in Nat
    PROVE  NextMember[n].more \in BOOLEAN /\ Forward(n, NextMember[n].i)
<1> DEFINE k == ReadString(n)
           c == MatchChar(k.i, ":")
<1>1. NextMember[n] =
         IF k.value # <<>> /\ c.ok
         THEN [more |-> TRUE, key |-> k.value, name |-> Spelled(k.value), i |-> c.i]
         ELSE [more |-> FALSE, key |-> <<>>, name |-> "",
               i |-> Behind("}", IF k.value = <<>> THEN k.i ELSE c.i)]
  BY DEF NextMember
<1>2. Forward(n, k.i)
  BY ReadStringForward
<1>3. k.i \in Nat
  BY <1>2 DEF Forward
<1> HIDE DEF k
<1>4. Forward(k.i, c.i)
  BY <1>3, MatchCharForward
<1>5. c.i \in Nat
  BY <1>4 DEF Forward
<1> HIDE DEF c
<1>6. Forward(k.i, Behind("}", k.i)) /\ Forward(c.i, Behind("}", c.i))
  BY <1>3, <1>5, BehindForward
<1>7. Forward(n, c.i)
  BY <1>2, <1>4, ForwardTransitive
<1>8. Forward(n, Behind("}", k.i)) /\ Forward(n, Behind("}", c.i))
  BY <1>2, <1>6, <1>7, ForwardTransitive
<1>9. CASE k.value # <<>> /\ c.ok
  <2>1. NextMember[n] = [more |-> TRUE, key |-> k.value, name |-> Spelled(k.value), i |-> c.i]
    BY <1>1, <1>9
  <2>2. NextMember[n].more = TRUE /\ NextMember[n].i = c.i
    BY <2>1, MemberFields
  <2> QED BY <1>7, <2>2, Zenon
<1>10. CASE ~(k.value # <<>> /\ c.ok)
  <2> DEFINE b == Behind("}", IF k.value = <<>> THEN k.i ELSE c.i)
             no == FALSE
             none == <<>>
             nameless == ""
  <2>1. /\ NextMember[n] = [more |-> no, key |-> none, name |-> nameless, i |-> b]
        /\ no \in BOOLEAN
    BY <1>1, <1>10
  <2>2. Forward(n, b)
    BY <1>8, Zenon
  <2> HIDE DEF b, no, none, nameless
  <2>3. NextMember[n].more = no /\ NextMember[n].i = b
    BY <2>1, MemberFields
  <2> QED BY <2>1, <2>2, <2>3, Zenon
<1> QED BY <1>9, <1>10

(***************************************************************************)
(* And takes a comma before it does.                                       *)
(***************************************************************************)
LEMMA AfterValueForward ==
    ASSUME IsText(text), NEW n \in Nat, NEW close, close # "end"
    PROVE  /\ AfterValue(close, n).more \in BOOLEAN
           /\ Forward(n, AfterValue(close, n).i)
           /\ AfterValue(close, n).more => Consumes(n, AfterValue(close, n).i)
<1> DEFINE c == MatchChar(n, ",")
<1>1. AfterValue(close, n) = [more |-> c.ok, i |-> IF c.ok THEN c.i ELSE Behind(close, c.i)]
  BY DEF AfterValue
<1>2. c.ok \in BOOLEAN /\ Forward(n, c.i) /\ (c.ok => Consumes(n, c.i))
  BY MatchCharForward
<1> HIDE DEF c
<1>3. Forward(c.i, Behind(close, c.i))
  BY <1>2, BehindForward DEF Forward
<1> QED BY <1>1, <1>2, <1>3 DEF Forward

LEMMA BlockRestForward ==
    ASSUME IsText(text), NEW n \in Nat
    PROVE  Forward(n, BlockRest(n))
<1>1. BlockRest(n) =
         CASE Kind(n) = "{" -> SkipNested({"{"}, {"}"}, {}, n, 1)
           [] Kind(n) = "[" -> SkipNested({"["}, {"]"}, {}, n, 1)
           [] OTHER         -> SkipTo({",", "}"}, n)
  BY DEF BlockRest
<1>2. /\ Forward(n, SkipNested({"{"}, {"}"}, {}, n, 1))
      /\ Forward(n, SkipNested({"["}, {"]"}, {}, n, 1))
  BY SkipNestedForward
<1>3. Forward(n, SkipTo({",", "}"}, n))
  BY SkipToForward
<1> QED BY <1>1, <1>2, <1>3

LEMMA SkipUnknownForward ==
    ASSUME IsText(text), NEW n \in Nat
    PROVE  Forward(n, SkipUnknown(n))
<1>1. /\ Forward(n + 1, SkipNested({"{"}, {"}"}, {}, n + 1, 1))
      /\ Forward(n + 1, SkipNested({"["}, {"]"}, {}, n + 1, 1))
  <2>1. n + 1 \in Nat
    OBVIOUS
  <2> QED BY <2>1, SkipNestedForward
<1>2. Forward(n, SkipTo({",", "}"}, n))
  BY SkipToForward
<1>3. \A x : Forward(n + 1, x) => Forward(n, x + 1)
  BY DEF Forward
<1>4. Kind(n) = "{" => SkipUnknown(n) = SkipNested({"{"}, {"}"}, {}, n + 1, 1) + 1
  BY Zenon DEF SkipUnknown
<1>5. Kind(n) = "[" => SkipUnknown(n) = SkipNested({"["}, {"]"}, {}, n + 1, 1) + 1
  BY Zenon DEF SkipUnknown
<1>6. Kind(n) \notin {"{", "["} => SkipUnknown(n) = SkipTo({",", "}"}, n)
  BY Zenon DEF SkipUnknown
<1> QED BY <1>1, <1>2, <1>3, <1>4, <1>5, <1>6, Zenon

-----------------------------------------------------------------------------
(* The steps                                                               *)

Int32 == {n \in Int : IsInt(n)}

Features == [enableFakePing : BOOLEAN, fakePingMin : Int32, voteTransactionHoldFrames : Int32]

IsBot(b) == DOMAIN b = DOMAIN NoBot /\ b.steamid \in 0 .. UInt64Range - 1 /\ IsInt(b.ping)

LEMMA NoBotIsBot == IsBot(NoBot)
  BY ReaderAssumption DEF IsBot, NoBot, IsInt, SteamIdBase

IsBotList(list) ==
    /\ list \in Seq(ToSet(list))
    /\ Len(list) <= MaxBotIdentities
    /\ \A b \in ToSet(list) : IsBot(b)

InConfig == {"top", "feature", "token"}

InList == {"entry", "bot", "field"}

\* The inductive invariant.
ReaderInv ==
    /\ disk \in Disks
    /\ at \in InConfig \cup InList \cup {"config", "core", "setting", "list", "listed", "done"}
    /\ IsText(text)
    /\ i \in Nat
    /\ features \in Features
    /\ at \notin InConfig => features.voteTransactionHoldFrames \in 1 .. 32
    /\ matched \in {"zh-CN", "default"}
    /\ IsBotList(bots)
    /\ IsBot(bot)
    /\ dropped \in Nat /\ truncated \in Nat
    /\ fellBack => matched = "default" /\ at \in InList \cup {"list", "listed", "done"}

LEMMA ReaderInvTypes == ReaderInv => TypeOK
<1> SUFFICES ASSUME ReaderInv
             PROVE  TypeOK
  OBVIOUS
<1>1. DOMAIN features = DOMAIN DefaultFeatures
  BY DEF ReaderInv, Features, DefaultFeatures
<1>2. \A b \in ToSet(bots) \cup {bot} :
         DOMAIN b = DOMAIN NoBot /\ b.steamid \in 0 .. UInt64Range - 1 /\ IsInt(b.ping)
  BY DEF ReaderInv, IsBotList, IsBot
<1>3. features.enableFakePing \in BOOLEAN /\ IsInt(features.fakePingMin)
  BY DEF ReaderInv, Features, Int32
<1> QED BY <1>1, <1>2, <1>3 DEF ReaderInv, TypeOK, IsBotList, InConfig, InList

LEMMA HoldClampedRange == \A n \in Int : HoldClamped(n) \in 1 .. 32
  BY DEF HoldClamped

\* What a step may do to where the reader is: Advances, with types.
Goes ==
    /\ at' \in InConfig \cup InList \cup {"config", "core", "setting", "list", "listed", "done"}
    /\ i' \in Nat
    /\ matched' \in {"zh-CN", "default"}
    /\ fellBack' => matched' = "default" /\ at' \in InList \cup {"list", "listed", "done"}
    /\ Advances

(***************************************************************************)
(* An iteration of a loop that goes on consumes a token, and one that does *)
(* not hands over to a later stage.                                        *)
(***************************************************************************)
LEMMA Iterates ==
    ASSUME ReaderInv, UNCHANGED <<text, matched, fellBack>>,
           \/ at \in InConfig /\ at' \in InConfig
           \/ at \in InList /\ at' \in InList
           \/ at = "setting" /\ at' = "setting",
           Consumes(i, i')
    PROVE  Goes
<1>1. StagesLeft' = StagesLeft
  BY DEF ReaderInv, StagesLeft, InConfig, InList
<1>2. i' \in Nat /\ i < i' /\ i' <= Len(text) + 1
  BY DEF ReaderInv, Consumes, Forward
<1>3. fellBack' => at' \in InList
  BY DEF ReaderInv, InConfig, InList
<1> QED BY <1>1, <1>2, <1>3 DEF ReaderInv, Goes, Advances

LEMMA HandsOver ==
    ASSUME ReaderInv, i' \in Nat, matched' \in {"zh-CN", "default"},
           \/ /\ fellBack' = fellBack
              /\ \/ at = "config" /\ at' \in {"top", "core"}
                 \/ at \in InConfig /\ at' = "core"
                 \/ at = "core" /\ at' \in {"setting", "list"}
                 \/ at = "setting" /\ at' = "list"
                 \/ at = "list" /\ at' \in {"entry", "listed"} /\ matched' = matched
                 \/ at \in InList /\ at' = "listed" /\ matched' = matched
                 \/ at = "listed" /\ at' = "done" /\ matched' = matched
           \/ /\ at = "listed" /\ at' = "list"
              /\ ~fellBack /\ fellBack' /\ matched' = "default"
    PROVE  Goes
<1>1. StagesLeft' < StagesLeft
  BY DEF ReaderInv, StagesLeft, InConfig, InList
<1>2. fellBack' => matched' = "default" /\ at' \in InList \cup {"list", "listed", "done"}
  BY DEF ReaderInv, InConfig, InList
<1>3. at' \in InConfig \cup InList \cup {"config", "core", "setting", "list", "listed", "done"}
  BY DEF InConfig, InList
<1> QED BY <1>1, <1>2, <1>3 DEF Goes, Advances

(***************************************************************************)
(* The loops of Load (TopContinues).                                       *)
(***************************************************************************)
LEMMA ConfigStep ==
    ASSUME ReaderInv, at \in InConfig,
           UNCHANGED <<disk, text, matched, bots, bot, dropped, truncated, fellBack>>,
           features' \in Features,
           \/ at' \in InConfig /\ Consumes(i, i')
           \/ /\ at' = "core" /\ i' = 1
              /\ features'.voteTransactionHoldFrames \in 1 .. 32
    PROVE  ReaderInv' /\ Goes
<1>1. Goes
  <2>1. CASE at' \in InConfig /\ Consumes(i, i')
    BY <2>1, Iterates
  <2>2. CASE at' = "core" /\ i' = 1
    <3>1. i' \in Nat /\ matched' \in {"zh-CN", "default"}
      BY <2>2 DEF ReaderInv
    <3> QED BY <2>2, <3>1, HandsOver
  <2> QED BY <2>1, <2>2
<1>2. IsText(text)' /\ IsBotList(bots)' /\ IsBot(bot)'
  BY DEF ReaderInv, IsText, IsBotList, IsBot, NoBot
<1>3. at' \notin InConfig => features'.voteTransactionHoldFrames \in 1 .. 32
  BY DEF InConfig
<1> QED BY <1>1, <1>2, <1>3 DEF ReaderInv, Goes

LEMMA TopContinuesStep ==
    ASSUME ReaderInv, at \in InConfig,
           UNCHANGED <<disk, text, matched, bots, bot, dropped, truncated, fellBack>>,
           NEW next, next.more \in BOOLEAN, next.more => Consumes(i, next.i),
           NEW f \in Features, TopContinues(next, f)
    PROVE  ReaderInv' /\ Goes
<1>1. CASE next.more
  <2>1. at' = "top" /\ i' = next.i /\ features' = f
    BY <1>1 DEF TopContinues
  <2> QED BY <1>1, <2>1, ConfigStep DEF InConfig
<1>2. CASE ~next.more
  <2>1. /\ at' = "core" /\ i' = 1
        /\ features' = [f EXCEPT !.voteTransactionHoldFrames = HoldClamped(@)]
    BY <1>2 DEF TopContinues
  <2>2. HoldClamped(f.voteTransactionHoldFrames) \in 1 .. 32
    BY HoldClampedRange DEF Features, Int32
  <2>3. \A n \in 1 .. 32 : n \in Int32
    BY ReaderAssumption DEF Int32, IsInt
  <2>4. features' \in Features /\ features'.voteTransactionHoldFrames \in 1 .. 32
    BY <2>1, <2>2, <2>3 DEF Features
  <2> QED BY <2>1, <2>4, ConfigStep
<1> QED BY <1>1, <1>2

LEMMA FilesAreTexts ==
    ASSUME disk \in Disks
    PROVE  /\ IsText(disk.config.text) /\ IsText(disk.core.text)
           /\ IsText(disk.zh.text) /\ IsText(disk.default.text)
<1>1. \A f \in {"config", "core", "zh", "default"} : IsText(disk[f].text)
  BY ReaderAssumption
<1>2. /\ IsText(disk["config"].text) /\ IsText(disk["core"].text)
      /\ IsText(disk["zh"].text) /\ IsText(disk["default"].text)
  BY <1>1
<1> QED BY <1>2

(***************************************************************************)
(* A file that has just been opened is read from its first token.          *)
(***************************************************************************)
Opening ==
    IsText(text) => MatchChar(1, "{").ok \in BOOLEAN /\ Forward(1, MatchChar(1, "{").i)

LEMMA OpeningForward == Opening
  BY MatchCharForward DEF Opening

LEMMA OpensForward == Opening'
  BY OpeningForward, PTL

LEMMA OpenConfigStep ==
    ASSUME ReaderInv, OpenConfig
    PROVE  ReaderInv' /\ Goes
<1>1. /\ at = "config" /\ text' = disk.config.text
      /\ UNCHANGED <<disk, features, matched, bots, bot, dropped, truncated, fellBack>>
      /\ \/ at' = "top" /\ i' = (MatchChar(1, "{")').i
         \/ at' = "core" /\ i' = i
  BY DEF OpenConfig
<1>2. IsText(text')
  BY <1>1, FilesAreTexts DEF ReaderInv
<1>3. (MatchChar(1, "{")').i \in Nat
  BY <1>2, OpensForward DEF Opening, Forward
<1>4. i' \in Nat /\ matched' \in {"zh-CN", "default"}
  BY <1>1, <1>3 DEF ReaderInv
<1>5. Goes
  BY <1>1, <1>4, HandsOver
<1>6. features' \in Features /\ features'.voteTransactionHoldFrames \in 1 .. 32
  BY <1>1 DEF ReaderInv, InConfig
<1>7. IsBotList(bots)' /\ IsBot(bot)'
  BY <1>1 DEF ReaderInv, IsBotList, IsBot, NoBot
<1> QED BY <1>1, <1>2, <1>5, <1>6, <1>7 DEF ReaderInv, Goes

LEMMA TopKeyStep ==
    ASSUME ReaderInv, TopKey
    PROVE  ReaderInv' /\ Goes
<1> DEFINE m == NextMember[i]
           block == MatchChar(m.i, "{")
           array == MatchChar(m.i, "[")
           value == AfterValue("}", block.i)
           list == AfterValue("}", SkipJsonValue(array.i))
           other == AfterValue("}", SkipUnknown(m.i))
<1>1. /\ at = "top"
      /\ UNCHANGED <<disk, text, mapBlacklist, matched, bots, bot, dropped, truncated, fellBack>>
      /\ \/ ~m.more /\ TopContinues(m, features)
         \/ block.ok /\ at' = "feature" /\ i' = block.i /\ features' = features
         \/ TopContinues(value, features)
         \/ array.ok /\ at' = "token" /\ i' = array.i /\ features' = features
         \/ TopContinues(list, features)
         \/ TopContinues(other, features)
  BY DEF TopKey
<1>2. IsText(text) /\ i \in Nat /\ at \in InConfig /\ features \in Features
  BY <1>1 DEF ReaderInv, InConfig
<1>3. m.more \in BOOLEAN /\ Forward(i, m.i)
  BY <1>2, NextMemberForward
<1>4. m.i \in Nat
  BY <1>3 DEF Forward
<1>5. /\ Forward(i, block.i) /\ (block.ok => Consumes(i, block.i))
      /\ Forward(i, array.i) /\ (array.ok => Consumes(i, array.i))
  <2>1. /\ Forward(m.i, block.i) /\ (block.ok => Consumes(m.i, block.i))
        /\ Forward(m.i, array.i) /\ (array.ok => Consumes(m.i, array.i))
    <3> HIDE DEF m
    <3> QED BY <1>2, <1>4, MatchCharForward
  <2> HIDE DEF m, block, array
  <2> QED BY <1>2, <1>3, <2>1, ForwardTransitive, ConsumesTransitive
<1>6. /\ value.more \in BOOLEAN /\ (value.more => Consumes(i, value.i))
      /\ list.more \in BOOLEAN /\ (list.more => Consumes(i, list.i))
      /\ other.more \in BOOLEAN /\ (other.more => Consumes(i, other.i))
  <2> HIDE DEF m, block, array
  <2>1. block.i \in Nat /\ array.i \in Nat
    BY <1>5 DEF Forward
  <2>2. Forward(array.i, SkipJsonValue(array.i)) /\ Forward(m.i, SkipUnknown(m.i))
    BY <1>2, <1>4, <2>1, SkipJsonValueForward, SkipUnknownForward
  <2>3. Forward(i, SkipJsonValue(array.i)) /\ Forward(i, SkipUnknown(m.i))
    BY <1>2, <1>3, <1>5, <2>2, ForwardTransitive
  <2>4. SkipJsonValue(array.i) \in Nat /\ SkipUnknown(m.i) \in Nat
    BY <2>3 DEF Forward
  <2>5. /\ value.more \in BOOLEAN /\ (value.more => Consumes(block.i, value.i))
        /\ list.more \in BOOLEAN /\ (list.more => Consumes(SkipJsonValue(array.i), list.i))
        /\ other.more \in BOOLEAN /\ (other.more => Consumes(SkipUnknown(m.i), other.i))
    BY <1>2, <2>1, <2>4, AfterValueForward
  <2> HIDE DEF value, list, other
  <2> QED BY <1>2, <1>5, <2>3, <2>5, ConsumesTransitive
<1> HIDE DEF m, block, array, value, list, other
<1>7. CASE ~m.more /\ TopContinues(m, features)
  BY <1>1, <1>2, <1>3, <1>7, TopContinuesStep
<1>8. CASE \/ block.ok /\ at' = "feature" /\ i' = block.i /\ features' = features
           \/ array.ok /\ at' = "token" /\ i' = array.i /\ features' = features
  <2>1. at' \in InConfig /\ Consumes(i, i') /\ features' \in Features
    BY <1>2, <1>5, <1>8 DEF InConfig
  <2> QED BY <1>1, <1>2, <2>1, ConfigStep
<1>9. CASE TopContinues(value, features)
  BY <1>1, <1>2, <1>6, <1>9, TopContinuesStep
<1>10. CASE TopContinues(list, features)
  BY <1>1, <1>2, <1>6, <1>10, TopContinuesStep
<1>11. CASE TopContinues(other, features)
  BY <1>1, <1>2, <1>6, <1>11, TopContinuesStep
<1> QED BY <1>1, <1>7, <1>8, <1>9, <1>10, <1>11

(***************************************************************************)
(* A setting that is read has a value of its type.                         *)
(***************************************************************************)
LEMMA SettingType ==
    ASSUME NEW f \in Features, NEW v
    PROVE  /\ v \in BOOLEAN => [f EXCEPT !["enableFakePing"] = v] \in Features
           /\ IsInt(v) => [f EXCEPT !["fakePingMin"] = v] \in Features
           /\ IsInt(v) => [f EXCEPT !["voteTransactionHoldFrames"] = v] \in Features
<1>1. IsInt(v) => v \in Int32
  BY DEF Int32, IsInt
<1> QED BY <1>1 DEF Features

LEMMA FeatureKeyStep ==
    ASSUME ReaderInv, FeatureKey
    PROVE  ReaderInv' /\ Goes
<1> DEFINE m == NextMember[i]
           r == CASE m.name \in BooleanFeatures -> ReadBool(m.i)
                  [] m.name \in NumberFeatures -> ReadInt(m.i)
                  [] OTHER -> [i |-> m.i]
           f == IF m.name \in DOMAIN features
                THEN [features EXCEPT ![m.name] = r.value] ELSE features
           rest == BlockRest(r.i)
           next == AfterValue("}", rest)
           last == AfterValue("}", IF m.more THEN next.i ELSE m.i)
<1>1. /\ at = "feature"
      /\ UNCHANGED <<disk, text, mapBlacklist, matched, bots, bot, dropped, truncated, fellBack>>
      /\ \/ next.more /\ at' = at /\ i' = next.i /\ features' = f
         \/ TopContinues(last, f)
  BY DEF FeatureKey
<1>2. IsText(text) /\ i \in Nat /\ at \in InConfig /\ features \in Features
  BY <1>1 DEF ReaderInv, InConfig
<1>3. Forward(i, m.i)
  BY <1>2, NextMemberForward
<1>4. m.i \in Nat
  BY <1>3 DEF Forward
<1>5. Forward(m.i, r.i) /\ f \in Features
  <2> HIDE DEF m
  <2> DEFINE k == m.name
  <2>1. DOMAIN features = {"enableFakePing", "fakePingMin", "voteTransactionHoldFrames"}
    BY <1>2 DEF Features
  <2>2. f = IF k \in DOMAIN features THEN [features EXCEPT ![k] = r.value] ELSE features
    OBVIOUS
  <2>3. CASE k \in BooleanFeatures
    <3>1. r = ReadBool(m.i)
      BY <2>3 DEF BooleanFeatures, NumberFeatures
    <3> HIDE DEF r, f
    <3>2. Forward(m.i, r.i) /\ r.value \in BOOLEAN
      BY <1>2, <1>4, <3>1, ReadBoolForward
    <3>3. k \in DOMAIN features => k = "enableFakePing"
      BY <2>1, <2>3 DEF BooleanFeatures
    <3>4. CASE k \notin DOMAIN features
      BY <1>2, <2>2, <3>2, <3>4
    <3>5. CASE k = "enableFakePing"
      BY <1>2, <2>1, <2>2, <3>2, <3>5, SettingType, Zenon
    <3> QED BY <3>3, <3>4, <3>5
  <2>4. CASE k \in NumberFeatures
    <3>1. r = ReadInt(m.i)
      BY <2>4 DEF BooleanFeatures, NumberFeatures
    <3> HIDE DEF r, f
    <3>2. Forward(m.i, r.i) /\ IsInt(r.value)
      BY <1>2, <1>4, <3>1, ReadIntForward
    <3>3. k \in DOMAIN features => k \in {"fakePingMin", "voteTransactionHoldFrames"}
      BY <2>1, <2>4 DEF NumberFeatures
    <3>4. CASE k \notin DOMAIN features
      BY <1>2, <2>2, <3>2, <3>4
    <3>5. CASE k \in {"fakePingMin", "voteTransactionHoldFrames"}
      BY <1>2, <2>1, <2>2, <3>2, <3>5, SettingType
    <3> QED BY <3>3, <3>4, <3>5
  <2>5. CASE k \notin BooleanFeatures \cup NumberFeatures
    <3>1. r = [i |-> m.i]
      BY <2>5
    <3>2. r.i = m.i
      BY <3>1
    <3>3. f = features
      BY <2>1, <2>5 DEF BooleanFeatures, NumberFeatures
    <3> QED BY <1>2, <1>4, <3>2, <3>3 DEF Forward
  <2> QED BY <2>3, <2>4, <2>5
<1> HIDE DEF m, r, f
<1>6. Forward(i, r.i) /\ r.i \in Nat
  BY <1>2, <1>3, <1>5, ForwardTransitive DEF Forward
<1>7. Forward(i, rest) /\ rest \in Nat
  <2>1. Forward(r.i, rest)
    BY <1>2, <1>6, BlockRestForward
  <2> HIDE DEF rest
  <2> QED BY <1>2, <1>6, <2>1, ForwardTransitive DEF Forward
<1>8. Forward(i, next.i) /\ (next.more => Consumes(i, next.i))
  <2>1. Forward(rest, next.i) /\ (next.more => Consumes(rest, next.i))
    <3> HIDE DEF rest
    <3> QED BY <1>2, <1>7, AfterValueForward
  <2> HIDE DEF rest, next
  <2> QED BY <1>2, <1>7, <2>1, ForwardTransitive, ConsumesTransitive
<1>9. last.more \in BOOLEAN /\ (last.more => Consumes(i, last.i))
  <2> DEFINE n == IF m.more THEN next.i ELSE m.i
  <2> HIDE DEF next
  <2>1. Forward(i, n) /\ n \in Nat
    BY <1>3, <1>8 DEF Forward
  <2> HIDE DEF n
  <2>2. last.more \in BOOLEAN /\ (last.more => Consumes(n, last.i))
    BY <1>2, <2>1, AfterValueForward DEF n
  <2> HIDE DEF last
  <2> QED BY <1>2, <2>1, <2>2, ConsumesTransitive
<1> HIDE DEF next, last
<1>10. CASE next.more /\ at' = at /\ i' = next.i /\ features' = f
  <2>1. at' \in InConfig /\ Consumes(i, i') /\ features' \in Features
    BY <1>2, <1>5, <1>8, <1>10
  <2> QED BY <1>1, <1>2, <2>1, ConfigStep
<1>11. CASE TopContinues(last, f)
  BY <1>1, <1>2, <1>5, <1>9, <1>11, TopContinuesStep
<1> QED BY <1>1, <1>10, <1>11

LEMMA MapTokenStep ==
    ASSUME ReaderInv, MapToken
    PROVE  ReaderInv' /\ Goes
<1> DEFINE k == SkipWhitespace[i]
           behind == SkipJsonValue(k)
           next == AfterValue("]", behind)
           end == AfterValue("}", Behind("]", k))
           last == AfterValue("}", next.i)
<1>1. /\ at = "token"
      /\ UNCHANGED <<disk, text, matched, bots, bot, dropped, truncated, fellBack>>
      /\ \/ TopContinues(end, features)
         \/ next.more /\ at' = at /\ i' = next.i /\ features' = features
         \/ TopContinues(last, features)
  BY DEF MapToken
<1>2. IsText(text) /\ i \in Nat /\ at \in InConfig /\ features \in Features
  BY <1>1 DEF ReaderInv, InConfig
<1>3. Forward(i, k) /\ k \in Nat
  BY <1>2, SkipWhitespaceForward DEF Forward
<1> HIDE DEF k
<1>4. Forward(i, behind) /\ behind \in Nat
  <2>1. Forward(k, behind)
    BY <1>2, <1>3, SkipJsonValueForward
  <2> HIDE DEF behind
  <2> QED BY <1>2, <1>3, <2>1 DEF Forward
<1> HIDE DEF behind
<1>5. Forward(i, next.i) /\ next.i \in Nat /\ (next.more => Consumes(i, next.i))
  <2>1. Forward(behind, next.i) /\ (next.more => Consumes(behind, next.i))
    BY <1>2, <1>4, AfterValueForward
  <2> HIDE DEF next
  <2> QED BY <1>2, <1>4, <2>1, ForwardTransitive, ConsumesTransitive DEF Forward
<1> HIDE DEF next
<1>6. last.more \in BOOLEAN /\ (last.more => Consumes(i, last.i))
  <2>1. last.more \in BOOLEAN /\ (last.more => Consumes(next.i, last.i))
    BY <1>2, <1>5, AfterValueForward
  <2> HIDE DEF last
  <2> QED BY <1>2, <1>5, <2>1, ConsumesTransitive
<1>7. end.more \in BOOLEAN /\ (end.more => Consumes(i, end.i))
  <2> DEFINE n == Behind("]", k)
  <2>1. Forward(k, n)
    BY <1>2, <1>3, BehindForward
  <2>2. Forward(i, n) /\ n \in Nat
    BY <1>2, <1>3, <2>1, ForwardTransitive DEF Forward
  <2> HIDE DEF n
  <2>3. end.more \in BOOLEAN /\ (end.more => Consumes(n, end.i))
    BY <1>2, <2>2, AfterValueForward DEF n
  <2> HIDE DEF end
  <2> QED BY <1>2, <2>2, <2>3, ConsumesTransitive
<1> HIDE DEF last, end
<1>8. CASE next.more /\ at' = at /\ i' = next.i /\ features' = features
  <2>1. at' \in InConfig /\ Consumes(i, i') /\ features' \in Features
    BY <1>2, <1>5, <1>8
  <2> QED BY <1>1, <1>2, <2>1, ConfigStep
<1>9. CASE TopContinues(last, features)
  BY <1>1, <1>2, <1>6, <1>9, TopContinuesStep
<1>10. CASE TopContinues(end, features)
  BY <1>1, <1>2, <1>7, <1>10, TopContinuesStep
<1> QED BY <1>1, <1>8, <1>9, <1>10

(***************************************************************************)
(* The steps between the files.                                            *)
(***************************************************************************)
LEMMA BetweenStep ==
    ASSUME ReaderInv, Goes, at \notin InConfig, IsText(text'), disk' = disk, features' = features,
           \/ UNCHANGED <<bots, bot, dropped, truncated>>
           \/ bots' = <<>> /\ bot' = bot /\ dropped' = 0 /\ truncated' = 0
    PROVE  ReaderInv'
<1>1. IsBotList(bots')
  <2>1. IsBotList(<<>>)
    <3>1. ToSet(<<>>) = {}
      BY DEF ToSet
    <3>2. <<>> \in Seq({}) /\ Len(<<>>) = 0
      OBVIOUS
    <3> QED BY <3>1, <3>2, ReaderAssumption DEF IsBotList
  <2> QED BY <2>1 DEF ReaderInv
<1>2. IsBot(bot') /\ dropped' \in Nat /\ truncated' \in Nat
  BY DEF ReaderInv
<1> QED BY <1>1, <1>2 DEF ReaderInv, Goes

LEMMA OpenCoreStep ==
    ASSUME ReaderInv, OpenCore
    PROVE  ReaderInv' /\ Goes
<1>1. /\ at = "core" /\ text' = disk.core.text
      /\ UNCHANGED <<disk, features, matched, bots, bot, dropped, truncated, fellBack>>
      /\ at' \in {"setting", "list"} /\ i' = (MatchChar(1, "{")').i
  BY DEF OpenCore
<1>2. IsText(text')
  BY <1>1, FilesAreTexts DEF ReaderInv
<1>3. i' \in Nat /\ matched' \in {"zh-CN", "default"}
  BY <1>1, <1>2, OpensForward DEF Opening, Forward, ReaderInv
<1>4. Goes
  BY <1>1, <1>3, HandsOver
<1>5. at \notin InConfig
  BY <1>1 DEF InConfig
<1> QED BY <1>1, <1>2, <1>4, <1>5, BetweenStep

LEMMA CoreSettingStep ==
    ASSUME ReaderInv, CoreSetting
    PROVE  ReaderInv' /\ Goes
<1> DEFINE m == NextMember[i]
           value == SkipJsonValue(m.i)
           next == AfterValue("}", value)
<1>1. /\ at = "setting"
      /\ UNCHANGED <<disk, text, features, bots, bot, dropped, truncated, fellBack>>
      /\ \/ next.more /\ at' = at /\ i' = next.i /\ matched' = matched
         \/ at' = "list" /\ i' = 1 /\ matched' \in {"zh-CN", matched}
  BY DEF CoreSetting
<1>2. IsText(text) /\ i \in Nat /\ matched \in {"zh-CN", "default"}
  BY DEF ReaderInv
<1>3. Forward(i, m.i) /\ m.i \in Nat
  BY <1>2, NextMemberForward DEF Forward
<1> HIDE DEF m
<1>4. Forward(m.i, value)
  BY <1>2, <1>3, SkipJsonValueForward
<1> HIDE DEF value
<1>5. Forward(i, value) /\ value \in Nat
  BY <1>2, <1>3, <1>4, ForwardTransitive DEF Forward
<1>6. next.more => Consumes(value, next.i)
  BY <1>2, <1>5, AfterValueForward
<1> HIDE DEF next
<1>7. next.more => Consumes(i, next.i)
  BY <1>2, <1>5, <1>6, ConsumesTransitive
<1>8. Goes
  <2>1. CASE next.more /\ at' = at /\ i' = next.i /\ matched' = matched
    <3>1. Consumes(i, i')
      BY <1>7, <2>1
    <3> QED BY <1>1, <2>1, <3>1, Iterates
  <2>2. CASE at' = "list" /\ i' = 1 /\ matched' \in {"zh-CN", matched}
    <3>1. i' \in Nat /\ matched' \in {"zh-CN", "default"}
      BY <1>2, <2>2
    <3> QED BY <1>1, <2>2, <3>1, HandsOver
  <2> QED BY <1>1, <2>1, <2>2
<1>9. at \notin InConfig /\ IsText(text')
  BY <1>1, <1>2 DEF InConfig
<1> QED BY <1>1, <1>8, <1>9, BetweenStep

LEMMA OpenListStep ==
    ASSUME ReaderInv, OpenList
    PROVE  ReaderInv' /\ Goes
<1>1. /\ at = "list" /\ text' \in {disk.zh.text, disk.default.text}
      /\ UNCHANGED <<disk, features, matched, bot, fellBack>>
      /\ \/ /\ at' = "entry" /\ i' = (MatchChar(1, "{")').i
            /\ bots' = <<>> /\ dropped' = 0 /\ truncated' = 0
         \/ at' = "listed" /\ UNCHANGED <<i, bots, dropped, truncated>>
  BY DEF OpenList
<1>2. IsText(text')
  BY <1>1, FilesAreTexts DEF ReaderInv
<1>3. i' \in Nat /\ matched' \in {"zh-CN", "default"}
  BY <1>1, <1>2, OpensForward DEF Opening, Forward, ReaderInv
<1>4. Goes
  BY <1>1, <1>3, HandsOver
<1>5. at \notin InConfig
  BY <1>1 DEF InConfig
<1> QED BY <1>1, <1>2, <1>4, <1>5, BetweenStep

LEMMA FallBackStep ==
    ASSUME ReaderInv, FallBack
    PROVE  ReaderInv' /\ Goes
<1>1. /\ at = "listed" /\ UNCHANGED <<disk, text, i, features, bots, bot, dropped, truncated>>
      /\ \/ at' = "list" /\ ~fellBack /\ matched' = "default" /\ fellBack' = TRUE
         \/ at' = "done" /\ matched' = matched /\ fellBack' = fellBack
  BY DEF FallBack, ListFailed
<1>2. /\ i' \in Nat /\ matched' \in {"zh-CN", "default"} /\ IsText(text')
  BY <1>1 DEF ReaderInv
<1>3. Goes
  BY <1>1, <1>2, HandsOver
<1>4. at \notin InConfig
  BY <1>1 DEF InConfig
<1> QED BY <1>1, <1>2, <1>3, <1>4, BetweenStep

-----------------------------------------------------------------------------
(* The list of bots                                                        *)

(***************************************************************************)
(* The loops of LoadBots.                                                  *)
(***************************************************************************)
LEMMA ListStep ==
    ASSUME ReaderInv, at \in InList, UNCHANGED <<disk, text, features, matched, fellBack>>,
           \/ at' \in InList /\ Consumes(i, i')
           \/ at' = "listed" /\ i' \in Nat,
           IsBotList(bots'), IsBot(bot'), dropped' \in Nat, truncated' \in Nat
    PROVE  ReaderInv' /\ Goes
<1>1. Goes
  <2>1. CASE at' \in InList /\ Consumes(i, i')
    BY <2>1, Iterates
  <2>2. CASE at' = "listed" /\ i' \in Nat
    <3>1. matched' \in {"zh-CN", "default"}
      BY DEF ReaderInv
    <3> QED BY <2>2, <3>1, HandsOver
  <2> QED BY <2>1, <2>2
<1>2. IsText(text')
  BY DEF ReaderInv
<1>3. features' \in Features /\ features'.voteTransactionHoldFrames \in 1 .. 32
  BY DEF ReaderInv, InConfig, InList
<1> QED BY <1>1, <1>2, <1>3 DEF ReaderInv, Goes

LEMMA EntryContinuesStep ==
    ASSUME ReaderInv, at \in InList, UNCHANGED <<disk, text, features, matched, fellBack>>,
           NEW next, next.more \in BOOLEAN, next.i \in Nat, next.more => Consumes(i, next.i),
           EntryContinues(next),
           IsBotList(bots'), IsBot(bot'), dropped' \in Nat, truncated' \in Nat
    PROVE  ReaderInv' /\ Goes
<1>1. \/ at' \in InList /\ Consumes(i, i')
      \/ at' = "listed" /\ i' \in Nat
  BY DEF EntryContinues, InList
<1> QED BY <1>1, ListStep

(***************************************************************************)
(* A list that is not full takes another bot.                              *)
(***************************************************************************)
LEMMA PushedList ==
    ASSUME IsBotList(bots), NEW b, IsBot(b), ~IsFull
    PROVE  IsBotList(Append(bots, b))
<1> DEFINE S == ToSet(bots) \cup {b}
           list == Append(bots, b)
<1>1. bots \in Seq(ToSet(bots)) /\ Len(bots) \in Nat /\ Len(bots) < MaxBotIdentities
  BY ReaderAssumption DEF IsBotList, IsFull
<1>2. ToSet(list) = S
  <2>1. list \in Seq(S) /\ Len(list) = Len(bots) + 1
    BY <1>1 DEF ToSet
  <2>2. /\ \A k \in 1 .. Len(bots) : list[k] = bots[k]
        /\ list[Len(bots) + 1] = b
    BY <1>1
  <2>3. ToSet(bots) = {bots[k] : k \in 1 .. Len(bots)}
    BY <1>1 DEF ToSet
  <2>4. ToSet(list) = {list[k] : k \in 1 .. Len(bots) + 1}
    BY <1>1, <2>1 DEF ToSet
  <2>5. 1 .. Len(bots) + 1 = (1 .. Len(bots)) \cup {Len(bots) + 1}
    BY <1>1
  <2> HIDE DEF list
  <2> QED BY <2>2, <2>3, <2>4, <2>5
<1>3. list \in Seq(S) /\ Len(list) <= MaxBotIdentities
  <2>1. bots \in Seq(S)
    BY <1>1
  <2>2. Len(list) = Len(bots) + 1
    BY <1>1
  <2> HIDE DEF S
  <2>3. list \in Seq(S)
    BY <2>1 DEF S
  <2> QED BY <1>1, <2>2, <2>3, ReaderAssumption
<1>4. \A x \in S : IsBot(x)
  BY DEF IsBotList
<1> QED BY <1>2, <1>3, <1>4 DEF IsBotList

(***************************************************************************)
(* A bot stays one when one of its fields is read.                         *)
(***************************************************************************)
LEMMA BotFieldType ==
    ASSUME NEW b, IsBot(b), NEW k, NEW v,
           k = "steamid" => v \in 0 .. UInt64Range - 1, k = "ping" => IsInt(v)
    PROVE  IsBot([b EXCEPT ![k] = v])
<1> DEFINE c == [b EXCEPT ![k] = v]
<1>1. DOMAIN c = DOMAIN b /\ DOMAIN b = {"name", "steamid", "ping"}
  BY DEF IsBot, NoBot
<1>2. \A x \in DOMAIN b : c[x] = IF x = k THEN v ELSE b[x]
  OBVIOUS
<1> HIDE DEF c
<1>3. c["steamid"] \in 0 .. UInt64Range - 1
  BY <1>1, <1>2 DEF IsBot
<1>4. IsInt(c["ping"])
  BY <1>1, <1>2 DEF IsBot
<1> QED BY <1>1, <1>3, <1>4 DEF IsBot

LEMMA PushBotStep ==
    ASSUME ReaderInv, at \in InList, UNCHANGED <<disk, text, features, matched, fellBack>>,
           NEW b, IsBot(b), NEW n, Forward(i, n), PushBot(b, n), IsBot(bot')
    PROVE  ReaderInv' /\ Goes
<1> DEFINE short == [b EXCEPT !.name = TruncateUtf8(@)]
           rest == BlockRest(n)
           next == AfterValue("}", rest)
           last == AfterValue("}", next.i)
<1>1. /\ bots' \in {bots, IF IsFull THEN bots ELSE Append(bots, short)}
      /\ dropped' \in {dropped, dropped + 1} /\ truncated' \in {truncated, truncated + 1}
      /\ \/ next.more /\ at' = "bot" /\ i' = next.i
         \/ EntryContinues(last)
  BY DEF PushBot
<1>2. IsText(text) /\ i \in Nat /\ n \in Nat
  BY DEF ReaderInv, Forward
<1>3. IsBot(short)
  <2>1. short = [b EXCEPT !["name"] = TruncateUtf8(b["name"])]
    BY DEF IsBot, NoBot
  <2> QED BY <2>1, BotFieldType
<1> HIDE DEF short
<1>4. IsBotList(bots')
  BY <1>1, <1>3, PushedList DEF ReaderInv
<1>5. dropped' \in Nat /\ truncated' \in Nat
  <2>1. dropped \in Nat /\ truncated \in Nat
    BY DEF ReaderInv
  <2>2. /\ dropped' \in {dropped, dropped + 1}
        /\ truncated' \in {truncated, truncated + 1}
    BY <1>1
  <2> QED BY <2>1, <2>2
<1>6. Forward(i, rest) /\ rest \in Nat
  BY <1>2, BlockRestForward, ForwardTransitive DEF Forward
<1> HIDE DEF rest
<1>7. Forward(i, next.i) /\ next.i \in Nat /\ (next.more => Consumes(i, next.i))
  <2>1. Forward(rest, next.i) /\ (next.more => Consumes(rest, next.i))
    BY <1>2, <1>6, AfterValueForward
  <2> HIDE DEF next
  <2> QED BY <1>2, <1>6, <2>1, ForwardTransitive, ConsumesTransitive DEF Forward
<1> HIDE DEF next
<1>8. last.more \in BOOLEAN /\ last.i \in Nat /\ (last.more => Consumes(i, last.i))
  <2>1. /\ last.more \in BOOLEAN /\ Forward(next.i, last.i)
        /\ last.more => Consumes(next.i, last.i)
    BY <1>2, <1>7, AfterValueForward
  <2> HIDE DEF last
  <2> QED BY <1>2, <1>7, <2>1, ConsumesTransitive DEF Forward
<1> HIDE DEF last
<1>9. CASE next.more /\ at' = "bot" /\ i' = next.i
  <2>1. at' \in InList /\ Consumes(i, i')
    BY <1>7, <1>9 DEF InList
  <2> QED BY <1>4, <1>5, <2>1, ListStep
<1>10. CASE EntryContinues(last)
  BY <1>4, <1>5, <1>8, <1>10, EntryContinuesStep
<1> QED BY <1>1, <1>9, <1>10

LEMMA ListEntryStep ==
    ASSUME ReaderInv, ListEntry
    PROVE  ReaderInv' /\ Goes
<1> DEFINE m == NextMember[i]
           block == MatchChar(m.i, "{")
           skip == SkipJsonValue(m.i)
           value == AfterValue("}", block.i)
           other == AfterValue("}", skip)
<1>1. /\ at = "entry"
      /\ UNCHANGED <<disk, text, features, mapBlacklist, matched, bots, bot, dropped, truncated,
                     fellBack>>
      /\ \/ ~m.more /\ EntryContinues(m)
         \/ block.ok /\ at' = "bot" /\ i' = block.i
         \/ EntryContinues(value)
         \/ EntryContinues(other)
  BY DEF ListEntry
<1>2. /\ IsText(text) /\ i \in Nat /\ at \in InList
      /\ IsBotList(bots') /\ IsBot(bot') /\ dropped' \in Nat /\ truncated' \in Nat
  BY <1>1 DEF ReaderInv, InList
<1>3. m.more \in BOOLEAN /\ Forward(i, m.i) /\ m.i \in Nat
  BY <1>2, NextMemberForward DEF Forward
<1> HIDE DEF m
<1>4. Forward(i, block.i) /\ block.i \in Nat /\ (block.ok => Consumes(i, block.i))
  <2>1. Forward(m.i, block.i) /\ (block.ok => Consumes(m.i, block.i))
    BY <1>2, <1>3, MatchCharForward
  <2> HIDE DEF block
  <2> QED BY <1>2, <1>3, <2>1, ForwardTransitive, ConsumesTransitive DEF Forward
<1> HIDE DEF block
<1>5. Forward(m.i, skip)
  BY <1>2, <1>3, SkipJsonValueForward
<1> HIDE DEF skip
<1>6. Forward(i, skip) /\ skip \in Nat
  BY <1>2, <1>3, <1>5, ForwardTransitive DEF Forward
<1>7. /\ value.more \in BOOLEAN /\ value.i \in Nat /\ (value.more => Consumes(i, value.i))
      /\ other.more \in BOOLEAN /\ other.i \in Nat /\ (other.more => Consumes(i, other.i))
  <2>1. /\ value.more \in BOOLEAN /\ Forward(block.i, value.i)
        /\ value.more => Consumes(block.i, value.i)
        /\ other.more \in BOOLEAN /\ Forward(skip, other.i)
        /\ other.more => Consumes(skip, other.i)
    BY <1>2, <1>4, <1>6, AfterValueForward
  <2> HIDE DEF value, other
  <2> QED BY <1>2, <1>4, <1>6, <2>1, ConsumesTransitive DEF Forward
<1> HIDE DEF value, other
<1>8. CASE ~m.more /\ EntryContinues(m)
  BY <1>1, <1>2, <1>3, <1>8, EntryContinuesStep
<1>9. CASE block.ok /\ at' = "bot" /\ i' = block.i
  <2>1. at' \in InList /\ Consumes(i, i')
    BY <1>4, <1>9 DEF InList
  <2> QED BY <1>1, <1>2, <2>1, ListStep
<1>10. CASE EntryContinues(value)
  BY <1>1, <1>2, <1>7, <1>10, EntryContinuesStep
<1>11. CASE EntryContinues(other)
  BY <1>1, <1>2, <1>7, <1>11, EntryContinuesStep
<1> QED BY <1>1, <1>8, <1>9, <1>10, <1>11

LEMMA BotKeyStep ==
    ASSUME ReaderInv, BotKey
    PROVE  ReaderInv' /\ Goes
<1> DEFINE m == NextMember[i]
           b == [name |-> m.key, steamid |-> SteamIdBase + Len(bots), ping |-> 0]
           block == MatchChar(m.i, "{")
           last == AfterValue("}", m.i)
<1>1. /\ at = "bot" /\ UNCHANGED <<disk, text, features, mapBlacklist, matched, fellBack>>
      /\ \/ EntryContinues(last) /\ UNCHANGED <<bots, bot, dropped, truncated>>
         \/ /\ block.ok /\ at' = "field" /\ i' = block.i /\ bot' = b
            /\ UNCHANGED <<bots, dropped, truncated>>
         \/ PushBot(b, block.i) /\ bot' = bot
  BY DEF BotKey
<1>2. /\ IsText(text) /\ i \in Nat /\ at \in InList
      /\ IsBotList(bots) /\ IsBot(bot) /\ dropped \in Nat /\ truncated \in Nat
  BY <1>1 DEF ReaderInv, InList
<1>3. IsBot(b)
  <2> DEFINE own == SteamIdBase + Len(bots)
             none == 0
  <2>1. Len(bots) \in Nat /\ Len(bots) <= MaxBotIdentities
    BY <1>2 DEF IsBotList
  <2>2. own \in 0 .. UInt64Range - 1
    BY <2>1, ReaderAssumption DEF SteamIdBase
  <2>3. IsInt(none)
    BY ReaderAssumption DEF IsInt
  <2> HIDE DEF m, own, none
  <2>4. b = [name |-> m.key, steamid |-> own, ping |-> none]
    BY DEF own, none
  <2> QED BY <2>2, <2>3, <2>4 DEF IsBot, NoBot
<1> HIDE DEF b
<1>4. m.more \in BOOLEAN /\ Forward(i, m.i) /\ m.i \in Nat
  BY <1>2, NextMemberForward DEF Forward
<1> HIDE DEF m
<1>5. Forward(i, block.i) /\ (block.ok => Consumes(i, block.i))
  <2>1. Forward(m.i, block.i) /\ (block.ok => Consumes(m.i, block.i))
    BY <1>2, <1>4, MatchCharForward
  <2> HIDE DEF block
  <2> QED BY <1>2, <1>4, <2>1, ForwardTransitive, ConsumesTransitive
<1> HIDE DEF block
<1>6. last.more \in BOOLEAN /\ last.i \in Nat /\ (last.more => Consumes(i, last.i))
  <2>1. /\ last.more \in BOOLEAN /\ Forward(m.i, last.i)
        /\ last.more => Consumes(m.i, last.i)
    BY <1>2, <1>4, AfterValueForward
  <2> HIDE DEF last
  <2> QED BY <1>2, <1>4, <2>1, ConsumesTransitive DEF Forward
<1> HIDE DEF last
<1>7. CASE EntryContinues(last) /\ UNCHANGED <<bots, bot, dropped, truncated>>
  <2>1. IsBotList(bots') /\ IsBot(bot') /\ dropped' \in Nat /\ truncated' \in Nat
    BY <1>2, <1>7
  <2> QED BY <1>1, <1>2, <1>6, <1>7, <2>1, EntryContinuesStep
<1>8. CASE /\ block.ok /\ at' = "field" /\ i' = block.i /\ bot' = b
           /\ UNCHANGED <<bots, dropped, truncated>>
  <2>1. IsBotList(bots') /\ IsBot(bot') /\ dropped' \in Nat /\ truncated' \in Nat
    BY <1>2, <1>3, <1>8
  <2>2. at' \in InList /\ Consumes(i, i')
    BY <1>5, <1>8 DEF InList
  <2> QED BY <1>1, <1>2, <2>1, <2>2, ListStep
<1>9. CASE PushBot(b, block.i) /\ bot' = bot
  <2>1. IsBot(bot')
    BY <1>2, <1>9
  <2> QED BY <1>1, <1>2, <1>3, <1>5, <1>9, <2>1, PushBotStep
<1> QED BY <1>1, <1>7, <1>8, <1>9

LEMMA BotFieldStep ==
    ASSUME ReaderInv, BotField
    PROVE  ReaderInv' /\ Goes
<1> DEFINE m == NextMember[i]
           r == CASE m.name \in {"name", "crosshair"} -> ReadString(m.i)
                  [] m.name \in {"steamid", "scoreboardFlair"} -> ReadUInt64(m.i)
                  [] m.name = "ping" -> ReadInt(m.i)
                  [] OTHER -> [i |-> m.i]
           b == IF m.name \in DOMAIN bot THEN [bot EXCEPT ![m.name] = r.value] ELSE bot
           next == AfterValue("}", r.i)
           n == IF m.more THEN next.i ELSE m.i
<1>1. /\ at = "field" /\ UNCHANGED <<disk, text, features, mapBlacklist, matched, fellBack>>
      /\ \/ /\ next.more /\ at' = at /\ i' = next.i /\ bot' = b
            /\ UNCHANGED <<bots, dropped, truncated>>
         \/ PushBot(b, n) /\ bot' = NoBot
  BY DEF BotField
<1>2. /\ IsText(text) /\ i \in Nat /\ at \in InList
      /\ IsBotList(bots) /\ IsBot(bot) /\ dropped \in Nat /\ truncated \in Nat
  BY <1>1 DEF ReaderInv, InList
<1>3. Forward(i, m.i) /\ m.i \in Nat
  BY <1>2, NextMemberForward DEF Forward
<1>4. Forward(m.i, r.i) /\ IsBot(b)
  <2> HIDE DEF m
  <2> DEFINE k == m.name
  <2>1. DOMAIN bot = {"name", "steamid", "ping"}
    BY <1>2 DEF IsBot, NoBot
  <2>2. b = bot \/ b = [bot EXCEPT ![k] = r.value]
    OBVIOUS
  <2>3. CASE k \in {"name", "crosshair"}
    <3>1. r = ReadString(m.i)
      BY <2>3
    <3> HIDE DEF r, b
    <3>2. Forward(m.i, r.i)
      BY <1>2, <1>3, <3>1, ReadStringForward
    <3> QED BY <1>2, <2>2, <2>3, <3>2, BotFieldType
  <2>4. CASE k \in {"steamid", "scoreboardFlair"}
    <3>1. r = ReadUInt64(m.i)
      BY <2>4
    <3> HIDE DEF r, b
    <3>2. Forward(m.i, r.i) /\ r.value \in 0 .. UInt64Range - 1
      BY <1>2, <1>3, <3>1, ReadUInt64Forward
    <3> QED BY <1>2, <2>2, <2>4, <3>2, BotFieldType
  <2>5. CASE k = "ping"
    <3>1. r = ReadInt(m.i)
      BY <2>5
    <3> HIDE DEF r, b
    <3>2. Forward(m.i, r.i) /\ IsInt(r.value)
      BY <1>2, <1>3, <3>1, ReadIntForward
    <3>3. b = bot \/ b = [bot EXCEPT !["ping"] = r.value]
      BY <2>2, <2>5
    <3>4. IsBot([bot EXCEPT !["ping"] = r.value])
      BY <1>2, <3>2, BotFieldType
    <3> QED BY <1>2, <3>2, <3>3, <3>4
  <2>6. CASE k \notin {"name", "crosshair", "steamid", "scoreboardFlair", "ping"}
    <3>1. r = [i |-> m.i]
      BY <2>6
    <3>2. r.i = m.i
      BY <3>1
    <3>3. k \notin DOMAIN bot
      BY <2>1, <2>6
    <3>4. b = bot
      BY <3>3
    <3> QED BY <1>2, <1>3, <3>2, <3>4 DEF Forward
  <2> QED BY <2>3, <2>4, <2>5, <2>6
<1> HIDE DEF m, r, b
<1>5. Forward(i, r.i) /\ r.i \in Nat
  BY <1>2, <1>3, <1>4, ForwardTransitive DEF Forward
<1>6. Forward(i, next.i) /\ (next.more => Consumes(i, next.i))
  <2>1. Forward(r.i, next.i) /\ (next.more => Consumes(r.i, next.i))
    BY <1>2, <1>5, AfterValueForward
  <2> HIDE DEF next
  <2> QED BY <1>2, <1>5, <2>1, ForwardTransitive, ConsumesTransitive
<1> HIDE DEF next
<1>7. Forward(i, n)
  BY <1>3, <1>6
<1> HIDE DEF n
<1>8. CASE /\ next.more /\ at' = at /\ i' = next.i /\ bot' = b
           /\ UNCHANGED <<bots, dropped, truncated>>
  <2>1. IsBotList(bots') /\ IsBot(bot') /\ dropped' \in Nat /\ truncated' \in Nat
    BY <1>2, <1>4, <1>8
  <2>2. at' \in InList /\ Consumes(i, i')
    BY <1>2, <1>6, <1>8
  <2> QED BY <1>1, <1>2, <2>1, <2>2, ListStep
<1>9. CASE PushBot(b, n) /\ bot' = NoBot
  <2>1. IsBot(bot')
    BY <1>9, NoBotIsBot
  <2> QED BY <1>1, <1>2, <1>4, <1>7, <1>9, <2>1, PushBotStep
<1> QED BY <1>1, <1>8, <1>9

-----------------------------------------------------------------------------
(* The theorems                                                            *)

LEMMA ReaderInit == Init => ReaderInv
<1> SUFFICES ASSUME Init
             PROVE  ReaderInv
  OBVIOUS
<1>1. ToSet(<<>>) = {} /\ <<>> \in Seq({}) /\ Len(<<>>) = 0
  BY DEF ToSet
<1>2. IsText(text)
  BY <1>1 DEF Init, IsText, ToSet
<1>3. IsBotList(bots)
  BY <1>1, ReaderAssumption DEF Init, IsBotList
<1>4. IsBot(bot)
  BY NoBotIsBot DEF Init
<1>5. features \in Features /\ features.voteTransactionHoldFrames \in 1 .. 32
  <2>1. 3 \in Int32 /\ 20 \in Int32
    BY ReaderAssumption DEF Int32, IsInt
  <2> QED BY <2>1 DEF Init, Features, DefaultFeatures
<1> QED BY <1>2, <1>3, <1>4, <1>5 DEF Init, ReaderInv

LEMMA ReaderStep ==
    ASSUME ReaderInv, Next
    PROVE  ReaderInv' /\ Goes
  BY OpenConfigStep, TopKeyStep, FeatureKeyStep, MapTokenStep, OpenCoreStep, CoreSettingStep,
     OpenListStep, ListEntryStep, BotKeyStep, BotFieldStep, FallBackStep DEF Next

LEMMA ReaderUnchanged == ReaderInv /\ UNCHANGED vars => ReaderInv'
  BY DEF ReaderInv, vars, IsText, IsBotList, IsBot, NoBot

(***************************************************************************)
(* Whatever the files hold, what is read of them has its types, the hold   *)
(* is between 1 and 32 frames from the end of config.json on, and the list *)
(* has no more bots than the pool has room for.                            *)
(***************************************************************************)
THEOREM ReaderTypeCorrect == Spec => []TypeOK
<1>1. ReaderInv /\ [Next]_vars => ReaderInv'
  BY ReaderStep, ReaderUnchanged
<1> QED BY <1>1, ReaderInit, ReaderInvTypes, PTL DEF Spec

(***************************************************************************)
(* Every iteration of every loop of the reader brings it closer to its     *)
(* end, however the files are cut short or malformed.                      *)
(***************************************************************************)
THEOREM EveryIterationAdvances == Spec => ReadingAdvances
<1>1. ReaderInv /\ [Next]_vars => ReaderInv'
  BY ReaderStep, ReaderUnchanged
<1>2. ReaderInv /\ [Next]_vars => [Advances]_vars
  BY ReaderStep DEF Goes
<1> QED BY <1>1, <1>2, ReaderInit, PTL DEF Spec, ReadingAdvances

=============================================================================
