----------------------------- MODULE ClockProofs -----------------------------
(***************************************************************************)
(* Proofs about Clock, for any timers, sleeping threads, durations and     *)
(* periods, and any length of a tick and of the driver's periods.          *)
(***************************************************************************)
EXTENDS Clock, PriQProofs

Nodes == [to : Timers \cup Sleeps, dticks : Nat, tick : Nat, due : Nat]

(* The nodes of a list.                                                   *)
LEMMA NodesOf ==
  ASSUME NEW l \in Seq(Nodes)
  PROVE  /\ Len(l) \in Nat
         /\ \A i \in 1 .. Len(l) :
              /\ l[i] \in Nodes /\ l[i].to \in Timers \cup Sleeps
              /\ l[i].dticks \in Nat /\ l[i].tick \in Nat /\ l[i].due \in Nat
<1>1. Len(l) \in Nat /\ \A i \in 1 .. Len(l) : l[i] \in Nodes
  OBVIOUS
<1>2. \A x \in Nodes : /\ x.to \in Timers \cup Sleeps /\ x.dticks \in Nat
                       /\ x.tick \in Nat /\ x.due \in Nat
  BY DEF Nodes
<1>3. QED
  BY <1>1, <1>2

-----------------------------------------------------------------------------
(* The sums of timeout_rem.  The recursive function behind Ticks exists:   *)
(* the least bound up to which none does would extend its predecessor's.   *)
SumsUpTo(f, n, l) == f = [i \in 0 .. n |-> IF i = 0 THEN 0 ELSE f[i - 1] + l[i].dticks]

(* Sums exist for every list.                                              *)
LEMMA SumsExist ==
  ASSUME NEW l \in Seq(Nodes)
  PROVE  \E f : SumsUpTo(f, Len(l), l)
<1> DEFINE Bad == {n \in 0 .. Len(l) : ~\E f : SumsUpTo(f, n, l)}
<1>0. Len(l) \in Nat
  OBVIOUS
<1>1. SUFFICES ASSUME Bad # {} PROVE FALSE
  BY <1>0
<1>2. PICK n \in Bad : \A y \in Bad : n <= y
  <2>1. Bad \subseteq Nat
    BY <1>0
  <2> HIDE DEF Bad
  <2>2. QED
    BY <1>1, <2>1, LeastNat
<1>3. CASE n = 0
  <2> DEFINE g == [i \in 0 .. 0 |-> 0]
  <2>1. SumsUpTo(g, 0, l)
    BY DEF SumsUpTo
  <2>2. QED
    BY <1>2, <1>3, <2>1
<1>4. CASE n # 0
  <2>1. n - 1 \in 0 .. Len(l) /\ n - 1 \notin Bad /\ n \in 1 .. Len(l)
    BY <1>0, <1>2, <1>4
  <2>2. PICK f : SumsUpTo(f, n - 1, l)
    BY <2>1
  <2> DEFINE g == [i \in 0 .. n |-> IF i < n THEN f[i] ELSE f[n - 1] + l[n].dticks]
  <2>3. \A i \in 0 .. n - 1 : f[i] = IF i = 0 THEN 0 ELSE f[i - 1] + l[i].dticks
    BY <2>2 DEF SumsUpTo
  <2>4. ASSUME NEW i \in 0 .. n
        PROVE  g[i] = IF i = 0 THEN 0 ELSE g[i - 1] + l[i].dticks
    <3>1. CASE i = n
      <4>1. g[i] = f[n - 1] + l[n].dticks /\ g[i - 1] = f[n - 1] /\ i # 0
        BY <1>4, <2>1, <3>1
      <4>2. QED
        BY <3>1, <4>1
    <3>2. CASE i # n /\ i # 0
      <4>1. i \in 0 .. n - 1 /\ g[i] = f[i] /\ g[i - 1] = f[i - 1]
        BY <2>1, <3>2
      <4>2. QED
        BY <2>3, <3>2, <4>1
    <3>3. CASE i = 0
      <4>1. i \in 0 .. n - 1 /\ g[i] = f[i]
        BY <1>4, <2>1, <3>3
      <4>2. QED
        BY <2>3, <3>3, <4>1
    <3>4. QED
      BY <3>1, <3>2, <3>3
  <2>5. g = [i \in 0 .. n |-> g[i]]
    OBVIOUS
  <2> HIDE DEF g
  <2>6. SumsUpTo(g, n, l)
    BY <2>4, <2>5 DEF SumsUpTo
  <2>7. QED
    BY <1>2, <2>6
<1>5. QED
  BY <1>3, <1>4

(* Ticks is the sum of the distances up to a node.                         *)
LEMMA TicksUnfold ==
  ASSUME NEW l \in Seq(Nodes)
  PROVE  /\ Ticks(l, 0) = 0
         /\ \A i \in 1 .. Len(l) : Ticks(l, i) = Ticks(l, i - 1) + l[i].dticks
<1> DEFINE f == CHOOSE g : SumsUpTo(g, Len(l), l)
<1>0. Len(l) \in Nat
  OBVIOUS
<1>1. SumsUpTo(f, Len(l), l)
  BY SumsExist
<1>2. \A i : Ticks(l, i) = f[i]
  BY DEF Ticks, SumsUpTo
<1> HIDE DEF f
<1>3. \A i \in 0 .. Len(l) : f[i] = IF i = 0 THEN 0 ELSE f[i - 1] + l[i].dticks
  BY <1>1 DEF SumsUpTo
<1>4. 0 \in 0 .. Len(l) /\ \A i \in 1 .. Len(l) : i \in 0 .. Len(l) /\ i # 0
  BY <1>0
<1>5. QED
  BY <1>2, <1>3, <1>4

(* Whatever adds up the distances one by one is what Ticks computes.       *)
LEMMA TicksAre ==
  ASSUME NEW l \in Seq(Nodes), NEW g, g[0] = 0,
         \A i \in 1 .. Len(l) : g[i] = g[i - 1] + l[i].dticks
  PROVE  \A i \in 0 .. Len(l) : Ticks(l, i) = g[i]
<1> DEFINE Bad == {i \in 0 .. Len(l) : Ticks(l, i) # g[i]}
<1>0. Len(l) \in Nat
  OBVIOUS
<1>1. SUFFICES ASSUME Bad # {} PROVE FALSE
  OBVIOUS
<1>2. PICK i \in Bad : \A y \in Bad : i <= y
  <2>1. Bad \subseteq Nat
    BY <1>0
  <2> HIDE DEF Bad
  <2>2. QED
    BY <1>1, <2>1, LeastNat
<1>3. i # 0
  BY <1>2, TicksUnfold
<1>4. i \in 1 .. Len(l) /\ i - 1 \in 0 .. Len(l) /\ i - 1 \notin Bad
  BY <1>0, <1>2, <1>3
<1>5. QED
  BY <1>2, <1>4, TicksUnfold

(* ... and a natural number.                                               *)
LEMMA TicksNat ==
  ASSUME NEW l \in Seq(Nodes)
  PROVE  \A i \in 0 .. Len(l) : Ticks(l, i) \in Nat
<1> DEFINE Bad == {i \in 0 .. Len(l) : Ticks(l, i) \notin Nat}
<1>0. Len(l) \in Nat /\ \A i \in 1 .. Len(l) : l[i].dticks \in Nat
  BY NodesOf
<1>1. SUFFICES ASSUME Bad # {} PROVE FALSE
  OBVIOUS
<1>2. PICK i \in Bad : \A y \in Bad : i <= y
  <2>1. Bad \subseteq Nat
    BY <1>0
  <2> HIDE DEF Bad
  <2>2. QED
    BY <1>1, <2>1, LeastNat
<1>3. i # 0
  BY <1>2, TicksUnfold
<1>4. i \in 1 .. Len(l) /\ i - 1 \in 0 .. Len(l) /\ i - 1 \notin Bad
  BY <1>0, <1>2, <1>3
<1>5. QED
  BY <1>0, <1>2, <1>4, TicksUnfold

(* Where the loop of z_add_timeout stops.                                  *)
LEMMA PlaceSpec ==
  ASSUME NEW l \in Seq(Nodes), NEW d \in Nat
  PROVE  /\ Place(l, d) \in 1 .. Len(l) + 1
         /\ Ticks(l, Place(l, d) - 1) <= d
         /\ Place(l, d) <= Len(l) => Ticks(l, Place(l, d)) > d
<1> DEFINE Out == {i \in 1 .. Len(l) : Ticks(l, i) > d}
           p == Place(l, d)
<1>0. Len(l) \in Nat /\ Ticks(l, 0) = 0 /\ \A i \in 0 .. Len(l) : Ticks(l, i) \in Nat
  BY TicksUnfold, TicksNat
<1>1. CASE Out = {}
  <2>1. p = Len(l) + 1
    BY <1>1 DEF Place
  <2>2. Len(l) \in 0 .. Len(l) /\ (Len(l) # 0 => Len(l) \in 1 .. Len(l))
    BY <1>0
  <2>3. Ticks(l, Len(l)) <= d
    BY <1>0, <1>1, <2>2
  <2>4. p - 1 = Len(l)
    BY <1>0, <2>1
  <2>5. QED
    BY <1>0, <2>1, <2>3, <2>4
<1>2. CASE Out # {}
  <2>1. Out \subseteq Nat
    BY <1>0
  <2>2. PICK x \in Out : \A y \in Out : x <= y
    BY <1>2, <2>1, LeastNat
  <2> DEFINE Stop(i) == /\ Ticks(l, i) > d
                        /\ \A j \in 1 .. (i - 1) : Ticks(l, j) <= d
             q == CHOOSE i \in 1 .. Len(l) : Stop(i)
  <2>3. x \in 1 .. Len(l) /\ Stop(x)
    <3>1. x \in 1 .. Len(l) /\ Ticks(l, x) > d
      BY <2>2
    <3>2. ASSUME NEW j \in 1 .. (x - 1) PROVE Ticks(l, j) <= d
      <4>1. j \in 1 .. Len(l) /\ j \in 0 .. Len(l) /\ j < x
        BY <1>0, <3>1
      <4>2. j \notin Out /\ Ticks(l, j) \in Nat
        BY <1>0, <2>2, <4>1
      <4>3. QED
        BY <4>1, <4>2
    <3>3. QED
      BY <3>1, <3>2
  <2>4. q \in 1 .. Len(l) /\ Stop(q)
    BY <2>3
  <2>5. p = q
    BY <2>3 DEF Place
  <2> HIDE DEF q, p
  <2>6. q - 1 = 0 \/ q - 1 \in 1 .. (q - 1)
    BY <1>0, <2>4
  <2>7. Ticks(l, q - 1) <= d
    BY <1>0, <2>4, <2>6
  <2>8. QED
    BY <1>0, <2>4, <2>5, <2>7 DEF p
<1>3. QED
  BY <1>1, <1>2

(* The same timeout, at whatever distance.                                 *)
Same(a, b) == a.to = b.to /\ a.tick = b.tick /\ a.due = b.due

(* n is l with node linked in at p: every other timeout keeps its time.    *)
LinkedIn(n, l, node, p) ==
  /\ n \in Seq(Nodes) /\ Len(n) = Len(l) + 1 /\ p \in 1 .. Len(l) + 1
  /\ \A i \in 1 .. p - 1 : n[i] = l[i] /\ Ticks(n, i) = Ticks(l, i)
  /\ Same(n[p], node) /\ Ticks(n, p) = node.dticks
  /\ \A i \in p + 1 .. Len(l) + 1 : Same(n[i], l[i - 1]) /\ Ticks(n, i) = Ticks(l, i - 1)

(* Insert is the loop and sys_dlist_insert of z_add_timeout.               *)
LEMMA InsertSpec ==
  ASSUME NEW l \in Seq(Nodes), NEW node \in Nodes
  PROVE  LinkedIn(Insert(l, node), l, node, Place(l, node.dticks))
<1> DEFINE p == Place(l, node.dticks)
           rest == node.dticks - Ticks(l, p - 1)
           n == Insert(l, node)
           L == Len(l)
<1>0. L \in Nat /\ Ticks(l, 0) = 0 /\ \A i \in 0 .. L : Ticks(l, i) \in Nat
  BY TicksUnfold, TicksNat
<1>1. /\ node.dticks \in Nat /\ node.to \in Timers \cup Sleeps
      /\ node.tick \in Nat /\ node.due \in Nat
  BY DEF Nodes
<1>2. p \in 1 .. L + 1 /\ Ticks(l, p - 1) <= node.dticks /\ (p <= L => Ticks(l, p) > node.dticks)
  BY <1>1, PlaceSpec
<1>3. \A i \in 1 .. L : Ticks(l, i) = Ticks(l, i - 1) + l[i].dticks /\ l[i] \in Nodes
  BY TicksUnfold, NodesOf
<1>4. n = [i \in 1 .. L + 1 |->
             CASE i < p -> l[i]
               [] i = p -> [node EXCEPT !.dticks = rest]
               [] i = p + 1 -> [l[p] EXCEPT !.dticks = @ - rest]
               [] OTHER -> l[i - 1]]
  BY DEF Insert
<1>5. p - 1 \in 0 .. L /\ rest \in Nat
  BY <1>0, <1>1, <1>2
<1>6. p <= L => l[p].dticks - rest \in Nat
  <2>1. SUFFICES ASSUME p <= L PROVE l[p].dticks - rest \in Nat
    OBVIOUS
  <2>2. p \in 1 .. L /\ p \in 0 .. L
    BY <1>0, <1>2, <2>1
  <2>3. Ticks(l, p) = Ticks(l, p - 1) + l[p].dticks /\ l[p].dticks \in Nat
    BY <1>3, <2>2, NodesOf
  <2>4. Ticks(l, p) \in Nat /\ Ticks(l, p - 1) \in Nat
    BY <1>0, <1>5, <2>2
  <2> HIDE DEF p
  <2>5. QED
    BY <1>1, <1>2, <2>1, <2>3, <2>4, SMTT(30)
<1> HIDE DEF p, rest, n, L
<1>7. /\ \A i \in 1 .. p - 1 : n[i] = l[i]
      /\ n[p] = [node EXCEPT !.dticks = rest]
      /\ p <= L => n[p + 1] = [l[p] EXCEPT !.dticks = @ - rest]
      /\ \A i \in p + 2 .. L + 1 : n[i] = l[i - 1]
  BY <1>0, <1>2, <1>4, SMTT(30)
<1>8. /\ n[p] \in Nodes /\ Same(n[p], node) /\ n[p].dticks = rest
      /\ p <= L => n[p + 1] \in Nodes /\ Same(n[p + 1], l[p]) /\ n[p + 1].dticks = l[p].dticks - rest
  <2>1. n[p] \in Nodes /\ Same(n[p], node) /\ n[p].dticks = rest
    BY <1>5, <1>7 DEF Nodes, Same
  <2>2. ASSUME p <= L
        PROVE  n[p + 1] \in Nodes /\ Same(n[p + 1], l[p]) /\ n[p + 1].dticks = l[p].dticks - rest
    <3>1. l[p] \in Nodes
      BY <1>0, <1>2, <1>3, <2>2
    <3>2. QED
      BY <1>6, <1>7, <2>2, <3>1 DEF Nodes, Same
  <2>3. QED
    BY <2>1, <2>2
<1>9. n \in Seq(Nodes) /\ Len(n) = L + 1
  <2>1. ASSUME NEW i \in 1 .. L + 1 PROVE n[i] \in Nodes
    <3>1. CASE i < p
      <4>1. i \in 1 .. p - 1 /\ i \in 1 .. L
        BY <1>0, <1>2, <3>1
      <4>2. QED
        BY <1>3, <1>7, <4>1
    <3>2. CASE i = p
      BY <1>8, <3>2
    <3>3. CASE i = p + 1
      <4>1. p <= L
        BY <1>0, <1>2, <3>3
      <4>2. QED
        BY <1>8, <3>3, <4>1
    <3>4. CASE i > p + 1
      <4>1. i \in p + 2 .. L + 1 /\ i - 1 \in 1 .. L
        BY <1>0, <1>2, <3>4
      <4>2. QED
        BY <1>3, <1>7, <4>1
    <3>5. QED
      BY <1>0, <1>2, <3>1, <3>2, <3>3, <3>4
  <2>2. n = [i \in 1 .. L + 1 |-> n[i]]
    BY <1>4
  <2>3. QED
    BY <1>0, <2>1, <2>2
<1> DEFINE g == [i \in 0 .. L + 1 |-> IF i < p THEN Ticks(l, i)
                                    ELSE IF i = p THEN node.dticks ELSE Ticks(l, i - 1)]
<1>10. \A i \in 0 .. L + 1 : g[i] = IF i < p THEN Ticks(l, i)
                                    ELSE IF i = p THEN node.dticks ELSE Ticks(l, i - 1)
  OBVIOUS
<1> HIDE DEF g
<1>11. g[0] = 0
  BY <1>0, <1>2, <1>10
<1>12. ASSUME NEW i \in 1 .. Len(n) PROVE g[i] = g[i - 1] + n[i].dticks
  <2>1. i \in 1 .. L + 1 /\ i \in 0 .. L + 1 /\ i - 1 \in 0 .. L + 1
    BY <1>0, <1>9
  <2>2. CASE i < p
    <3>1. i \in 1 .. p - 1 /\ i \in 1 .. L /\ i - 1 < p
      BY <1>0, <1>2, <2>1, <2>2
    <3>2. g[i] = Ticks(l, i) /\ g[i - 1] = Ticks(l, i - 1) /\ n[i] = l[i]
      BY <1>7, <1>10, <2>1, <2>2, <3>1
    <3>3. QED
      BY <1>3, <3>1, <3>2
  <2>3. CASE i = p
    <3>1. g[i] = node.dticks /\ g[i - 1] = Ticks(l, p - 1) /\ n[i].dticks = rest
      BY <1>0, <1>2, <1>8, <1>10, <2>1, <2>3
    <3>2. Ticks(l, p - 1) \in Nat
      BY <1>0, <1>5
    <3>3. QED
      BY <1>1, <3>1, <3>2 DEF rest
  <2>4. CASE i = p + 1
    <3>1. p <= L /\ p \in 1 .. L /\ i - 1 = p
      BY <1>0, <1>2, <2>1, <2>4
    <3>2. ~(i < p) /\ i # p /\ ~(i - 1 < p)
      BY <1>2, <2>4
    <3>3. g[i] = Ticks(l, p) /\ g[i - 1] = node.dticks /\ n[i].dticks = l[p].dticks - rest
      BY <1>8, <1>10, <2>1, <2>4, <3>1, <3>2
    <3>4. Ticks(l, p) = Ticks(l, p - 1) + l[p].dticks /\ Ticks(l, p - 1) \in Nat /\ l[p].dticks \in Nat
      BY <1>0, <1>3, <1>5, <3>1, NodesOf DEF L
    <3>5. QED
      BY <1>1, <3>3, <3>4 DEF rest
  <2>5. CASE i > p + 1
    <3>1. i \in p + 2 .. L + 1 /\ i - 1 \in 1 .. L
      BY <1>0, <1>2, <2>1, <2>5
    <3>2. ~(i < p) /\ i # p /\ ~(i - 1 < p) /\ i - 1 # p
      BY <1>2, <2>1, <2>5
    <3>3. g[i] = Ticks(l, i - 1) /\ g[i - 1] = Ticks(l, (i - 1) - 1) /\ n[i] = l[i - 1]
      BY <1>7, <1>10, <2>1, <3>1, <3>2
    <3>4. QED
      BY <1>3, <3>1, <3>3
  <2>6. QED
    BY <1>0, <1>2, <2>1, <2>2, <2>3, <2>4, <2>5
<1>13. \A i \in 0 .. Len(n) : Ticks(n, i) = g[i]
  BY <1>9, <1>11, <1>12, TicksAre
<1>14. /\ \A i \in 1 .. p - 1 : n[i] = l[i] /\ Ticks(n, i) = Ticks(l, i)
       /\ Ticks(n, p) = node.dticks
       /\ \A i \in p + 1 .. L + 1 : Ticks(n, i) = Ticks(l, i - 1)
  <2>1. \A i \in 0 .. L + 1 : Ticks(n, i) = g[i]
    BY <1>9, <1>13
  <2>2. ASSUME NEW i \in 1 .. p - 1 PROVE Ticks(n, i) = Ticks(l, i)
    <3>1. i \in 0 .. L + 1 /\ i < p
      BY <1>0, <1>2
    <3>2. QED
      BY <1>10, <2>1, <3>1
  <2>3. p \in 0 .. L + 1 /\ ~(p < p)
    BY <1>0, <1>2
  <2>4. ASSUME NEW i \in p + 1 .. L + 1 PROVE Ticks(n, i) = Ticks(l, i - 1)
    <3>1. i \in 0 .. L + 1 /\ ~(i < p) /\ i # p
      BY <1>0, <1>2
    <3>2. QED
      BY <1>10, <2>1, <3>1
  <2>5. QED
    BY <1>7, <1>10, <2>1, <2>2, <2>3, <2>4
<1>15. ASSUME NEW i \in p + 1 .. L + 1 PROVE Same(n[i], l[i - 1])
  <2>1. CASE i = p + 1
    BY <1>0, <1>2, <1>8, <2>1
  <2>2. CASE i > p + 1
    <3>1. i \in p + 2 .. L + 1
      BY <1>0, <1>2, <2>2
    <3>2. QED
      BY <1>7, <3>1 DEF Same
  <2>3. QED
    BY <1>0, <1>2, <2>1, <2>2
<1>16. LinkedIn(n, l, node, p)
  BY <1>2, <1>8, <1>9, <1>14, <1>15 DEF LinkedIn, L
<1>17. QED
  BY <1>16 DEF n, p

(* n is l without the node at p: every other timeout keeps its time.       *)
LinkedOut(n, l, p) ==
  /\ n \in Seq(Nodes) /\ Len(n) = Len(l) - 1 /\ p \in 1 .. Len(l)
  /\ \A i \in 1 .. p - 1 : n[i] = l[i] /\ Ticks(n, i) = Ticks(l, i)
  /\ \A i \in p .. Len(l) - 1 : Same(n[i], l[i + 1]) /\ Ticks(n, i) = Ticks(l, i + 1)

(* A linked timeout is where Index says.                                   *)
LEMMA IndexSpec ==
  ASSUME NEW l \in Seq(Nodes), NEW to \in Linked(l)
  PROVE  Index(l, to) \in 1 .. Len(l) /\ l[Index(l, to)].to = to
BY DEF Linked, Index

(* remove_timeout leaves every other timeout its time.                     *)
LEMMA UnlinkSpec ==
  ASSUME NEW l \in Seq(Nodes), NEW to \in Linked(l)
  PROVE  LinkedOut(remove_timeout(l, to), l, Index(l, to))
<1> DEFINE p == Index(l, to)
           n == remove_timeout(l, to)
           L == Len(l)
<1>0. L \in Nat /\ Ticks(l, 0) = 0 /\ \A i \in 0 .. L : Ticks(l, i) \in Nat
  BY TicksUnfold, TicksNat
<1>2. p \in 1 .. L
  BY IndexSpec
<1>3. \A i \in 1 .. L : /\ Ticks(l, i) = Ticks(l, i - 1) + l[i].dticks
                        /\ l[i] \in Nodes /\ l[i].dticks \in Nat
  BY TicksUnfold, NodesOf
<1>4. n = [i \in 1 .. L - 1 |->
             CASE i < p -> l[i]
               [] i = p -> [l[p + 1] EXCEPT !.dticks = @ + l[p].dticks]
               [] OTHER -> l[i + 1]]
  BY DEF remove_timeout
<1> HIDE DEF p, n, L
<1>7. /\ \A i \in 1 .. p - 1 : n[i] = l[i]
      /\ p <= L - 1 => n[p] = [l[p + 1] EXCEPT !.dticks = @ + l[p].dticks]
      /\ \A i \in p + 1 .. L - 1 : n[i] = l[i + 1]
  <2>1. ASSUME NEW i \in 1 .. p - 1 PROVE n[i] = l[i]
    <3>1. i \in 1 .. L - 1 /\ i < p
      BY <1>0, <1>2
    <3>2. QED
      BY <1>4, <3>1
  <2>2. ASSUME p <= L - 1 PROVE n[p] = [l[p + 1] EXCEPT !.dticks = @ + l[p].dticks]
    <3>1. p \in 1 .. L - 1 /\ ~(p < p)
      BY <1>0, <1>2, <2>2
    <3>2. QED
      BY <1>4, <3>1
  <2>3. ASSUME NEW i \in p + 1 .. L - 1 PROVE n[i] = l[i + 1]
    <3>1. i \in 1 .. L - 1 /\ ~(i < p) /\ i # p
      BY <1>0, <1>2
    <3>2. QED
      BY <1>4, <3>1
  <2>4. QED
    BY <2>1, <2>2, <2>3
<1>8. ASSUME p <= L - 1
      PROVE  n[p] \in Nodes /\ Same(n[p], l[p + 1]) /\ n[p].dticks = l[p + 1].dticks + l[p].dticks
  <2>1. l[p + 1] \in Nodes /\ l[p].dticks \in Nat
    BY <1>0, <1>2, <1>3, <1>8, SMTT(30)
  <2> DEFINE a == l[p + 1]
             d == l[p].dticks
  <2>2. n[p] = [a EXCEPT !.dticks = @ + d] /\ a \in Nodes /\ d \in Nat
    BY <1>7, <1>8, <2>1
  <2> HIDE DEF a, d
  <2>5. a.dticks + d \in Nat
    BY <2>2 DEF Nodes
  <2>3. n[p] \in Nodes /\ Same(n[p], a) /\ n[p].dticks = a.dticks + d
    BY <2>2, <2>5 DEF Nodes, Same
  <2>4. QED
    BY <2>3 DEF a, d
<1>9. n \in Seq(Nodes) /\ Len(n) = L - 1
  <2>1. ASSUME NEW i \in 1 .. L - 1 PROVE n[i] \in Nodes
    <3>1. CASE i < p
      <4>1. i \in 1 .. p - 1 /\ i \in 1 .. L
        BY <1>0, <1>2, <3>1
      <4>2. QED
        BY <1>3, <1>7, <4>1
    <3>2. CASE i = p
      BY <1>0, <1>8, <3>2
    <3>3. CASE i > p
      <4>1. i \in p + 1 .. L - 1 /\ i + 1 \in 1 .. L
        BY <1>0, <1>2, <3>3
      <4>2. QED
        BY <1>3, <1>7, <4>1
    <3>4. QED
      BY <1>0, <1>2, <3>1, <3>2, <3>3
  <2>2. n = [i \in 1 .. L - 1 |-> n[i]]
    BY <1>4
  <2>3. L - 1 \in Nat
    BY <1>0, <1>2
  <2>4. QED
    BY <2>1, <2>2, <2>3
<1> DEFINE g == [i \in 0 .. L - 1 |-> IF i < p THEN Ticks(l, i) ELSE Ticks(l, i + 1)]
<1>10. \A i \in 0 .. L - 1 : g[i] = IF i < p THEN Ticks(l, i) ELSE Ticks(l, i + 1)
  OBVIOUS
<1> HIDE DEF g
<1>11. g[0] = 0
  BY <1>0, <1>2, <1>10
<1>12. ASSUME NEW i \in 1 .. Len(n) PROVE g[i] = g[i - 1] + n[i].dticks
  <2>1. i \in 1 .. L - 1 /\ i \in 0 .. L - 1 /\ i - 1 \in 0 .. L - 1
    BY <1>0, <1>9
  <2>2. CASE i < p
    <3>1. i \in 1 .. p - 1 /\ i \in 1 .. L /\ i - 1 < p
      BY <1>0, <1>2, <2>1, <2>2
    <3>2. g[i] = Ticks(l, i) /\ g[i - 1] = Ticks(l, i - 1) /\ n[i] = l[i]
      BY <1>7, <1>10, <2>1, <2>2, <3>1
    <3>3. QED
      BY <1>3, <3>1, <3>2
  <2>3. CASE i = p
    <3>1. p <= L - 1 /\ p \in 1 .. L /\ p + 1 \in 1 .. L /\ i - 1 < p /\ ~(i < p)
      BY <1>0, <1>2, <2>1, <2>3
    <3>2. g[i] = Ticks(l, p + 1) /\ g[i - 1] = Ticks(l, p - 1) /\ n[i].dticks = l[p + 1].dticks + l[p].dticks
      BY <1>8, <1>10, <2>1, <2>3, <3>1
    <3>3. Ticks(l, p + 1) = Ticks(l, p + 1 - 1) + l[p + 1].dticks /\ p + 1 - 1 = p
      BY <1>2, <1>3, <3>1
    <3>4. Ticks(l, p) = Ticks(l, p - 1) + l[p].dticks
      BY <1>3, <3>1
    <3>5. Ticks(l, p - 1) \in Nat /\ l[p].dticks \in Nat /\ l[p + 1].dticks \in Nat
      BY <1>0, <1>2, <1>3, <3>1
    <3>6. QED
      BY <3>2, <3>3, <3>4, <3>5
  <2>4. CASE i > p
    <3>1. i \in p + 1 .. L - 1 /\ i + 1 \in 1 .. L
      BY <1>0, <1>2, <2>1, <2>4
    <3>2. ~(i < p) /\ i # p /\ ~(i - 1 < p) /\ i - 1 + 1 = i /\ i + 1 - 1 = i
      BY <1>2, <2>1, <2>4
    <3>3. g[i] = Ticks(l, i + 1) /\ g[i - 1] = Ticks(l, i) /\ n[i] = l[i + 1]
      BY <1>7, <1>10, <2>1, <3>1, <3>2
    <3>4. Ticks(l, i + 1) = Ticks(l, i + 1 - 1) + l[i + 1].dticks
      BY <1>3, <3>1
    <3>5. QED
      BY <3>2, <3>3, <3>4
  <2>5. QED
    BY <1>0, <1>2, <2>1, <2>2, <2>3, <2>4
<1>13. \A i \in 0 .. Len(n) : Ticks(n, i) = g[i]
  BY <1>9, <1>11, <1>12, TicksAre
<1>14. ASSUME NEW i \in 1 .. p - 1 PROVE n[i] = l[i] /\ Ticks(n, i) = Ticks(l, i)
  <2>1. i \in 0 .. L - 1 /\ i < p
    BY <1>0, <1>2
  <2>2. QED
    BY <1>7, <1>9, <1>10, <1>13, <2>1
<1>15. ASSUME NEW i \in p .. L - 1 PROVE Same(n[i], l[i + 1]) /\ Ticks(n, i) = Ticks(l, i + 1)
  <2>1. i \in 0 .. L - 1 /\ ~(i < p)
    BY <1>0, <1>2
  <2>2. Ticks(n, i) = Ticks(l, i + 1)
    BY <1>9, <1>10, <1>13, <2>1
  <2>3. CASE i = p
    BY <1>0, <1>8, <2>2, <2>3
  <2>4. CASE i > p
    <3>1. i \in p + 1 .. L - 1
      BY <1>0, <1>2, <2>4
    <3>2. QED
      BY <1>7, <2>2, <3>1 DEF Same
  <2>5. QED
    BY <1>0, <1>2, <2>3, <2>4
<1>16. LinkedOut(n, l, p)
  BY <1>2, <1>9, <1>14, <1>15 DEF LinkedOut, L
<1>17. QED
  BY <1>16 DEF n, p

(* sys_clock_announce: the first timeout is unlinked and its distance      *)
(* passes; or, at the end, the ticks that remain come off the first one.   *)
LEMMA TailSpec ==
  ASSUME NEW l \in Seq(Nodes), l # <<>>
  PROVE  /\ Tail(l) \in Seq(Nodes) /\ Len(Tail(l)) = Len(l) - 1 /\ Ticks(l, 1) = l[1].dticks
         /\ \A i \in 1 .. Len(l) - 1 : /\ Tail(l)[i] = l[i + 1]
                                       /\ Ticks(Tail(l), i) = Ticks(l, i + 1) - l[1].dticks
<1> DEFINE n == Tail(l)
           L == Len(l)
<1>0. L \in Nat \ {0} /\ Ticks(l, 0) = 0 /\ \A i \in 0 .. L : Ticks(l, i) \in Nat
  BY TicksUnfold, TicksNat
<1>1. n \in Seq(Nodes) /\ Len(n) = L - 1 /\ \A i \in 1 .. L - 1 : n[i] = l[i + 1]
  OBVIOUS
<1>3. \A i \in 1 .. L : Ticks(l, i) = Ticks(l, i - 1) + l[i].dticks /\ l[i].dticks \in Nat
  BY TicksUnfold, NodesOf
<1> HIDE DEF n, L
<1> DEFINE g == [i \in 0 .. L - 1 |-> Ticks(l, i + 1) - l[1].dticks]
<1>4. \A i \in 0 .. L - 1 : g[i] = Ticks(l, i + 1) - l[1].dticks
  OBVIOUS
<1> HIDE DEF g
<1>5. Ticks(l, 1) = l[1].dticks
  <2>1. 1 \in 1 .. L /\ 1 - 1 = 0
    BY <1>0
  <2>2. QED
    BY <1>0, <1>3, <2>1
<1>6. g[0] = 0
  <2>1. 0 \in 0 .. L - 1 /\ 0 + 1 = 1 /\ 1 \in 1 .. L
    BY <1>0
  <2>2. QED
    BY <1>3, <1>4, <1>5, <2>1
<1>7. ASSUME NEW i \in 1 .. Len(n) PROVE g[i] = g[i - 1] + n[i].dticks
  <2>1. /\ i \in 1 .. L - 1 /\ i \in 0 .. L - 1 /\ i - 1 \in 0 .. L - 1 /\ i + 1 \in 1 .. L
        /\ i - 1 + 1 = i /\ i + 1 - 1 = i /\ i \in 0 .. L /\ 1 \in 1 .. L
    BY <1>0, <1>1
  <2>2. /\ g[i] = Ticks(l, i + 1) - l[1].dticks /\ g[i - 1] = Ticks(l, i) - l[1].dticks
        /\ n[i] = l[i + 1]
    BY <1>1, <1>4, <2>1
  <2>3. /\ Ticks(l, i + 1) = Ticks(l, i) + l[i + 1].dticks /\ Ticks(l, i) \in Nat
        /\ l[i + 1].dticks \in Nat /\ l[1].dticks \in Nat
    BY <1>0, <1>3, <2>1
  <2>4. QED
    BY <2>2, <2>3
<1>8. \A i \in 0 .. Len(n) : Ticks(n, i) = g[i]
  BY <1>1, <1>6, <1>7, TicksAre
<1>9. ASSUME NEW i \in 1 .. L - 1 PROVE Ticks(n, i) = Ticks(l, i + 1) - l[1].dticks
  <2>1. i \in 0 .. L - 1 /\ i \in 0 .. Len(n)
    BY <1>0, <1>1
  <2>2. QED
    BY <1>4, <1>8, <2>1
<1>10. QED
  BY <1>1, <1>5, <1>9 DEF n, L

Less(n, l, r) == n = [l EXCEPT ![1].dticks = @ - r]

(* Taking r ticks off the first node brings all nodes nearer by r.         *)
LEMMA LessSpec ==
  ASSUME NEW l \in Seq(Nodes), l # <<>>, NEW r \in Nat, r <= l[1].dticks, NEW n, Less(n, l, r)
  PROVE  /\ n \in Seq(Nodes) /\ Len(n) = Len(l) /\ n[1].dticks = l[1].dticks - r
         /\ \A i \in 1 .. Len(l) : Same(n[i], l[i]) /\ Ticks(n, i) = Ticks(l, i) - r
<1> DEFINE L == Len(l)
<1>0. L \in Nat \ {0} /\ Ticks(l, 0) = 0 /\ \A i \in 0 .. L : Ticks(l, i) \in Nat
  BY TicksUnfold, TicksNat
<1>1. DOMAIN l = 1 .. L /\ \A i \in 1 .. L : l[i] \in Nodes /\ l[i].dticks \in Nat
  BY NodesOf
<1>3. \A i \in 1 .. L : Ticks(l, i) = Ticks(l, i - 1) + l[i].dticks
  BY TicksUnfold
<1> HIDE DEF L
<1>4. 1 \in 1 .. L /\ l[1] \in Nodes /\ l[1].dticks - r \in Nat
  BY <1>0, <1>1
<1>5. /\ n = [i \in 1 .. L |-> n[i]]
      /\ n[1] = [l[1] EXCEPT !.dticks = @ - r]
      /\ \A i \in 1 .. L : i # 1 => n[i] = l[i]
  BY <1>1, <1>4 DEF Less
<1>6. n[1] \in Nodes /\ Same(n[1], l[1]) /\ n[1].dticks = l[1].dticks - r
  BY <1>4, <1>5 DEF Nodes, Same
<1>7. n \in Seq(Nodes) /\ Len(n) = L
  <2>1. \A i \in 1 .. L : n[i] \in Nodes
    BY <1>1, <1>5, <1>6
  <2>2. QED
    BY <1>0, <1>5, <2>1, SMTT(30)
<1> DEFINE g == [i \in 0 .. L |-> IF i = 0 THEN 0 ELSE Ticks(l, i) - r]
<1>8. \A i \in 0 .. L : g[i] = IF i = 0 THEN 0 ELSE Ticks(l, i) - r
  OBVIOUS
<1> HIDE DEF g
<1>9. g[0] = 0
  BY <1>0, <1>8
<1>10. ASSUME NEW i \in 1 .. Len(n) PROVE g[i] = g[i - 1] + n[i].dticks
  <2>1. i \in 1 .. L /\ i \in 0 .. L /\ i # 0 /\ i - 1 \in 0 .. L
    BY <1>0, <1>7
  <2>2. Ticks(l, i) = Ticks(l, i - 1) + l[i].dticks /\ Ticks(l, i - 1) \in Nat /\ l[i].dticks \in Nat
    BY <1>0, <1>1, <1>3, <2>1
  <2>3. g[i] = Ticks(l, i) - r
    BY <1>8, <2>1
  <2>4. CASE i = 1
    <3>1. g[i - 1] = 0 /\ n[i].dticks = l[i].dticks - r /\ Ticks(l, i - 1) = 0
      BY <1>0, <1>6, <1>9, <2>4
    <3>2. QED
      BY <2>2, <2>3, <3>1
  <2>5. CASE i # 1
    <3>1. g[i - 1] = Ticks(l, i - 1) - r /\ n[i] = l[i]
      BY <1>5, <1>8, <2>1, <2>5
    <3> DEFINE a == Ticks(l, i - 1)
               b == l[i].dticks
    <3>2. g[i] = (a + b) - r /\ g[i - 1] = a - r /\ n[i].dticks = b /\ a \in Nat /\ b \in Nat
      <4>1. n[i].dticks = b
        BY <3>1, Zenon
      <4>2. a \in Nat /\ b \in Nat
        BY <2>2, Zenon
      <4>3. g[i - 1] = a - r
        BY <3>1, Zenon
      <4>4. Ticks(l, i) = a + b
        BY <2>2, Zenon
      <4>5. g[i] = (a + b) - r
        BY <2>3, <4>4, Zenon
      <4>6. QED
        BY <4>1, <4>2, <4>3, <4>5, Zenon
    <3> HIDE DEF a, b
    <3>3. (a + b) - r = (a - r) + b
      BY <3>2
    <3>4. QED
      BY <3>2, <3>3, Zenon
  <2>6. QED
    BY <2>4, <2>5
<1>11. \A i \in 0 .. Len(n) : Ticks(n, i) = g[i]
  BY <1>7, <1>9, <1>10, TicksAre
<1>12. ASSUME NEW i \in 1 .. L PROVE Same(n[i], l[i]) /\ Ticks(n, i) = Ticks(l, i) - r
  <2>1. i \in 0 .. L /\ i # 0 /\ i \in 0 .. Len(n)
    BY <1>0, <1>7
  <2>2. Same(n[i], l[i])
    BY <1>5, <1>6 DEF Same
  <2>3. QED
    BY <1>8, <1>11, <2>1, <2>2
<1>13. QED
  BY <1>6, <1>7, <1>12 DEF L

-----------------------------------------------------------------------------
(* A list that is in order at tick t: no timeout is linked twice, and the  *)
(* distances add up to the tick each is set for.  Asked: that tick is not  *)
(* before the cycle the caller asked for.                                  *)
Unique(l) == \A i, j \in 1 .. Len(l) : l[i].to = l[j].to => i = j
Dated(l, t) == \A i \in 1 .. Len(l) : t + Ticks(l, i) = l[i].tick
Asked(l) == \A i \in 1 .. Len(l) : l[i].due <= l[i].tick * CYC_PER_TICK
ListOK(l, t) == l \in Seq(Nodes) /\ Unique(l) /\ Dated(l, t)

(* timeout_rem of a timeout is the sum up to its node.                     *)
LEMMA RemOf ==
  ASSUME NEW l \in Seq(Nodes), Unique(l), NEW i \in 1 .. Len(l)
  PROVE  timeout_rem(l, l[i].to) = Ticks(l, i)
<1>1. l[i].to \in Linked(l)
  BY DEF Linked
<1>2. Index(l, l[i].to) = i
  BY <1>1, IndexSpec DEF Unique
<1>3. QED
  BY <1>2 DEF timeout_rem

(* An insertion into a list in order, at tick t.                           *)
LEMMA AddKeeps ==
  ASSUME NEW t \in Nat, NEW l, ListOK(l, t), NEW node \in Nodes, node.to \notin Linked(l),
         node.tick = t + node.dticks, NEW n, n = Insert(l, node)
  PROVE  /\ ListOK(n, t) /\ n # <<>> /\ Linked(n) = Linked(l) \cup {node.to}
         /\ timeout_rem(n, node.to) = node.dticks
         /\ Asked(l) /\ node.due <= node.tick * CYC_PER_TICK => Asked(n)
         /\ n[1].to = node.to => n[1].dticks = node.dticks
         /\ n[1].to # node.to => l # <<>> /\ n[1] = l[1]
<1> DEFINE p == Place(l, node.dticks)
           L == Len(l)
<1>0. l \in Seq(Nodes) /\ Unique(l) /\ Dated(l, t)
  BY DEF ListOK
<1>1. LinkedIn(n, l, node, p)
  BY <1>0, InsertSpec
<1>2. L \in Nat
  BY <1>0
<1> HIDE DEF p, L
<1>3. /\ n \in Seq(Nodes) /\ Len(n) = L + 1 /\ p \in 1 .. L + 1
      /\ \A i \in 1 .. p - 1 : n[i] = l[i] /\ Ticks(n, i) = Ticks(l, i)
      /\ Same(n[p], node) /\ Ticks(n, p) = node.dticks
      /\ \A i \in p + 1 .. L + 1 : Same(n[i], l[i - 1]) /\ Ticks(n, i) = Ticks(l, i - 1)
  BY <1>1 DEF LinkedIn, L
<1> DEFINE old(i) == IF i < p THEN i ELSE i - 1
<1>4. ASSUME NEW i \in 1 .. L + 1, i # p
      PROVE  old(i) \in 1 .. L /\ Same(n[i], l[old(i)]) /\ Ticks(n, i) = Ticks(l, old(i))
  <2>1. CASE i < p
    <3>1. i \in 1 .. p - 1 /\ i \in 1 .. L /\ old(i) = i
      BY <1>2, <1>3, <2>1
    <3> HIDE DEF old
    <3>2. QED
      BY <1>3, <3>1 DEF Same
  <2>2. CASE i > p
    <3>1. i \in p + 1 .. L + 1 /\ i - 1 \in 1 .. L /\ old(i) = i - 1
      BY <1>2, <1>3, <2>2
    <3> HIDE DEF old
    <3>2. QED
      BY <1>3, <3>1
  <2>3. QED
    BY <1>2, <1>3, <1>4, <2>1, <2>2
<1>5. \A i, j \in 1 .. L + 1 : i # p /\ j # p /\ old(i) = old(j) => i = j
  BY <1>2, <1>3
<1> HIDE DEF old
<1>6. Linked(n) = Linked(l) \cup {node.to}
  <2>1. ASSUME NEW x \in Linked(n) PROVE x \in Linked(l) \cup {node.to}
    <3>1. PICK i \in 1 .. L + 1 : x = n[i].to
      BY <1>3 DEF Linked
    <3>2. CASE i = p
      BY <1>3, <3>1, <3>2 DEF Same
    <3>3. CASE i # p
      <4>1. old(i) \in 1 .. L /\ x = l[old(i)].to
        BY <1>4, <3>1, <3>3 DEF Same
      <4>2. QED
        BY <4>1 DEF Linked, L
    <3>4. QED
      BY <3>2, <3>3
  <2>2. node.to \in Linked(n)
    BY <1>3 DEF Linked, Same
  <2>3. ASSUME NEW x \in Linked(l) PROVE x \in Linked(n)
    <3>1. PICK i \in 1 .. L : x = l[i].to
      BY DEF Linked, L
    <3>2. CASE i < p
      <4>1. i \in 1 .. p - 1 /\ i \in 1 .. Len(n)
        BY <1>2, <1>3, <3>2
      <4>2. QED
        BY <1>3, <3>1, <4>1 DEF Linked
    <3>3. CASE i >= p
      <4>1. i + 1 \in p + 1 .. L + 1 /\ i + 1 \in 1 .. Len(n) /\ i + 1 - 1 = i
        BY <1>2, <1>3, <3>3
      <4>2. n[i + 1].to = l[i].to
        BY <1>3, <4>1 DEF Same
      <4>3. QED
        BY <3>1, <4>1, <4>2 DEF Linked
    <3>4. QED
      BY <1>3, <3>2, <3>3
  <2>4. QED
    BY <2>1, <2>2, <2>3
<1>7. Unique(n)
  <2>1. SUFFICES ASSUME NEW i \in 1 .. L + 1, NEW j \in 1 .. L + 1, n[i].to = n[j].to PROVE i = j
    BY <1>3 DEF Unique
  <2>2. \A k \in 1 .. L : l[k].to # node.to
    BY DEF Linked, L
  <2>3. \A k \in 1 .. L + 1 : k # p => n[k].to # node.to
    BY <1>4, <2>2 DEF Same
  <2>4. n[p].to = node.to
    BY <1>3 DEF Same
  <2>5. CASE i # p /\ j # p
    <3>1. old(i) \in 1 .. L /\ old(j) \in 1 .. L /\ l[old(i)].to = l[old(j)].to
      BY <1>4, <2>1, <2>5 DEF Same
    <3>2. old(i) = old(j)
      BY <1>0, <3>1 DEF Unique, L
    <3>3. QED
      BY <1>5, <2>5, <3>2
  <2>6. QED
    BY <2>1, <2>3, <2>4, <2>5
<1>8. Dated(n, t)
  <2>1. ASSUME NEW i \in 1 .. L + 1 PROVE t + Ticks(n, i) = n[i].tick
    <3>1. CASE i = p
      BY <1>3, <3>1 DEF Same
    <3>2. CASE i # p
      <4>1. old(i) \in 1 .. Len(l) /\ Same(n[i], l[old(i)]) /\ Ticks(n, i) = Ticks(l, old(i))
        BY <1>4, <3>2 DEF L
      <4>2. t + Ticks(l, old(i)) = l[old(i)].tick
        BY <1>0, <4>1 DEF Dated
      <4>3. QED
        BY <4>1, <4>2 DEF Same
    <3>3. QED
      BY <3>1, <3>2
  <2>2. QED
    BY <1>3, <2>1 DEF Dated
<1>a. ASSUME Asked(l), node.due <= node.tick * CYC_PER_TICK PROVE Asked(n)
  <2>1. ASSUME NEW i \in 1 .. L + 1 PROVE n[i].due <= n[i].tick * CYC_PER_TICK
    <3>1. CASE i = p
      BY <1>3, <1>a, <3>1 DEF Same
    <3>2. CASE i # p
      BY <1>4, <1>a, <3>2 DEF Same, Asked, L
    <3>3. QED
      BY <3>1, <3>2
  <2>2. QED
    BY <1>3, <2>1 DEF Asked
<1>9. ListOK(n, t) /\ n # <<>>
  BY <1>2, <1>3, <1>7, <1>8 DEF ListOK
<1>10. timeout_rem(n, node.to) = node.dticks
  <2>1. n[p].to = node.to /\ p \in 1 .. Len(n)
    BY <1>3 DEF Same
  <2>2. QED
    BY <1>3, <1>7, <2>1, RemOf
<1>11. Ticks(n, 1) = n[1].dticks
  <2>1. 1 \in 1 .. Len(n) /\ 1 - 1 = 0
    BY <1>2, <1>3
  <2>2. Ticks(n, 1) = Ticks(n, 1 - 1) + n[1].dticks /\ Ticks(n, 0) = 0 /\ n[1].dticks \in Nat
    BY <1>3, <2>1, TicksUnfold, NodesOf
  <2>3. QED
    BY <2>1, <2>2
<1>12. CASE p = 1
  <2>1. n[1].to = node.to /\ n[1].dticks = node.dticks
    BY <1>3, <1>11, <1>12 DEF Same
  <2>2. QED
    BY <1>6, <1>9, <1>10, <1>a, <2>1
<1>13. CASE p # 1
  <2>1. 1 \in 1 .. p - 1 /\ 1 \in 1 .. L
    BY <1>2, <1>3, <1>13
  <2>2. n[1] = l[1] /\ l # <<>>
    <3>1. n[1] = l[1]
      BY <1>3, <2>1
    <3>2. L # 0
      BY <1>2, <2>1
    <3>3. QED
      BY <1>0, <3>1, <3>2 DEF L
  <2>3. n[1].to # node.to
    <3>1. l[1].to \in Linked(l)
      BY <2>1 DEF Linked, L
    <3>2. QED
      BY <2>2, <3>1
  <2>4. QED
    BY <1>6, <1>9, <1>10, <1>a, <2>2, <2>3
<1>14. QED
  BY <1>12, <1>13

(* What z_abort_timeout leaves of a list.                                  *)
Aborted(l, to) == IF to \in Linked(l) THEN remove_timeout(l, to) ELSE l

(* An abort: the first of the others does not come nearer.                 *)
LEMMA AbortKeeps ==
  ASSUME NEW t \in Nat, NEW l, ListOK(l, t), NEW to, NEW n, n = Aborted(l, to)
  PROVE  /\ ListOK(n, t) /\ Linked(n) = Linked(l) \ {to} /\ (Asked(l) => Asked(n))
         /\ n # <<>> => l # <<>> /\ l[1].dticks <= n[1].dticks
<1> DEFINE p == Index(l, to)
           L == Len(l)
<1>0. l \in Seq(Nodes) /\ Unique(l) /\ Dated(l, t) /\ L \in Nat
  BY DEF ListOK
<1>1. CASE to \notin Linked(l)
  <2>1. n = l
    BY <1>1 DEF Aborted
  <2>2. l # <<>> => l[1].dticks \in Nat
    BY <1>0, NodesOf
  <2>3. QED
    BY <1>1, <2>1, <2>2
<1>2. CASE to \in Linked(l)
  <2>1. LinkedOut(n, l, p) /\ p \in 1 .. L /\ l[p].to = to
    BY <1>0, <1>2, UnlinkSpec, IndexSpec DEF Aborted
  <2> HIDE DEF p, L
  <2>2. /\ n \in Seq(Nodes) /\ Len(n) = L - 1
        /\ \A i \in 1 .. p - 1 : n[i] = l[i] /\ Ticks(n, i) = Ticks(l, i)
        /\ \A i \in p .. L - 1 : Same(n[i], l[i + 1]) /\ Ticks(n, i) = Ticks(l, i + 1)
    BY <2>1 DEF LinkedOut, L
  <2> DEFINE old(i) == IF i < p THEN i ELSE i + 1
  <2>3. ASSUME NEW i \in 1 .. L - 1
        PROVE  old(i) \in 1 .. L /\ old(i) # p /\ Same(n[i], l[old(i)]) /\ Ticks(n, i) = Ticks(l, old(i))
    <3>1. CASE i < p
      <4>1. i \in 1 .. p - 1 /\ i \in 1 .. L /\ old(i) = i /\ i # p
        BY <1>0, <2>1, <3>1
      <4> HIDE DEF old
      <4>2. QED
        BY <2>2, <4>1 DEF Same
    <3>2. CASE i >= p
      <4>1. i \in p .. L - 1 /\ i + 1 \in 1 .. L /\ old(i) = i + 1 /\ i + 1 # p
        BY <1>0, <2>1, <3>2
      <4> HIDE DEF old
      <4>2. QED
        BY <2>2, <4>1
    <3>3. QED
      BY <1>0, <2>1, <3>1, <3>2
  <2>4. \A i, j \in 1 .. L - 1 : old(i) = old(j) => i = j
    BY <1>0, <2>1
  <2>5. ASSUME NEW i \in 1 .. L, i # p PROVE \E j \in 1 .. L - 1 : old(j) = i
    <3>1. CASE i < p
      <4>1. i \in 1 .. L - 1 /\ old(i) = i
        BY <1>0, <2>1, <3>1
      <4>2. QED
        BY <4>1
    <3>2. CASE i > p
      <4>1. i - 1 \in 1 .. L - 1 /\ old(i - 1) = i
        BY <1>0, <2>1, <3>2
      <4>2. QED
        BY <4>1
    <3>3. QED
      BY <1>0, <2>1, <2>5, <3>1, <3>2
  <2> HIDE DEF old
  <2>6. Linked(n) = Linked(l) \ {to}
    <3>1. ASSUME NEW x \in Linked(n) PROVE x \in Linked(l) \ {to}
      <4>1. PICK i \in 1 .. L - 1 : x = n[i].to
        BY <2>2 DEF Linked
      <4>2. old(i) \in 1 .. L /\ old(i) # p /\ x = l[old(i)].to
        BY <2>3, <4>1 DEF Same
      <4>3. x # to
        BY <1>0, <2>1, <4>2 DEF Unique, L
      <4>4. QED
        BY <4>2, <4>3 DEF Linked, L
    <3>2. ASSUME NEW x \in Linked(l), x # to PROVE x \in Linked(n)
      <4>1. PICK i \in 1 .. L : x = l[i].to
        BY DEF Linked, L
      <4>2. i # p
        BY <2>1, <3>2, <4>1
      <4>3. PICK j \in 1 .. L - 1 : old(j) = i
        BY <2>5, <4>2
      <4>4. n[j].to = l[i].to
        BY <2>3, <4>3 DEF Same
      <4>5. QED
        BY <2>2, <4>1, <4>4 DEF Linked
    <3>3. QED
      BY <3>1, <3>2
  <2>7. Unique(n)
    <3>1. SUFFICES ASSUME NEW i \in 1 .. L - 1, NEW j \in 1 .. L - 1, n[i].to = n[j].to PROVE i = j
      BY <2>2 DEF Unique
    <3>2. old(i) \in 1 .. L /\ old(j) \in 1 .. L /\ l[old(i)].to = l[old(j)].to
      BY <2>3, <3>1 DEF Same
    <3>3. old(i) = old(j)
      BY <1>0, <3>2 DEF Unique, L
    <3>4. QED
      BY <2>4, <3>3
  <2>8. Dated(n, t) /\ (Asked(l) => Asked(n))
    <3>1. ASSUME NEW i \in 1 .. L - 1
          PROVE  /\ t + Ticks(n, i) = n[i].tick
                 /\ Asked(l) => n[i].due <= n[i].tick * CYC_PER_TICK
      <4>1. old(i) \in 1 .. Len(l) /\ Same(n[i], l[old(i)]) /\ Ticks(n, i) = Ticks(l, old(i))
        BY <2>3 DEF L
      <4>2. /\ t + Ticks(l, old(i)) = l[old(i)].tick
            /\ Asked(l) => l[old(i)].due <= l[old(i)].tick * CYC_PER_TICK
        BY <1>0, <4>1 DEF Dated, Asked
      <4>3. QED
        BY <4>1, <4>2 DEF Same
    <3>2. QED
      BY <2>2, <3>1 DEF Dated, Asked
  <2>9. ASSUME n # <<>> PROVE l # <<>> /\ l[1].dticks <= n[1].dticks
    <3>1. 1 \in 1 .. Len(n) /\ 1 \in 1 .. L - 1 /\ 1 \in 1 .. L /\ l # <<>>
      BY <1>0, <2>1, <2>2, <2>9 DEF L
    <3>2. /\ Ticks(n, 1) = n[1].dticks /\ Ticks(l, 1) = l[1].dticks
          /\ n[1].dticks \in Nat /\ l[1].dticks \in Nat
      BY <1>0, <2>2, <3>1, TailSpec, NodesOf, <2>9 DEF L
    <3>3. CASE old(1) = 1
      BY <2>3, <3>1, <3>2, <3>3
    <3>4. CASE old(1) # 1
      <4>1. old(1) = 2 /\ 2 \in 1 .. L
        BY <1>0, <2>1, <3>1, <3>4 DEF old
      <4>2. Ticks(l, 2) = Ticks(l, 2 - 1) + l[2].dticks /\ 2 - 1 = 1 /\ l[2].dticks \in Nat
        BY <1>0, <4>1, TicksUnfold, NodesOf DEF L
      <4>3. n[1].dticks = l[1].dticks + l[2].dticks
        BY <2>3, <3>1, <3>2, <4>1, <4>2
      <4>4. QED
        BY <3>1, <3>2, <4>2, <4>3
    <3>5. QED
      BY <3>3, <3>4
  <2>10. QED
    BY <2>2, <2>6, <2>7, <2>8, <2>9 DEF ListOK
<1>3. QED
  BY <1>1, <1>2

(* The head of the list expires: t moves on by its distance.               *)
LEMMA TailKeeps ==
  ASSUME NEW t \in Nat, NEW l, ListOK(l, t), l # <<>>
  PROVE  /\ ListOK(Tail(l), t + l[1].dticks) /\ Linked(Tail(l)) = Linked(l) \ {l[1].to}
         /\ l[1] \in Nodes /\ l[1].to \in Linked(l)
         /\ l[1].tick = t + l[1].dticks
         /\ Asked(l) => Asked(Tail(l)) /\ l[1].due <= l[1].tick * CYC_PER_TICK
<1> DEFINE n == Tail(l)
           L == Len(l)
           d == l[1].dticks
<1>0. l \in Seq(Nodes) /\ Unique(l) /\ Dated(l, t) /\ L \in Nat \ {0}
  BY DEF ListOK
<1>1. /\ n \in Seq(Nodes) /\ Len(n) = L - 1 /\ Ticks(l, 1) = d
      /\ \A i \in 1 .. L - 1 : n[i] = l[i + 1] /\ Ticks(n, i) = Ticks(l, i + 1) - d
  BY <1>0, TailSpec
<1>2. 1 \in 1 .. L /\ l[1] \in Nodes /\ d \in Nat
  BY <1>0, NodesOf
<1>t. \A i \in 0 .. L : Ticks(l, i) \in Nat
  BY <1>0, TicksNat
<1> HIDE DEF n, L, d
<1>3. /\ l[1].tick = t + d /\ l[1].to \in Linked(l)
      /\ Asked(l) => l[1].due <= l[1].tick * CYC_PER_TICK
  BY <1>0, <1>1, <1>2 DEF Dated, Asked, Linked, L
<1>4. ASSUME NEW i \in 1 .. L - 1
      PROVE  i + 1 \in 1 .. L /\ i + 1 # 1 /\ n[i] = l[i + 1]
  BY <1>0, <1>1
<1>5. Unique(n)
  <2>1. SUFFICES ASSUME NEW i \in 1 .. L - 1, NEW j \in 1 .. L - 1, n[i].to = n[j].to PROVE i = j
    BY <1>1 DEF Unique
  <2>2. i + 1 = j + 1
    BY <1>0, <1>4, <2>1 DEF Unique, L
  <2>3. QED
    BY <2>2
<1>6. Linked(n) = Linked(l) \ {l[1].to}
  <2>1. ASSUME NEW x \in Linked(n) PROVE x \in Linked(l) \ {l[1].to}
    <3>1. PICK i \in 1 .. L - 1 : x = n[i].to
      BY <1>1 DEF Linked
    <3>2. i + 1 \in 1 .. L /\ i + 1 # 1 /\ x = l[i + 1].to
      BY <1>4, <3>1
    <3>3. x # l[1].to
      BY <1>0, <1>2, <3>2 DEF Unique, L
    <3>4. QED
      BY <3>2, <3>3 DEF Linked, L
  <2>2. ASSUME NEW x \in Linked(l), x # l[1].to PROVE x \in Linked(n)
    <3>1. PICK i \in 1 .. L : x = l[i].to
      BY DEF Linked, L
    <3>2. i - 1 \in 1 .. L - 1 /\ i - 1 + 1 = i
      BY <1>0, <2>2, <3>1
    <3>3. n[i - 1] = l[i]
      BY <1>1, <3>2
    <3>4. QED
      BY <1>1, <3>1, <3>2, <3>3 DEF Linked
  <2>3. QED
    BY <2>1, <2>2
<1>7. Dated(n, t + d) /\ (Asked(l) => Asked(n))
  <2>1. ASSUME NEW i \in 1 .. L - 1
        PROVE  /\ (t + d) + Ticks(n, i) = n[i].tick
               /\ Asked(l) => n[i].due <= n[i].tick * CYC_PER_TICK
    <3>1. i + 1 \in 1 .. Len(l) /\ i + 1 \in 0 .. L /\ n[i] = l[i + 1]
      BY <1>0, <1>4 DEF L
    <3>2. /\ t + Ticks(l, i + 1) = l[i + 1].tick
          /\ Asked(l) => l[i + 1].due <= l[i + 1].tick * CYC_PER_TICK
      BY <1>0, <3>1 DEF Dated, Asked
    <3>3. Ticks(n, i) = Ticks(l, i + 1) - d /\ Ticks(l, i + 1) \in Nat
      BY <1>1, <1>t, <3>1
    <3>4. (t + d) + Ticks(n, i) = t + Ticks(l, i + 1)
      BY <1>2, <3>3
    <3>5. QED
      BY <3>1, <3>2, <3>4
  <2>2. QED
    BY <1>1, <2>1 DEF Dated, Asked
<1>8. QED
  BY <1>1, <1>2, <1>3, <1>5, <1>6, <1>7 DEF ListOK, n, d

(* The announcement ends r ticks after t.                                  *)
LEMMA LessKeeps ==
  ASSUME NEW t \in Nat, NEW l, ListOK(l, t), l # <<>>, NEW r \in Nat, r <= l[1].dticks,
         NEW n, Less(n, l, r)
  PROVE  /\ ListOK(n, t + r) /\ Linked(n) = Linked(l) /\ n # <<>> /\ (Asked(l) => Asked(n))
         /\ n[1].dticks = l[1].dticks - r
<1> DEFINE L == Len(l)
<1>0. l \in Seq(Nodes) /\ Unique(l) /\ Dated(l, t) /\ L \in Nat \ {0}
  BY DEF ListOK
<1>1. /\ n \in Seq(Nodes) /\ Len(n) = L /\ n[1].dticks = l[1].dticks - r
      /\ \A i \in 1 .. L : Same(n[i], l[i]) /\ Ticks(n, i) = Ticks(l, i) - r
  BY <1>0, LessSpec
<1>t. \A i \in 1 .. L : Ticks(l, i) \in Nat
  BY <1>0, TicksNat
<1> HIDE DEF L
<1>2. Unique(n)
  <2>1. \A i \in 1 .. L : n[i].to = l[i].to
    BY <1>1 DEF Same
  <2>2. \A i, j \in 1 .. L : l[i].to = l[j].to => i = j
    BY <1>0 DEF Unique, L
  <2>3. QED
    BY <1>1, <2>1, <2>2 DEF Unique
<1>3. Linked(n) = Linked(l)
  <2>1. \A i \in 1 .. L : n[i].to = l[i].to
    BY <1>1 DEF Same
  <2>2. QED
    BY <1>1, <2>1 DEF Linked, L
<1>4. Dated(n, t + r) /\ (Asked(l) => Asked(n))
  <2>1. ASSUME NEW i \in 1 .. L
        PROVE  /\ (t + r) + Ticks(n, i) = n[i].tick
               /\ Asked(l) => n[i].due <= n[i].tick * CYC_PER_TICK
    <3>1. /\ t + Ticks(l, i) = l[i].tick
          /\ Asked(l) => l[i].due <= l[i].tick * CYC_PER_TICK
      BY <1>0 DEF Dated, Asked, L
    <3>2. Same(n[i], l[i]) /\ Ticks(n, i) = Ticks(l, i) - r /\ Ticks(l, i) \in Nat
      BY <1>1, <1>t
    <3>3. (t + r) + Ticks(n, i) = t + Ticks(l, i)
      BY <3>2
    <3>4. QED
      BY <3>1, <3>2, <3>3 DEF Same
  <2>2. QED
    BY <1>1, <2>1 DEF Dated, Asked
<1>5. n # <<>>
  BY <1>0, <1>1
<1>6. QED
  BY <1>1, <1>2, <1>3, <1>4, <1>5 DEF ListOK

-----------------------------------------------------------------------------
(* The driver.  Its periods are longer than a cycle: in this build a tick  *)
(* is thousands of cycles and MIN_DELAY at least 1024.                     *)
LongPeriods == CYC_PER_TICK > 1 /\ MIN_DELAY > 1

Clocks == [seen : Nat, lost : Nat, phase : Nat, flag : BOOLEAN, irq : BOOLEAN, load : Nat,
           cycle_count : Nat, announced_cycles : Nat, overflow_cyc : Nat]
Counting(c) == c \in Clocks /\ c.load > 1 /\ c.phase < c.load
Pending(c) == IF c.flag THEN c.load ELSE 0
Told(c) == (c.cycle_count + Elapsed(c)) + Pending(c) = c.seen
ClockOK(c) == Counting(c) /\ Told(c)

(* Remainders at and below the modulus.                                    *)
LEMMA SmallMod ==
  ASSUME NEW x \in Nat, NEW l \in Nat, l > 0
  PROVE  /\ x < l => x % l = x
         /\ x = l => x % l = 0
OBVIOUS

(* The fields of a clock.                                                  *)
LEMMA ClockFields ==
  ASSUME NEW c \in Clocks
  PROVE  /\ c.seen \in Nat /\ c.lost \in Nat /\ c.phase \in Nat /\ c.flag \in BOOLEAN /\ c.irq \in BOOLEAN
         /\ c.load \in Nat /\ c.cycle_count \in Nat /\ c.announced_cycles \in Nat
         /\ c.overflow_cyc \in Nat
BY DEF Clocks

(* What the counter does in at most one cycle.                             *)
Ran(r, c, n) ==
  /\ Counting(r) /\ r.seen = c.seen + n /\ r.load = c.load
  /\ r.phase = IF c.phase + n < c.load THEN c.phase + n ELSE 0
  /\ r.flag = (c.flag \/ c.phase + n >= c.load) /\ r.irq = (c.irq \/ c.phase + n >= c.load)
  /\ r.cycle_count = c.cycle_count /\ r.announced_cycles = c.announced_cycles
  /\ r.overflow_cyc = c.overflow_cyc

(* Run is that.                                                            *)
LEMMA RunSpec ==
  ASSUME NEW c, Counting(c), NEW n \in {0, 1}
  PROVE  Ran(Run(c, n), c, n)
<1> DEFINE wraps == c.phase + n >= c.load
           ph == (c.phase + n) % c.load
           x == IF c.phase + n < c.load THEN c.phase + n ELSE 0
           r == Run(c, n)
<1>0. /\ c \in Clocks /\ c.load > 1 /\ c.phase < c.load
      /\ c.seen \in Nat /\ c.phase \in Nat /\ c.flag \in BOOLEAN /\ c.irq \in BOOLEAN
      /\ c.load \in Nat /\ c.cycle_count \in Nat /\ c.announced_cycles \in Nat
      /\ c.overflow_cyc \in Nat
  BY ClockFields DEF Counting
<1>1. c.phase + n \in Nat /\ c.seen + n \in Nat /\ (c.phase + n < c.load \/ c.phase + n = c.load)
  BY <1>0
<1>2. ph = x
  BY <1>0, <1>1, SmallMod
<1>3. x \in Nat /\ x < c.load
  BY <1>0, <1>1
<1>4. wraps \in BOOLEAN
  OBVIOUS
<1>5. r = [c EXCEPT !.seen = c.seen + n, !.phase = ph, !.flag = (c.flag \/ wraps), !.irq = (c.irq \/ wraps)]
  BY DEF Run
<1> HIDE DEF wraps, ph, x, r
<1>6. r = [c EXCEPT !.seen = c.seen + n, !.phase = x, !.flag = (c.flag \/ wraps), !.irq = (c.irq \/ wraps)]
  BY <1>2, <1>5
<1>7. r \in Clocks
  BY <1>0, <1>1, <1>3, <1>4, <1>6 DEF Clocks
<1>8. /\ r.seen = c.seen + n /\ r.phase = x /\ r.flag = (c.flag \/ wraps) /\ r.irq = (c.irq \/ wraps)
      /\ r.load = c.load /\ r.cycle_count = c.cycle_count
      /\ r.announced_cycles = c.announced_cycles /\ r.overflow_cyc = c.overflow_cyc
  BY <1>0, <1>6 DEF Clocks
<1>9. QED
  BY <1>0, <1>3, <1>7, <1>8 DEF Ran, Counting, wraps, x, r

(* Unseen is that too, but for the cycles seen and lost.                   *)
LEMMA UnseenSpec ==
  ASSUME NEW c, Counting(c), NEW n \in {0, 1}
  PROVE  LET r == Unseen(c, n)
         IN  /\ Counting(r) /\ r.seen = c.seen /\ r.load = c.load
             /\ r.cycle_count = c.cycle_count /\ r.announced_cycles = c.announced_cycles
             /\ r.overflow_cyc = c.overflow_cyc
<1> DEFINE b == Run(c, n)
           r == Unseen(c, n)
<1>1. Ran(b, c, n) /\ c.seen \in Nat
  BY RunSpec, ClockFields DEF Counting
<1>2. r = [b EXCEPT !.seen = c.seen, !.lost = b.lost + n]
  BY DEF Unseen
<1> HIDE DEF b, r
<1>3. /\ b \in Clocks /\ b.phase < b.load /\ b.load > 1 /\ b.load = c.load
      /\ b.cycle_count = c.cycle_count /\ b.announced_cycles = c.announced_cycles
      /\ b.overflow_cyc = c.overflow_cyc
  BY <1>1 DEF Ran, Counting
<1>4. b.lost \in Nat
  BY <1>3, ClockFields
<1>5. /\ r \in Clocks /\ r.seen = c.seen /\ r.phase = b.phase /\ r.load = b.load
      /\ r.cycle_count = b.cycle_count /\ r.announced_cycles = b.announced_cycles
      /\ r.overflow_cyc = b.overflow_cyc
  <2>1. b.lost + n \in Nat
    BY <1>4
  <2>2. r \in Clocks
    BY <1>1, <1>2, <1>3, <2>1 DEF Clocks
  <2>3. QED
    BY <1>2, <1>3, <2>2 DEF Clocks
<1>6. QED
  BY <1>3, <1>5 DEF Counting, r

(* What elapsed() leaves, n cycles after it began: whoever reads next      *)
(* finds COUNTFLAG clear and every wrap in overflow_cyc.                   *)
Reads(e, c, n) ==
  /\ ClockOK(e) /\ ~ e.flag /\ e.seen = c.seen + n /\ e.load = c.load
  /\ e.cycle_count = c.cycle_count /\ e.announced_cycles = c.announced_cycles
  /\ c.irq => e.irq
  /\ c.phase + n < c.load => e.phase = c.phase + n /\ e.irq = c.irq
  /\ c.phase + n >= c.load => e.irq

(* The driver's prerequisite for n cycles.                                 *)
Seen(c, n) == c.flag => c.phase + n < c.load

(* elapsed() sees the wrap wherever it falls between its reads.            *)
LEMMA ElapsedSpec ==
  ASSUME NEW c, ClockOK(c), NEW d \in Delays, d.ctrl + d.val <= 1, Seen(c, d.ctrl + d.val)
  PROVE  Reads(elapsed(c, d), c, d.ctrl + d.val)
<1> DEFINE realign(v) == IF v = 0 THEN c.load ELSE v
           val1 == realign(VAL(c))
           b == Run(c, d.ctrl)
           u == [b EXCEPT !.flag = FALSE]
           e == Run(u, d.val)
           val2 == realign(VAL(e))
           o == [e EXCEPT !.overflow_cyc = @ + c.load, !.flag = FALSE]
           n == d.ctrl + d.val
<1>0. /\ Counting(c) /\ Told(c) /\ c \in Clocks /\ c.load > 1 /\ c.phase < c.load
      /\ c.seen \in Nat /\ c.phase \in Nat /\ c.flag \in BOOLEAN /\ c.irq \in BOOLEAN
      /\ c.load \in Nat /\ c.cycle_count \in Nat /\ c.announced_cycles \in Nat
      /\ c.overflow_cyc \in Nat
  BY ClockFields DEF ClockOK, Counting
<1>1. d.ctrl \in {0, 1} /\ d.val \in {0, 1} /\ n \in {0, 1}
  BY DEF Delays
<1>2. Ran(b, c, d.ctrl)
  BY <1>0, <1>1, RunSpec
<1>3. elapsed(c, d) = IF b.flag \/ val1 < val2 THEN o ELSE e
  BY DEF elapsed
<1> HIDE DEF b
<1>4. /\ b \in Clocks /\ b.load > 1 /\ b.phase < b.load
      /\ b.seen \in Nat /\ b.phase \in Nat /\ b.flag \in BOOLEAN /\ b.irq \in BOOLEAN
      /\ b.load \in Nat /\ b.cycle_count \in Nat /\ b.announced_cycles \in Nat
      /\ b.overflow_cyc \in Nat
  BY <1>2, ClockFields DEF Ran, Counting
<1>5. /\ u \in Clocks /\ u.flag = FALSE /\ u.seen = b.seen /\ u.phase = b.phase /\ u.irq = b.irq
      /\ u.load = b.load /\ u.cycle_count = b.cycle_count
      /\ u.announced_cycles = b.announced_cycles /\ u.overflow_cyc = b.overflow_cyc
  BY <1>4 DEF Clocks
<1> HIDE DEF u
<1>6. Counting(u)
  BY <1>4, <1>5 DEF Counting
<1>7. Ran(e, u, d.val)
  BY <1>1, <1>6, RunSpec
<1> HIDE DEF e
<1>8. /\ e \in Clocks /\ e.load > 1 /\ e.phase < e.load
      /\ e.seen \in Nat /\ e.phase \in Nat /\ e.flag \in BOOLEAN /\ e.irq \in BOOLEAN
      /\ e.load \in Nat /\ e.cycle_count \in Nat /\ e.announced_cycles \in Nat
      /\ e.overflow_cyc \in Nat
  BY <1>7, ClockFields DEF Ran, Counting
<1>9. /\ o \in Clocks /\ o.flag = FALSE /\ o.seen = e.seen /\ o.phase = e.phase /\ o.irq = e.irq
      /\ o.load = e.load /\ o.cycle_count = e.cycle_count
      /\ o.announced_cycles = e.announced_cycles /\ o.overflow_cyc = e.overflow_cyc + c.load
  <2>1. e.overflow_cyc + c.load \in Nat
    BY <1>0, <1>8
  <2>2. QED
    BY <1>8, <2>1 DEF Clocks
<1>10. /\ b.seen = c.seen + d.ctrl /\ b.load = c.load
       /\ b.phase = (IF c.phase + d.ctrl < c.load THEN c.phase + d.ctrl ELSE 0)
       /\ b.flag = (c.flag \/ c.phase + d.ctrl >= c.load)
       /\ b.irq = (c.irq \/ c.phase + d.ctrl >= c.load)
       /\ b.cycle_count = c.cycle_count /\ b.announced_cycles = c.announced_cycles
       /\ b.overflow_cyc = c.overflow_cyc
  BY <1>2 DEF Ran
<1>11. /\ e.seen = b.seen + d.val /\ e.load = b.load
       /\ e.phase = (IF b.phase + d.val < b.load THEN b.phase + d.val ELSE 0)
       /\ e.flag = (b.phase + d.val >= b.load)
       /\ e.irq = (b.irq \/ b.phase + d.val >= b.load)
       /\ e.cycle_count = b.cycle_count /\ e.announced_cycles = b.announced_cycles
       /\ e.overflow_cyc = b.overflow_cyc
  BY <1>5, <1>7 DEF Ran
<1> HIDE DEF o
<1>12. /\ e.seen = c.seen + n /\ e.load = c.load /\ e.cycle_count = c.cycle_count
       /\ e.announced_cycles = c.announced_cycles /\ e.overflow_cyc = c.overflow_cyc
  BY <1>0, <1>1, <1>10, <1>11
<1> DEFINE wraps == c.phase + n >= c.load
<1>13. /\ e.phase = IF wraps THEN 0 ELSE c.phase + n
       /\ wraps => c.phase + n = c.load /\ ~ c.flag
       /\ e.irq = (c.irq \/ wraps)
  <2>1. c.phase + n < c.load \/ c.phase + n = c.load
    BY <1>0, <1>1
  <2>2. wraps => c.phase + n = c.load /\ ~ c.flag
    BY <1>0, <1>1, <2>1 DEF Seen
  <2>3. CASE d.val = 0
    <3>1. n = d.ctrl /\ b.phase + d.val < b.load
      BY <1>1, <1>4, <2>3
    <3>2. e.phase = b.phase /\ e.irq = b.irq
      BY <1>4, <1>11, <2>3, <3>1
    <3>3. QED
      BY <1>0, <1>10, <2>1, <2>2, <3>1, <3>2
  <2>4. CASE d.val = 1
    <3>1. d.ctrl = 0 /\ n = 1
      BY <1>1, <2>4
    <3>2. b.phase = c.phase /\ b.irq = c.irq /\ b.load = c.load
      BY <1>0, <1>10, <3>1
    <3>3. QED
      BY <1>0, <1>11, <2>1, <2>2, <2>4, <3>1, <3>2
  <2>5. QED
    BY <1>1, <2>3, <2>4
<1>14. (b.flag \/ val1 < val2) = (c.flag \/ wraps)
  <2>1. CASE d.ctrl = 1
    <3>1. d.val = 0 /\ n = 1
      BY <1>1, <2>1
    <3>2. b.flag = (c.flag \/ wraps)
      BY <1>10, <2>1, <3>1
    <3>3. ~ wraps => val2 <= val1
      BY <1>0, <1>12, <1>13, <3>1 DEF VAL
    <3>4. val1 \in Nat /\ val2 \in Nat
      BY <1>0, <1>8, <1>12 DEF VAL
    <3>5. ~ wraps => ~(val1 < val2)
      BY <3>3, <3>4
    <3> HIDE DEF wraps, val1, val2
    <3>6. QED
      BY <3>2, <3>5, Zenon
  <2>2. CASE d.ctrl = 0
    <3>1. n = d.val
      BY <1>1, <2>2
    <3>2. b.flag = c.flag
      BY <1>0, <1>4, <1>10, <2>2
    <3>3. (val1 < val2) = wraps
      <4>1. CASE wraps
        <5>1. n = 1 /\ c.phase = c.load - 1 /\ e.phase = 0
          BY <1>0, <1>1, <1>13, <4>1
        <5>2. val1 = 1 /\ val2 = c.load
          BY <1>0, <5>1 DEF VAL
        <5>3. QED
          BY <1>0, <4>1, <5>2
      <4>2. CASE ~ wraps
        <5>1. e.phase = c.phase + n /\ e.load = c.load /\ c.phase + n < c.load
          BY <1>0, <1>1, <1>12, <1>13, <4>2
        <5>2. val2 <= val1 /\ val1 \in Nat /\ val2 \in Nat
          BY <1>0, <1>1, <5>1 DEF VAL
        <5>3. QED
          BY <4>2, <5>2
      <4>3. QED
        BY <4>1, <4>2
    <3>4. QED
      BY <3>2, <3>3
  <2>3. QED
    BY <1>1, <2>1, <2>2
<1> HIDE DEF n, val1, val2
<1> DEFINE x == IF c.flag \/ wraps THEN o ELSE e
<1>15. elapsed(c, d) = x
  BY <1>3, <1>14
<1>16. /\ x \in Clocks /\ x.seen = e.seen /\ x.phase = e.phase /\ x.irq = e.irq /\ x.load = e.load
       /\ x.cycle_count = e.cycle_count /\ x.announced_cycles = e.announced_cycles
       /\ x.overflow_cyc = c.overflow_cyc + (IF c.flag \/ wraps THEN c.load ELSE 0)
  BY <1>0, <1>8, <1>9, <1>12
<1>17. x.flag = FALSE
  <2>1. CASE c.flag \/ wraps
    BY <1>9, <2>1
  <2>2. CASE ~(c.flag \/ wraps)
    <3>1. e.flag = FALSE
      BY <1>0, <1>1, <1>4, <1>10, <1>11, <2>2 DEF n
    <3>2. QED
      BY <2>2, <3>1
  <2>3. QED
    BY <2>1, <2>2
<1>18. n \in {0, 1}
  BY <1>1 DEF n
<1> HIDE DEF x
<1>19. Counting(x)
  BY <1>8, <1>16 DEF Counting
<1>20. Told(x)
  <2>1. c.seen = (c.cycle_count + (c.phase + c.overflow_cyc)) + (IF c.flag THEN c.load ELSE 0)
    BY <1>0 DEF Told, Elapsed, Pending
  <2>2. Pending(x) = 0
    BY <1>17 DEF Pending
  <2>3. (c.cycle_count + (x.phase + x.overflow_cyc)) + 0 = c.seen + n
    BY <1>0, <1>13, <1>16, <1>18, <2>1
  <2>4. QED
    BY <1>12, <1>16, <2>2, <2>3 DEF Told, Elapsed
<1>21. QED
  <2>1. /\ x.seen = c.seen + n /\ x.load = c.load /\ x.cycle_count = c.cycle_count
        /\ x.announced_cycles = c.announced_cycles /\ ClockOK(x) /\ ~ x.flag
    BY <1>12, <1>16, <1>17, <1>19, <1>20 DEF ClockOK
  <2>2. x.phase = (IF wraps THEN 0 ELSE c.phase + n) /\ x.irq = (c.irq \/ wraps)
    BY <1>13, <1>16
  <2>3. c.phase + n < c.load <=> ~ wraps
    BY <1>0, <1>18
  <2>4. Reads(x, c, n)
    BY <1>0, <2>1, <2>2, <2>3 DEF Reads
  <2>5. QED
    BY <1>15, <2>4 DEF n

(* The number of ticks that u cycles reach into.                           *)
Ceil(u) == (u + CYC_PER_TICK - 1) \div CYC_PER_TICK

(* Ceil rounds up to ticks.                                                *)
LEMMA CeilSpec ==
  ASSUME NEW u \in Nat
  PROVE  /\ Ceil(u) \in Nat /\ u <= Ceil(u) * CYC_PER_TICK
         /\ Ceil(u) * CYC_PER_TICK < u + CYC_PER_TICK
<1> DEFINE C == CYC_PER_TICK
           x == u + (C - 1)
<1>1. C \in Nat /\ C > 0 /\ x \in Nat
  BY SysTickAssumption
<1>2. Ceil(u) = x \div C
  BY DEF Ceil
<1> HIDE DEF C
<1>3. x \div C \in Nat /\ C * (x \div C) <= x /\ x < C * (x \div C) + C
  BY <1>1
<1>4. (x \div C) * C = C * (x \div C)
  BY <1>3, <1>1
<1>5. QED
  BY <1>1, <1>2, <1>3, <1>4 DEF C

(* Whole multiples can be taken out of a quotient.                         *)
LEMMA DivShift ==
  ASSUME NEW t \in Nat, NEW x \in Nat, NEW C \in Nat, C > 0
  PROVE  (t * C + x) \div C = t + (x \div C)
OBVIOUS

(* The period programmed: never shorter than two cycles, and it does not   *)
(* reach past the tick asked for unless MIN_DELAY does.                    *)
LEMMA NextLoadSpec ==
  ASSUME LongPeriods, NEW ticks \in Nat, NEW u \in Nat
  PROVE  /\ NextLoad(ticks, u) \in Nat /\ NextLoad(ticks, u) > 1
         /\ \/ NextLoad(ticks, u) <= MIN_DELAY
            \/ NextLoad(ticks, u) + u <=
                 (IF ticks <= 1 THEN 0 ELSE ticks - 1) * CYC_PER_TICK + Ceil(u) * CYC_PER_TICK
<1> DEFINE C == CYC_PER_TICK
           want == IF ticks <= 1 THEN 0 ELSE ticks - 1
           t == IF ticks <= 1 THEN 0 ELSE IF ticks - 1 > MAX_TICKS THEN MAX_TICKS ELSE ticks - 1
           boundary == (t * C + u + C - 1) \div C
           delay == Larger(boundary * C - u, MIN_DELAY)
           load == NextLoad(ticks, u)
<1>1. /\ C \in Nat /\ C > 1 /\ MIN_DELAY \in Nat /\ MIN_DELAY > 1 /\ HalfWrap \in Nat
      /\ MAX_TICKS \in Nat /\ MAX_CYCLES \in Nat /\ MIN_DELAY <= MAX_CYCLES
  <2>1. /\ C \in Nat /\ C > 1 /\ MIN_DELAY \in Nat /\ MIN_DELAY > 1 /\ HalfWrap \in Nat
        /\ MAX_TICKS > 0 /\ MIN_DELAY <= MAX_CYCLES /\ COUNTER_MAX \in Nat
    BY SysTickAssumption DEF LongPeriods
  <2>2. MAX_TICKS = COUNTER_MAX \div C - 1
    BY DEF MAX_TICKS
  <2>3. COUNTER_MAX \div C \in Nat
    BY <2>1
  <2>4. MAX_TICKS \in Nat
    BY <2>1, <2>2, <2>3
  <2>5. MAX_CYCLES \in Nat
    BY <2>1, <2>4 DEF MAX_CYCLES
  <2>6. QED
    BY <2>1, <2>4, <2>5
<1>2. load = IF u >= HalfWrap THEN MIN_DELAY ELSE IF delay > MAX_CYCLES THEN MAX_CYCLES ELSE delay
  BY DEF NextLoad
<1>3. t \in Nat /\ want \in Nat /\ t <= want
  BY <1>1
<1> HIDE DEF C, want, t, load
<1>4. boundary = t + Ceil(u)
  <2>1. u + (C - 1) \in Nat /\ t * C \in Nat
    BY <1>1, <1>3
  <2>2. t * C + u + C - 1 = t * C + (u + (C - 1))
    BY <1>1, <1>3
  <2>3. (t * C + (u + (C - 1))) \div C = t + ((u + (C - 1)) \div C)
    BY <1>1, <1>3, <2>1, DivShift
  <2>4. u + C - 1 = u + (C - 1)
    BY <1>1
  <2>5. QED
    BY <2>2, <2>3, <2>4 DEF Ceil, C
<1>5. Ceil(u) \in Nat
  BY CeilSpec
<1> HIDE DEF boundary
<1>6. boundary * C = t * C + Ceil(u) * C /\ t * C <= want * C
  BY <1>1, <1>3, <1>4, <1>5
<1>7. boundary * C \in Nat /\ t * C \in Nat /\ want * C \in Nat /\ Ceil(u) * C \in Nat
  BY <1>1, <1>3, <1>4, <1>5
<1> DEFINE bc == boundary * C
           wc == want * C
           uc == Ceil(u) * C
<1>8. bc \in Nat /\ wc \in Nat /\ uc \in Nat /\ bc <= wc + uc
  BY <1>6, <1>7
<1>9. delay = IF bc - u > MIN_DELAY THEN bc - u ELSE MIN_DELAY
  BY DEF Larger
<1> HIDE DEF bc, wc, uc, delay
<1>10. load \in Nat /\ load > 1 /\ (load <= MIN_DELAY \/ load + u <= wc + uc)
  BY <1>1, <1>2, <1>8, <1>9
<1>11. QED
  BY <1>10 DEF load, wc, uc, want, C

-----------------------------------------------------------------------------
(* What sys_clock_set_timeout leaves.                                      *)
Sets(s, c, ticks, d) ==
  /\ ClockOK(s) /\ ~ s.flag /\ s.phase = 0 /\ s.seen = c.seen + (d.val + d.calc)
  /\ s.announced_cycles = c.announced_cycles /\ s.cycle_count = s.seen
  /\ s.load = NextLoad(ticks, (c.seen + d.val - c.announced_cycles) % (2 * HalfWrap))

SettingDelay(c, d) ==
  /\ d \in Delays /\ d.ctrl = 0 /\ d.val + d.gap + d.calc + d.write <= 1
  /\ Seen(c, d.val + d.gap + d.calc + d.write)

(* sys_clock_set_timeout counts all that has passed.                       *)
LEMMA SetSpec ==
  ASSUME LongPeriods, NEW c, ClockOK(c), NEW d, SettingDelay(c, d), NEW ticks \in Nat
  PROVE  Sets(sys_clock_set_timeout(c, ticks, d), c, ticks, d)
<1> DEFINE e == elapsed(c, d)
           q == [e EXCEPT !.cycle_count = @ + Elapsed(e), !.overflow_cyc = 0]
           p == Unseen(q, d.gap)
           r == Run(p, d.calc)
           w == Unseen(r, d.write)
           passed == IF VAL(p) < VAL(r) THEN VAL(p) + (c.load - VAL(r)) ELSE VAL(p) - VAL(r)
           next == NextLoad(ticks, Unannounced(p))
           s == sys_clock_set_timeout(c, ticks, d)
<1>0. /\ c \in Clocks /\ c.load > 1 /\ c.phase < c.load
      /\ c.seen \in Nat /\ c.phase \in Nat /\ c.load \in Nat /\ c.announced_cycles \in Nat
      /\ c.flag \in BOOLEAN /\ c.irq \in BOOLEAN
  BY ClockFields DEF ClockOK, Counting
<1>1. /\ d \in Delays /\ d.ctrl = 0 /\ d.val \in {0, 1} /\ d.calc \in {0, 1}
      /\ d.gap \in {0, 1} /\ d.write \in {0, 1}
      /\ d.val + d.calc <= 1 /\ d.ctrl + d.val = d.val /\ Seen(c, d.val)
  <2>1. /\ d \in Delays /\ d.ctrl = 0 /\ d.val + d.gap + d.calc + d.write <= 1
        /\ Seen(c, d.val + d.gap + d.calc + d.write)
    BY DEF SettingDelay
  <2>2. d.val \in {0, 1} /\ d.calc \in {0, 1} /\ d.gap \in {0, 1} /\ d.write \in {0, 1}
    BY <2>1 DEF Delays
  <2>3. Seen(c, d.val)
    BY <1>0, <2>1, <2>2 DEF Seen
  <2>4. QED
    BY <2>1, <2>2, <2>3
<1>2. Reads(e, c, d.val)
  <2>1. d.ctrl + d.val <= 1 /\ Seen(c, d.ctrl + d.val)
    BY <1>1
  <2>2. Reads(e, c, d.ctrl + d.val)
    BY <1>1, <2>1, ElapsedSpec
  <2>3. QED
    BY <1>1, <2>2
<1>3. s = [w EXCEPT !.cycle_count = @ + passed, !.phase = 0, !.flag = FALSE, !.load = next]
  BY DEF sys_clock_set_timeout
<1> HIDE DEF e
<1>4. /\ e \in Clocks /\ e.load = c.load /\ e.phase < e.load /\ e.seen = c.seen + d.val /\ ~ e.flag
      /\ e.announced_cycles = c.announced_cycles
      /\ (c.phase + d.val < c.load => e.phase = c.phase + d.val)
      /\ e.seen \in Nat /\ e.phase \in Nat /\ e.load \in Nat /\ e.irq \in BOOLEAN
      /\ e.cycle_count \in Nat /\ e.overflow_cyc \in Nat /\ e.announced_cycles \in Nat
  BY <1>2, ClockFields DEF Reads, ClockOK, Counting
<1>5. e.cycle_count + Elapsed(e) = e.seen
  <2>1. (e.cycle_count + Elapsed(e)) + Pending(e) = e.seen /\ Pending(e) = 0
    BY <1>2, <1>4 DEF Reads, ClockOK, Told, Pending
  <2>2. e.cycle_count + Elapsed(e) \in Nat
    BY <1>4 DEF Elapsed
  <2>3. QED
    BY <2>1, <2>2
<1>6. /\ q \in Clocks /\ q.cycle_count = e.seen /\ q.seen = e.seen /\ q.phase = e.phase
      /\ q.load = c.load /\ q.announced_cycles = c.announced_cycles /\ q.overflow_cyc = 0
  <2>1. q = [e EXCEPT !.cycle_count = e.seen, !.overflow_cyc = 0]
    BY <1>5
  <2> HIDE DEF q
  <2>2. q \in Clocks
    BY <1>4, <2>1 DEF Clocks
  <2>3. QED
    BY <1>4, <2>1 DEF Clocks
<1> HIDE DEF q
<1>7. /\ Counting(p) /\ p.cycle_count = e.seen /\ p.seen = e.seen /\ p.load = c.load
      /\ p.announced_cycles = c.announced_cycles /\ p.overflow_cyc = 0
      /\ p.phase \in Nat /\ p.phase < c.load
  <2>1. Counting(q)
    BY <1>0, <1>4, <1>6 DEF Counting
  <2>2. /\ Counting(p) /\ p.seen = q.seen /\ p.load = q.load /\ p.cycle_count = q.cycle_count
        /\ p.announced_cycles = q.announced_cycles /\ p.overflow_cyc = q.overflow_cyc
    BY <1>1, <2>1, UnseenSpec
  <2> HIDE DEF p
  <2>3. p.phase \in Nat
    BY <2>2, ClockFields DEF Counting
  <2>4. QED
    BY <1>6, <2>2, <2>3 DEF Counting
<1> HIDE DEF p
<1>8. Ran(r, p, d.calc)
  BY <1>1, <1>7, RunSpec
<1> HIDE DEF r
<1>9. /\ Counting(r) /\ r.seen = p.seen + d.calc /\ r.load = c.load
      /\ r.phase = (IF p.phase + d.calc < c.load THEN p.phase + d.calc ELSE 0)
      /\ r.cycle_count = p.cycle_count /\ r.announced_cycles = c.announced_cycles
      /\ r.overflow_cyc = 0 /\ r.irq \in BOOLEAN /\ r.seen \in Nat
  BY <1>7, <1>8, ClockFields DEF Ran, Counting
<1>10. passed = d.calc
  <2>1. p.phase \in Nat /\ p.phase < c.load
    BY <1>7
  <2>2. /\ VAL(p) = IF p.phase = 0 THEN 0 ELSE c.load - p.phase
        /\ VAL(r) = IF r.phase = 0 THEN 0 ELSE c.load - r.phase
    BY <1>7, <1>9 DEF VAL
  <2>3. CASE d.calc = 0
    <3>1. r.phase = p.phase
      BY <1>9, <2>1, <2>3
    <3>2. VAL(r) = VAL(p) /\ VAL(p) \in Nat
      BY <1>0, <2>1, <2>2, <3>1
    <3>3. QED
      BY <2>3, <3>2
  <2>4. CASE d.calc = 1
    <3>1. CASE p.phase = 0
      <4>1. r.phase = 1
        BY <1>0, <1>9, <2>4, <3>1
      <4>2. VAL(p) = 0 /\ VAL(r) = c.load - 1
        BY <2>2, <3>1, <4>1
      <4>3. QED
        BY <1>0, <2>4, <4>2
    <3>2. CASE p.phase # 0 /\ p.phase + 1 < c.load
      <4>1. r.phase = p.phase + 1
        BY <1>9, <2>4, <3>2
      <4>2. VAL(p) = c.load - p.phase /\ VAL(r) = c.load - (p.phase + 1)
        BY <2>1, <2>2, <3>2, <4>1
      <4>3. QED
        BY <1>0, <2>1, <2>4, <4>2
    <3>3. CASE p.phase + 1 = c.load
      <4>1. r.phase = 0 /\ p.phase # 0
        BY <1>0, <1>9, <2>4, <3>3
      <4>2. VAL(p) = 1 /\ VAL(r) = 0
        BY <1>0, <2>1, <2>2, <3>3, <4>1
      <4>3. QED
        BY <2>4, <4>2
    <3>4. QED
      BY <1>0, <2>1, <3>1, <3>2, <3>3
  <2>5. QED
    BY <1>1, <2>3, <2>4
<1>11. Unannounced(p) = (c.seen + d.val - c.announced_cycles) % (2 * HalfWrap)
  <2>1. p.cycle_count - p.announced_cycles = c.seen + d.val - c.announced_cycles
    BY <1>0, <1>1, <1>4, <1>7
  <2>2. QED
    BY <2>1 DEF Unannounced
<1>12. Unannounced(p) \in Nat
  <2>1. HalfWrap \in Nat /\ 2 * HalfWrap > 0
    <3>1. HalfWrap \in Nat /\ CYC_PER_TICK \in Nat \ {0} /\ MIN_DELAY \in Nat
          /\ MIN_DELAY <= MAX_CYCLES /\ MAX_CYCLES + CYC_PER_TICK < HalfWrap /\ MAX_TICKS > 0 /\ COUNTER_MAX \in Nat
      BY SysTickAssumption
    <3>2. MAX_TICKS \in Int
      BY <3>1 DEF MAX_TICKS
    <3>3. MAX_CYCLES \in Int
      BY <3>1, <3>2 DEF MAX_CYCLES
    <3>4. QED
      BY <3>1, <3>3
  <2>2. c.seen + d.val - c.announced_cycles \in Int
    BY <1>0, <1>1
  <2>3. QED
    BY <1>11, <2>1, <2>2
<1>13. next \in Nat /\ next > 1
  BY <1>12, NextLoadSpec
<1> HIDE DEF passed, next
<1>14. /\ r.cycle_count + passed = r.seen /\ r.seen \in Nat
       /\ r.seen = c.seen + (d.val + d.calc)
  BY <1>0, <1>1, <1>4, <1>7, <1>9, <1>10
<1>15. /\ w \in Clocks /\ w.seen = r.seen /\ w.cycle_count = r.cycle_count
       /\ w.announced_cycles = c.announced_cycles /\ w.overflow_cyc = 0
  <2>1. /\ Counting(w) /\ w.seen = r.seen /\ w.cycle_count = r.cycle_count
        /\ w.announced_cycles = r.announced_cycles /\ w.overflow_cyc = r.overflow_cyc
    BY <1>1, <1>9, UnseenSpec
  <2>2. QED
    BY <1>9, <2>1 DEF Counting
<1> HIDE DEF w
<1>16. s = [w EXCEPT !.cycle_count = r.seen, !.phase = 0, !.flag = FALSE, !.load = next]
  BY <1>3, <1>14, <1>15
<1> HIDE DEF s
<1>17. /\ s \in Clocks
       /\ s.seen = r.seen /\ s.cycle_count = r.seen /\ s.load = next /\ s.phase = 0 /\ s.flag = FALSE
       /\ s.announced_cycles = c.announced_cycles /\ s.overflow_cyc = 0
  <2>1. s \in Clocks
    BY <1>13, <1>14, <1>15, <1>16 DEF Clocks
  <2>2. QED
    BY <1>15, <1>16, <2>1 DEF Clocks
<1>18. ClockOK(s)
  <2>1. Counting(s)
    BY <1>13, <1>17 DEF Counting
  <2>2. Told(s)
    BY <1>14, <1>17 DEF Told, Elapsed, Pending
  <2>3. QED
    BY <2>1, <2>2 DEF ClockOK
<1>19. Sets(s, c, ticks, d)
  BY <1>11, <1>14, <1>17, <1>18 DEF Sets, next
<1>20. QED
  BY <1>19 DEF s

-----------------------------------------------------------------------------
(* The constants are numbers.                                              *)
LEMMA ClockConstants ==
  /\ CYC_PER_TICK \in Nat /\ CYC_PER_TICK > 0 /\ MIN_DELAY \in Nat /\ HalfWrap \in Nat
  /\ HalfWrap > 0 /\ 2 * HalfWrap \in Nat /\ 2 * HalfWrap > 0 /\ MAX_WAIT \in Nat /\ MAX_WAIT = INT_MAX /\ INT_MAX > 0
<1>1. /\ HalfWrap \in Nat /\ CYC_PER_TICK \in Nat \ {0} /\ MIN_DELAY \in Nat /\ COUNTER_MAX \in Nat
      /\ MIN_DELAY <= MAX_CYCLES /\ MAX_CYCLES + CYC_PER_TICK < HalfWrap
  BY SysTickAssumption
<1>2. MAX_TICKS \in Int
  BY <1>1 DEF MAX_TICKS
<1>3. MAX_CYCLES \in Int
  BY <1>1, <1>2 DEF MAX_CYCLES
<1>4. HalfWrap > 1
  BY <1>1, <1>3
<1>5. QED
  BY <1>1, <1>4 DEF MAX_WAIT, INT_MAX

(* The announced cycles are behind the driver's count, and by less than    *)
(* its 32-bit differences hold: now, and if one more cycle passes.         *)
InStep(c) == /\ c.announced_cycles <= c.cycle_count
             /\ c.seen + 1 - c.announced_cycles < 2 * HalfWrap

(* elapsed() of timeout.c: it changes nothing but who remembers the wrap.  *)
Peeks(e, c) ==
  /\ ClockOK(e) /\ e.seen = c.seen /\ e.load = c.load /\ e.phase = c.phase /\ e.irq = c.irq
  /\ e.cycle_count = c.cycle_count /\ e.announced_cycles = c.announced_cycles
  /\ e.flag => c.flag

(* ReadElapsed peeks, and with no announcement under way clears the flag.  *)
LEMMA ReadSpec ==
  ASSUME NEW c, ClockOK(c), NEW rem \in Nat
  PROVE  /\ Peeks(ReadElapsed(c, rem), c)
         /\ rem = 0 => ~ ReadElapsed(c, rem).flag
<1> DEFINE e == ReadElapsed(c, rem)
<1>0. c.seen \in Nat /\ c.phase \in Nat /\ c.load \in Nat /\ c.phase < c.load
  BY ClockFields DEF ClockOK, Counting
<1>1. CASE rem = 0
  <2>1. e = elapsed(c, NoDelay)
    BY <1>1 DEF ReadElapsed
  <2>2. NoDelay \in Delays /\ NoDelay.ctrl = 0 /\ NoDelay.val = 0 /\ NoDelay.ctrl + NoDelay.val = 0
    BY DEF NoDelay, Delays
  <2>3. Seen(c, NoDelay.ctrl + NoDelay.val)
    BY <1>0, <2>2 DEF Seen
  <2>4. Reads(e, c, NoDelay.ctrl + NoDelay.val)
    BY <2>1, <2>2, <2>3, ElapsedSpec
  <2> HIDE DEF e
  <2>5. Reads(e, c, 0)
    BY <2>2, <2>4
  <2>6. c.phase + 0 = c.phase /\ c.seen + 0 = c.seen
    BY <1>0
  <2>7. Peeks(e, c) /\ ~ e.flag
    BY <1>0, <2>5, <2>6 DEF Reads, Peeks
  <2>8. QED
    BY <2>7 DEF e
<1>2. CASE rem # 0
  <2>1. e = c
    BY <1>2 DEF ReadElapsed
  <2>2. QED
    BY <1>2, <2>1 DEF Peeks
<1>3. QED
  BY <1>1, <1>2

(* The ticks since the last announcement.                                  *)
LEMMA TicksNow ==
  ASSUME NEW c, ClockOK(c), NEW rem \in Nat
  PROVE  /\ ElapsedTicks(c, rem) \in Nat
         /\ rem = 0 /\ ~ c.flag /\ InStep(c) =>
              ElapsedTicks(c, rem) = (c.seen - c.announced_cycles) \div CYC_PER_TICK
<1> DEFINE W == 2 * HalfWrap
           u == (c.cycle_count - c.announced_cycles) % W
           x == (Elapsed(c) + u) % W
<1>0. /\ c.seen \in Nat /\ c.phase \in Nat /\ c.overflow_cyc \in Nat /\ c.cycle_count \in Nat
      /\ c.announced_cycles \in Nat /\ c.load \in Nat
  BY ClockFields DEF ClockOK, Counting
<1>1. W \in Nat /\ W > 0 /\ CYC_PER_TICK \in Nat /\ CYC_PER_TICK > 0
  BY ClockConstants
<1>2. sys_clock_elapsed(c) = x \div CYC_PER_TICK
  BY DEF sys_clock_elapsed, Unannounced
<1> HIDE DEF W
<1>3. u \in Nat
  BY <1>0, <1>1
<1> DEFINE y == Elapsed(c) + u
<1>4. y \in Nat
  BY <1>0, <1>3 DEF Elapsed
<1>5. x \in Nat
  <2> HIDE DEF y
  <2>1. y % W \in Nat
    BY <1>1, <1>4
  <2>2. QED
    BY <2>1 DEF y
<1>6. ElapsedTicks(c, rem) \in Nat
  <2> HIDE DEF x
  <2>1. x \div CYC_PER_TICK \in Nat
    BY <1>1, <1>5
  <2>2. QED
    BY <1>2, <2>1 DEF ElapsedTicks
<1>7. ASSUME rem = 0, ~ c.flag, InStep(c)
      PROVE  ElapsedTicks(c, rem) = (c.seen - c.announced_cycles) \div CYC_PER_TICK
  <2>1. c.cycle_count + Elapsed(c) = c.seen
    <3>1. (c.cycle_count + Elapsed(c)) + Pending(c) = c.seen /\ Pending(c) = 0
      BY <1>7 DEF ClockOK, Told, Pending
    <3>2. QED
      BY <1>0, <3>1 DEF Elapsed
  <2>2. Elapsed(c) \in Nat
    BY <1>0 DEF Elapsed
  <2>3. /\ c.cycle_count - c.announced_cycles \in Nat
        /\ c.seen - c.announced_cycles \in Nat /\ c.seen - c.announced_cycles < W
        /\ c.cycle_count - c.announced_cycles < W
    BY <1>0, <1>1, <1>7, <2>1, <2>2 DEF InStep, W
  <2>4. u = c.cycle_count - c.announced_cycles
    BY <1>1, <2>3, SmallMod
  <2>5. y = c.seen - c.announced_cycles
    BY <1>0, <2>1, <2>2, <2>4
  <2>6. x = c.seen - c.announced_cycles
    BY <1>1, <2>3, <2>5, SmallMod
  <2>7. QED
    BY <1>2, <1>7, <2>6 DEF ElapsedTicks
<1>8. QED
  BY <1>6, <1>7

(* The ticks to a timeout at dt: not more than remain, and none only when  *)
(* none remain.                                                            *)
Suits(ticks, dt, c) ==
  LET more == dt - ((c.seen - c.announced_cycles) \div CYC_PER_TICK)
  IN  ticks <= Larger(0, more) /\ (ticks = 0 => more <= 0)

(* Reprogram sets the driver for the first timeout of the list.            *)
LEMMA ReprogramSpec ==
  ASSUME LongPeriods, NEW c, ClockOK(c), NEW rem \in Nat, NEW d, SettingDelay(c, d),
         NEW l \in Seq(Nodes)
  PROVE  \E ticks \in Nat :
           /\ Sets(Reprogram(c, l, rem, d), c, ticks, d)
           /\ rem = 0 /\ l # <<>> /\ InStep(c) =>
                Suits(ticks, l[1].dticks, c)
<1> DEFINE e == ReadElapsed(c, rem)
           ticks == next_timeout(e, l, rem)
           s == sys_clock_set_timeout(e, ticks, d)
<1>1. Peeks(e, c) /\ (rem = 0 => ~ e.flag)
  BY ReadSpec
<1>2. Reprogram(c, l, rem, d) = s
  BY DEF Reprogram
<1> HIDE DEF e
<1>3. ClockOK(e) /\ e.seen = c.seen /\ e.announced_cycles = c.announced_cycles /\ (InStep(c) => InStep(e))
  BY <1>1 DEF Peeks, InStep
<1>4. SettingDelay(e, d)
  BY <1>1 DEF SettingDelay, Seen, Peeks
<1>5. ElapsedTicks(e, rem) \in Nat
  BY <1>3, TicksNow
<1>6. ticks \in Nat
  <2>1. CASE l = <<>>
    BY <2>1, ClockConstants DEF next_timeout
  <2>2. CASE l # <<>>
    <3>1. l[1].dticks \in Nat
      BY <2>2, NodesOf
    <3>2. QED
      BY <1>5, <2>2, <3>1, ClockConstants DEF next_timeout, Larger
  <2>3. QED
    BY <2>1, <2>2
<1>7. ASSUME rem = 0, l # <<>>, InStep(c)
      PROVE  Suits(ticks, l[1].dticks, c)
  <2> DEFINE E == ElapsedTicks(e, rem)
  <2>1. E = (c.seen - c.announced_cycles) \div CYC_PER_TICK
    BY <1>1, <1>3, <1>7, TicksNow
  <2>2. l[1].dticks \in Nat /\ E \in Nat /\ MAX_WAIT = INT_MAX /\ INT_MAX \in Nat /\ INT_MAX > 0
    BY <1>5, <1>7, NodesOf, ClockConstants DEF MAX_WAIT
  <2>3. ticks = IF l[1].dticks - E > INT_MAX THEN INT_MAX ELSE Larger(0, l[1].dticks - E)
    BY <1>7, <2>2 DEF next_timeout
  <2> HIDE DEF E, ticks
  <2>4. ticks <= Larger(0, l[1].dticks - E) /\ (ticks = 0 => l[1].dticks - E <= 0)
    BY <2>2, <2>3 DEF Larger
  <2>5. QED
    BY <2>1, <2>4 DEF Suits
<1> HIDE DEF ticks
<1>8. Sets(s, e, ticks, d)
  BY <1>3, <1>4, <1>6, SetSpec
<1>9. Sets(s, c, ticks, d)
  BY <1>3, <1>8 DEF Sets
<1>10. QED
  BY <1>2, <1>6, <1>7, <1>9

-----------------------------------------------------------------------------
(* The alarm: what AlarmInTime says of a clock whose first timeout is dt   *)
(* ticks away.                                                             *)
Alarm(c, dt) ==
  LET set == c.seen - c.phase
      first == c.announced_cycles + dt * CYC_PER_TICK
  IN  set + c.load <= Larger(IF first > set THEN first ELSE Ceil(set) * CYC_PER_TICK, set + MIN_DELAY) + 1

(* Ceil is the least number of ticks.                                      *)
LEMMA CeilOf ==
  ASSUME NEW u \in Nat, NEW k \in Nat, u <= k * CYC_PER_TICK
  PROVE  Ceil(u) <= k
<1>1. Ceil(u) \in Nat /\ Ceil(u) * CYC_PER_TICK < u + CYC_PER_TICK /\ CYC_PER_TICK \in Nat /\ CYC_PER_TICK > 0
  BY CeilSpec, ClockConstants
<1> DEFINE C == CYC_PER_TICK
           x == Ceil(u)
<1>2. x \in Nat /\ x * C < u + C /\ C \in Nat /\ C > 0 /\ u <= k * C
  BY <1>1
<1> HIDE DEF C, x
<1>3. k * C + C = (k + 1) * C
  BY <1>2
<1>4. x * C < (k + 1) * C
  BY <1>2, <1>3
<1>5. x < k + 1
  BY <1>2, <1>4
<1>6. QED
  BY <1>2, <1>5 DEF x

(* What sys_clock_set_timeout programs for dt is in time for dt.           *)
LEMMA AlarmSet ==
  ASSUME NEW c, ClockOK(c), InStep(c), NEW d, SettingDelay(c, d), NEW dt \in Nat, NEW A \in Nat,
         c.announced_cycles = A * CYC_PER_TICK, NEW ticks \in Nat,
         Suits(ticks, dt, c),
         NEW s, Sets(s, c, ticks, d), LongPeriods
  PROVE  Alarm(s, dt)
<1> DEFINE C == CYC_PER_TICK
           an == c.announced_cycles
           u0 == c.seen - an
           u == u0 + d.val
           E == u0 \div C
           t == IF ticks <= 1 THEN 0 ELSE ticks - 1
           set == s.seen
           first == an + dt * C
<1>0. /\ c.seen \in Nat /\ an \in Nat /\ c.cycle_count \in Nat /\ c.cycle_count <= c.seen
  <2>1. /\ c.seen \in Nat /\ an \in Nat /\ c.cycle_count \in Nat /\ c.phase \in Nat
        /\ c.overflow_cyc \in Nat /\ c.load \in Nat
    BY ClockFields DEF ClockOK, Counting
  <2>2. Pending(c) \in Nat /\ (c.cycle_count + (c.phase + c.overflow_cyc)) + Pending(c) = c.seen
    BY <2>1 DEF ClockOK, Told, Pending, Elapsed
  <2>3. QED
    BY <2>1, <2>2
<1>1. C \in Nat /\ C > 0 /\ MIN_DELAY \in Nat /\ 2 * HalfWrap \in Nat /\ 2 * HalfWrap > 0
  BY ClockConstants
<1>2. d.val \in {0, 1} /\ d.calc \in {0, 1} /\ d.val + d.calc <= 1
  BY DEF SettingDelay, Delays
<1>3. u0 \in Nat /\ u \in Nat /\ u < 2 * HalfWrap /\ u <= u0 + 1
  BY <1>0, <1>1, <1>2 DEF InStep
<1>4. /\ s.phase = 0 /\ s.seen = c.seen + (d.val + d.calc) /\ s.announced_cycles = an
      /\ s.load = NextLoad(ticks, (c.seen + d.val - an) % (2 * HalfWrap)) /\ s.load \in Nat
  BY ClockFields DEF Sets, ClockOK, Counting
<1>5. (c.seen + d.val - an) % (2 * HalfWrap) = u
  <2>1. c.seen + d.val - an = u
    BY <1>0, <1>2
  <2> HIDE DEF u
  <2>2. u % (2 * HalfWrap) = u
    BY <1>1, <1>3, SmallMod
  <2>3. QED
    BY <2>1, <2>2
<1>6. s.load <= MIN_DELAY \/ s.load + u <= t * C + Ceil(u) * C
  <2> HIDE DEF u
  <2>1. s.load = NextLoad(ticks, u)
    BY <1>4, <1>5
  <2>2. QED
    BY <1>3, <2>1, NextLoadSpec
<1>7. E \in Nat /\ E * C <= u0 /\ u0 < (E + 1) * C
  <2> HIDE DEF u0, C
  <2>1. E \in Nat /\ C * E <= u0 /\ u0 < C * E + C
    BY <1>1, <1>3
  <2> HIDE DEF E
  <2>2. QED
    BY <1>1, <2>1
<1>8. Ceil(u) <= E + 1 /\ Ceil(u) \in Nat
  <2>1. u <= (E + 1) * C /\ E + 1 \in Nat
    <3> HIDE DEF u0, E, u
    <3>1. (E + 1) * C \in Nat
      BY <1>1, <1>7
    <3>2. QED
      BY <1>3, <1>7, <3>1
  <2> HIDE DEF u, E
  <2>2. QED
    BY <1>3, <2>1, CeilOf, CeilSpec
<1>9. ticks <= (IF dt - E < 0 THEN 0 ELSE dt - E) /\ (ticks = 0 => dt <= E)
  <2>1. ticks <= Larger(0, dt - E) /\ (ticks = 0 => dt - E <= 0)
    BY DEF Suits
  <2> HIDE DEF E
  <2>2. QED
    BY <1>7, <2>1 DEF Larger
<1>10. set \in Nat /\ set = an + u + d.calc /\ s.seen - s.phase = set
  BY <1>0, <1>2, <1>4
<1>11. /\ Ceil(set) \in Nat /\ set <= Ceil(set) * C /\ Ceil(set) * C \in Nat
  <2> HIDE DEF set
  <2>1. QED
    BY <1>1, <1>10, CeilSpec
<1> HIDE DEF E, t, set, first, u, u0
<1>12. an + (t + Ceil(u)) * C <= IF first > set THEN first ELSE Ceil(set) * C
  <2>1. CASE ticks >= 1
    <3>1. t = ticks - 1 /\ ticks <= dt - E
      BY <1>7, <1>9, <2>1 DEF t
    <3>2. t + Ceil(u) <= dt /\ t + Ceil(u) \in Nat
      BY <1>7, <1>8, <2>1, <3>1
    <3>3. (t + Ceil(u)) * C <= dt * C /\ (t + Ceil(u)) * C \in Nat /\ dt * C \in Nat
      BY <1>1, <3>2
    <3>4. an + (t + Ceil(u)) * C <= first /\ first \in Nat
      BY <1>0, <3>3 DEF first
    <3>5. QED
      BY <1>0, <1>10, <1>11, <3>3, <3>4
  <2>2. CASE ticks = 0
    <3>1. t = 0 /\ dt <= E
      BY <1>7, <1>9, <2>2 DEF t
    <3>2. dt * C <= E * C /\ dt * C \in Nat /\ E * C \in Nat
      BY <1>1, <1>7, <3>1
    <3>3. ~(first > set)
      <4>1. first <= an + E * C /\ first \in Nat
        BY <1>0, <3>2 DEF first
      <4>2. an + E * C <= an + u0 /\ u0 <= u
        BY <1>0, <1>2, <1>3, <1>7, <3>2 DEF u
      <4>3. QED
        BY <1>0, <1>2, <1>3, <1>10, <3>2, <4>1, <4>2
    <3>4. Ceil(u) + A <= Ceil(set)
      <4>1. u <= (Ceil(set) - A) * C
        <5>1. (Ceil(set) - A) * C = Ceil(set) * C - A * C
          BY <1>1, <1>11
        <5>2. u <= Ceil(set) * C - an
          BY <1>0, <1>2, <1>3, <1>10, <1>11
        <5>3. QED
          BY <5>1, <5>2
      <4>2. Ceil(set) - A \in Int /\ Ceil(set) - A >= 0
        <5>1. 0 <= (Ceil(set) - A) * C
          BY <1>1, <1>3, <1>11, <4>1
        <5>2. QED
          BY <1>1, <1>11, <5>1
      <4>3. Ceil(u) <= Ceil(set) - A
        BY <1>3, <4>1, <4>2, CeilOf
      <4>4. QED
        BY <1>8, <1>11, <4>3
    <3>5. (Ceil(u) + A) * C <= Ceil(set) * C /\ (Ceil(u) + A) * C = Ceil(u) * C + A * C
      BY <1>1, <1>8, <1>11, <3>4
    <3>6. Ceil(u) * C \in Nat /\ t + Ceil(u) = Ceil(u)
      BY <1>1, <1>8, <3>1
    <3>7. an + (t + Ceil(u)) * C <= Ceil(set) * C
      BY <1>0, <1>11, <3>5, <3>6
    <3>8. QED
      BY <3>3, <3>7
  <2>3. QED
    BY <2>1, <2>2
<1>13. (t + Ceil(u)) * C = t * C + Ceil(u) * C /\ t * C \in Nat /\ Ceil(u) * C \in Nat /\ t \in Nat
  <2>1. t \in Nat
    BY DEF t
  <2>2. QED
    BY <1>1, <1>8, <2>1
<1> DEFINE X == IF first > set THEN first ELSE Ceil(set) * C
<1>14. X \in Nat
  <2>1. dt * C \in Nat
    BY <1>1
  <2>2. first \in Nat
    BY <1>0, <2>1 DEF first
  <2>3. QED
    BY <1>11, <2>2
<1> HIDE DEF X
<1>15. set + s.load <= (IF X > set + MIN_DELAY THEN X ELSE set + MIN_DELAY) + 1
  <2>1. CASE s.load <= MIN_DELAY
    BY <1>1, <1>4, <1>10, <1>14, <2>1
  <2>2. CASE s.load + u <= t * C + Ceil(u) * C
    <3>1. an + (t * C + Ceil(u) * C) <= X
      BY <1>12, <1>13 DEF X
    <3>2. set + s.load <= an + (t * C + Ceil(u) * C) + 1
      BY <1>0, <1>2, <1>3, <1>4, <1>10, <1>13, <2>2
    <3>3. set + s.load <= X + 1
      BY <1>0, <1>4, <1>10, <1>13, <1>14, <3>1, <3>2
    <3>4. QED
      BY <1>1, <1>4, <1>10, <1>14, <3>3
  <2>3. QED
    BY <1>6, <2>1, <2>2
<1>16. QED
  BY <1>4, <1>10, <1>15 DEF Alarm, Larger, X, first, C

(* A later first timeout leaves a good alarm good.                         *)
LEMMA AlarmLater ==
  ASSUME NEW c, Counting(c), NEW A \in Nat, c.announced_cycles = A * CYC_PER_TICK,
         c.phase <= c.seen, NEW dt \in Nat, NEW more \in Nat, dt <= more, Alarm(c, dt),
         NEW e, e.seen - e.phase = c.seen - c.phase, e.load = c.load,
         e.announced_cycles = c.announced_cycles
  PROVE  Alarm(e, more)
<1> DEFINE C == CYC_PER_TICK
           set == c.seen - c.phase
           first == c.announced_cycles + dt * C
           later == c.announced_cycles + more * C
           X == IF first > set THEN first ELSE Ceil(set) * C
           Y == IF later > set THEN later ELSE Ceil(set) * C
<1>0. C \in Nat /\ C > 0 /\ MIN_DELAY \in Nat /\ c.announced_cycles \in Nat /\ c.load \in Nat /\ set \in Nat
  BY ClockConstants, ClockFields DEF Counting
<1>1. dt * C \in Nat /\ more * C \in Nat /\ dt * C <= more * C
  BY <1>0
<1>2. first \in Nat /\ later \in Nat /\ first <= later
  BY <1>0, <1>1
<1> HIDE DEF set
<1>3. Ceil(set) \in Nat /\ Ceil(set) * C \in Nat
  BY <1>0, CeilSpec
<1>4. later > set => Ceil(set) * C <= later
  <2>1. later = (A + more) * C /\ A + more \in Nat
    BY <1>0
  <2> HIDE DEF later
  <2>2. ASSUME later > set PROVE Ceil(set) * C <= later
    <3>1. set <= (A + more) * C
      BY <1>0, <1>2, <2>1, <2>2
    <3>2. Ceil(set) <= A + more
      BY <1>0, <2>1, <3>1, CeilOf
    <3>3. QED
      BY <1>0, <1>3, <2>1, <3>2
  <2>3. QED
    BY <2>2
<1> HIDE DEF first, later
<1>5. X <= Y /\ X \in Nat /\ Y \in Nat
  BY <1>0, <1>2, <1>3, <1>4
<1>6. set + c.load <= Larger(X, set + MIN_DELAY) + 1
  BY DEF Alarm, first, set
<1> HIDE DEF X, Y
<1>7. set + c.load <= Larger(Y, set + MIN_DELAY) + 1
  BY <1>0, <1>5, <1>6 DEF Larger
<1>8. QED
  BY <1>7 DEF Alarm, later, set, Y, C

-----------------------------------------------------------------------------
(* z_add_timeout, for a list l in order in which to is not linked.         *)
TO == Timers \cup Sleeps
AlarmOf(c, l) == l # <<>> /\ ~ c.irq => Alarm(c, l[1].dticks)
Tick(c) == \E A \in Nat : c.announced_cycles = A * CYC_PER_TICK
Waited(c, dur) == Dticks(IF dur.abs THEN c ELSE ReadElapsed(c, announce_remaining), dur)

Added(l, to, dur, earliest) ==
  /\ ClockOK(clk') /\ clk'.announced_cycles = clk.announced_cycles
  /\ clk.cycle_count <= clk'.cycle_count
  /\ ListOK(list', curr_tick) /\ list' # <<>> /\ Linked(list') = Linked(l) \cup {to}
  /\ timeout_rem(list', to) = Waited(clk, dur)
  /\ (l # <<>> => l[1].dticks >= 1) => list'[1].dticks >= 1
  /\ Asked(l) /\ earliest <= (curr_tick + Waited(clk, dur)) * CYC_PER_TICK => Asked(list')
  /\ announce_remaining = 0 /\ InStep(clk) /\ Tick(clk) /\ AlarmOf(clk, l) => AlarmOf(clk', list')

(* z_add_timeout never links a timeout less than a tick away.              *)
LEMMA DticksSpec ==
  ASSUME NEW c, ClockOK(c), NEW dur \in [abs : BOOLEAN, ticks : Nat],
         curr_tick \in Nat, announce_remaining \in Nat
  PROVE  Dticks(c, dur) \in Nat /\ Dticks(c, dur) >= 1
<1>1. dur.ticks \in Nat /\ ElapsedTicks(c, announce_remaining) \in Nat
  BY TicksNow
<1>2. QED
  BY <1>1 DEF Dticks, Larger

(* What the driver has counted is not ahead of the cycles.                 *)
LEMMA CountBehind ==
  ASSUME NEW c, ClockOK(c)
  PROVE  /\ c.cycle_count \in Nat /\ c.seen \in Nat /\ c.phase \in Nat /\ c.announced_cycles \in Nat
         /\ c.load \in Nat /\ c.cycle_count <= c.seen /\ c.phase <= c.seen
<1>1. /\ c.seen \in Nat /\ c.announced_cycles \in Nat /\ c.cycle_count \in Nat /\ c.phase \in Nat
      /\ c.overflow_cyc \in Nat /\ c.load \in Nat
  BY ClockFields DEF ClockOK, Counting
<1>2. Pending(c) \in Nat /\ (c.cycle_count + (c.phase + c.overflow_cyc)) + Pending(c) = c.seen
  BY <1>1 DEF ClockOK, Told, Pending, Elapsed
<1>3. QED
  BY <1>1, <1>2

(* z_add_timeout does that.                                                *)
LEMMA AddSets ==
  ASSUME LongPeriods, ClockOK(clk), curr_tick \in Nat, announce_remaining \in Nat,
         NEW l, ListOK(l, curr_tick), NEW to \in TO, to \notin Linked(l),
         NEW dur \in [abs : BOOLEAN, ticks : Nat], NEW d, SettingDelay(clk, d),
         NEW now, Peeks(now, clk), now = clk \/ dur.abs,
         NEW earliest \in Nat, z_add_timeout(now, l, to, dur, d, earliest)
  PROVE  Added(l, to, dur, earliest)
<1> DEFINE c == IF dur.abs THEN now ELSE ReadElapsed(now, announce_remaining)
           dt == Dticks(c, dur)
           node == Node(to, dt, earliest)
           n == list'
           k == clk'
<1>1. n = Insert(l, node) /\ k = IF n[1].to = to THEN Reprogram(c, n, announce_remaining, d) ELSE c
  BY DEF z_add_timeout
<1>2. Peeks(c, clk)
  BY ReadSpec
<1>3. Waited(clk, dur) = dt
  BY DEF Waited, Dticks
<1> HIDE DEF c
<1>4. ClockOK(c)
  BY <1>2 DEF Peeks
<1>5. dt \in Nat /\ dt >= 1
  BY <1>4, DticksSpec
<1> HIDE DEF dt
<1>6. /\ node \in Nodes /\ node.to = to /\ node.dticks = dt /\ node.tick = curr_tick + dt
      /\ node.due = earliest
  <2>1. curr_tick + dt \in Nat
    BY <1>5
  <2>2. QED
    BY <1>5, <2>1 DEF Node, Nodes, TO
<1> HIDE DEF node, n, k
<1>7. /\ ListOK(n, curr_tick) /\ n # <<>> /\ Linked(n) = Linked(l) \cup {to}
      /\ timeout_rem(n, to) = dt
      /\ Asked(l) /\ earliest <= (curr_tick + dt) * CYC_PER_TICK => Asked(n)
      /\ n[1].to = to => n[1].dticks = dt
      /\ n[1].to # to => l # <<>> /\ n[1] = l[1]
  <2>1. node.to \notin Linked(l) /\ node.tick = curr_tick + node.dticks
    BY <1>6
  <2>2. /\ ListOK(n, curr_tick) /\ n # <<>> /\ Linked(n) = Linked(l) \cup {node.to}
        /\ timeout_rem(n, node.to) = node.dticks
        /\ Asked(l) /\ node.due <= node.tick * CYC_PER_TICK => Asked(n)
        /\ n[1].to = node.to => n[1].dticks = node.dticks
        /\ n[1].to # node.to => l # <<>> /\ n[1] = l[1]
    BY <1>1, <1>6, <2>1, AddKeeps
  <2>3. QED
    BY <1>6, <2>2
<1>8. n \in Seq(Nodes) /\ n[1].dticks \in Nat
  <2>1. n \in Seq(Nodes)
    BY <1>7 DEF ListOK
  <2>2. QED
    BY <1>7, <2>1, NodesOf
<1>9. (l # <<>> => l[1].dticks >= 1) => n[1].dticks >= 1
  BY <1>5, <1>7
<1>10. SettingDelay(c, d)
  BY <1>2 DEF SettingDelay, Seen, Peeks
<1>11. /\ c.seen = clk.seen /\ c.phase = clk.phase /\ c.load = clk.load /\ c.irq = clk.irq
       /\ c.announced_cycles = clk.announced_cycles /\ c.cycle_count = clk.cycle_count
       /\ InStep(clk) => InStep(c)
  BY <1>2 DEF Peeks, InStep
<1>12. CASE n[1].to = to
  <2>1. k = Reprogram(c, n, announce_remaining, d)
    BY <1>1, <1>12
  <2>2. PICK ticks \in Nat :
          /\ Sets(k, c, ticks, d)
          /\ announce_remaining = 0 /\ n # <<>> /\ InStep(c) =>
               Suits(ticks, n[1].dticks, c)
    BY <1>4, <1>8, <1>10, <2>1, ReprogramSpec
  <2>3. /\ ClockOK(k) /\ k.announced_cycles = clk.announced_cycles
        /\ k.cycle_count = k.seen /\ k.seen = c.seen + (d.val + d.calc)
    BY <1>11, <2>2 DEF Sets
  <2>4. clk.cycle_count <= k.cycle_count
    <3>1. d.val + d.calc \in Nat
      BY DEF SettingDelay, Delays
    <3>2. QED
      BY <1>11, <2>3, <3>1, CountBehind
  <2>5. ASSUME announce_remaining = 0, InStep(clk), Tick(clk) PROVE Alarm(k, n[1].dticks)
    <3>1. PICK A \in Nat : c.announced_cycles = A * CYC_PER_TICK
      BY <1>11, <2>5 DEF Tick
    <3>2. Suits(ticks, n[1].dticks, c) /\ InStep(c)
      BY <1>7, <1>11, <2>2, <2>5
    <3>3. QED
      BY <1>4, <1>8, <1>10, <2>2, <3>1, <3>2, AlarmSet
  <2>6. QED
    BY <1>3, <1>7, <1>9, <2>3, <2>4, <2>5 DEF Added, AlarmOf, n, k
<1>13. CASE n[1].to # to
  <2>1. k = c
    BY <1>1, <1>13
  <2>2. clk.cycle_count <= k.cycle_count
    BY <1>11, <2>1, CountBehind
  <2>3. ASSUME Tick(clk), AlarmOf(clk, l), ~ k.irq PROVE Alarm(k, n[1].dticks)
    <3>1. PICK A \in Nat : clk.announced_cycles = A * CYC_PER_TICK
      BY <2>3 DEF Tick
    <3>2. Alarm(clk, n[1].dticks)
      BY <1>7, <1>11, <1>13, <2>1, <2>3 DEF AlarmOf
    <3>3. Counting(clk) /\ clk.phase <= clk.seen /\ n[1].dticks <= n[1].dticks
      BY <1>8, CountBehind DEF ClockOK
    <3>4. k.seen - k.phase = clk.seen - clk.phase /\ k.load = clk.load /\ k.announced_cycles = clk.announced_cycles
      BY <1>11, <2>1
    <3>5. QED
      BY <1>8, <3>1, <3>2, <3>3, <3>4, AlarmLater
  <2>4. QED
    BY <1>3, <1>4, <1>7, <1>9, <1>11, <2>1, <2>2, <2>3 DEF Added, AlarmOf, n, k
<1>14. QED
  BY <1>12, <1>13

-----------------------------------------------------------------------------
(* The loop of sys_clock_announce.                                         *)
Isrs == [at : {"none", "fn", "expiry"}, to : TO \cup {NULL}, dt : Nat, due : Nat, tick : Nat]

(* The announcement and the list: where it is, what it has in hand, and    *)
(* that curr_tick follows the cycles announced.                            *)
IsrOK ==
  /\ isr \in Isrs
  /\ isr.at = "none" => isr = NoIsr /\ announce_remaining = 0 /\ (list # <<>> => list[1].dticks >= 1)
  /\ isr.at # "none" => isr.to \in TO /\ isr.dt <= announce_remaining /\ isr.tick = curr_tick
  /\ isr.at = "expiry" => isr.to \in Timers
  /\ clk.announced_cycles = (curr_tick + (announce_remaining - isr.dt)) * CYC_PER_TICK

Core ==
  /\ ClockOK(clk) /\ curr_tick \in Nat /\ announce_remaining \in Nat
  /\ ListOK(list, curr_tick) /\ period \in [Timers -> Nat] /\ IsrOK

(* What holds while announcements keep up with the driver's 32 bits.       *)
Timely ==
  /\ Asked(list) /\ clk.announced_cycles <= clk.cycle_count
  /\ isr.at # "none" => isr.due <= curr_tick * CYC_PER_TICK
  /\ isr.at = "none" => AlarmOf(clk, list)

Announcing == clk.seen + 1 - clk.announced_cycles < 2 * HalfWrap

Looped(c, l) ==
  /\ ClockOK(clk') /\ curr_tick' \in Nat /\ announce_remaining' \in Nat
  /\ ListOK(list', curr_tick') /\ IsrOK'
  /\ isr'.at \in {"none", "fn"}
  /\ isr'.at = "none" => Linked(list') = Linked(l)
  /\ isr'.at = "fn" => Linked(list') = Linked(l) \ {isr'.to} /\ isr'.to \in Linked(l)
  /\ Asked(l) /\ c.announced_cycles <= c.cycle_count /\ Announcing' => Timely'

(* The head of the loop, with rem ticks still to announce.                 *)
LEMMA LoopSpec ==
  ASSUME LongPeriods, NEW c, ClockOK(c), curr_tick \in Nat, NEW l, ListOK(l, curr_tick),
         NEW rem \in Nat, c.announced_cycles = (curr_tick + rem) * CYC_PER_TICK,
         NEW d, SettingDelay(c, d), d.val + d.calc \in Nat, AnnounceLoop(c, l, rem, d)
  PROVE  Looped(c, l)
<1>0. l \in Seq(Nodes) /\ CYC_PER_TICK \in Nat
  BY ClockConstants DEF ListOK
<1>1. CASE l # <<>> /\ l[1].dticks <= rem
  <2> DEFINE x == l[1]
             dt == l[1].dticks
  <2>1. /\ isr' = [at |-> "fn", to |-> x.to, dt |-> dt, due |-> x.due, tick |-> x.tick]
        /\ curr_tick' = curr_tick + dt /\ list' = Tail(l)
        /\ announce_remaining' = rem /\ clk' = c
    BY <1>1 DEF AnnounceLoop
  <2>2. x \in Nodes /\ x.to \in TO /\ dt \in Nat /\ x.tick \in Nat /\ x.due \in Nat
    BY <1>0, <1>1, NodesOf DEF TO
  <2>3. /\ ListOK(Tail(l), curr_tick + dt) /\ Linked(Tail(l)) = Linked(l) \ {x.to}
        /\ x.to \in Linked(l) /\ x.tick = curr_tick + dt
        /\ Asked(l) => Asked(Tail(l)) /\ x.due <= x.tick * CYC_PER_TICK
    BY <1>1, TailKeeps
  <2>4. dt <= rem
    BY <1>1
  <2> HIDE DEF x, dt
  <2>5. /\ isr' \in Isrs /\ isr'.at = "fn" /\ isr'.to = x.to /\ isr'.dt = dt
        /\ isr'.due = x.due /\ isr'.tick = x.tick
    BY <2>1, <2>2 DEF Isrs
  <2>6. (curr_tick + dt) + (rem - dt) = curr_tick + rem
    BY <2>2
  <2>7. IsrOK'
    BY <2>1, <2>2, <2>3, <2>4, <2>5, <2>6 DEF IsrOK
  <2>8. curr_tick' \in Nat /\ announce_remaining' \in Nat /\ ClockOK(clk') /\ ListOK(list', curr_tick')
    BY <2>1, <2>2, <2>3
  <2>9. ASSUME Asked(l), c.announced_cycles <= c.cycle_count PROVE Timely'
    <3>1. Asked(list') /\ clk'.announced_cycles <= clk'.cycle_count
      BY <2>1, <2>3, <2>9
    <3>2. isr'.due <= curr_tick' * CYC_PER_TICK
      BY <2>1, <2>3, <2>5, <2>9
    <3>3. QED
      BY <2>5, <3>1, <3>2 DEF Timely
  <2>10. QED
    BY <2>1, <2>3, <2>5, <2>7, <2>8, <2>9 DEF Looped
<1>2. CASE ~(l # <<>> /\ l[1].dticks <= rem)
  <2> DEFINE n == list'
             k == clk'
  <2>1. /\ n = IF l = <<>> THEN l ELSE [l EXCEPT ![1].dticks = @ - rem]
        /\ curr_tick' = curr_tick + rem /\ announce_remaining' = 0
        /\ k = Reprogram(c, n, 0, d) /\ isr' = NoIsr
    BY <1>2 DEF AnnounceLoop
  <2> HIDE DEF n, k
  <2>2. /\ ListOK(n, curr_tick + rem) /\ Linked(n) = Linked(l) /\ (Asked(l) => Asked(n))
        /\ n # <<>> => n[1].dticks >= 1 /\ n[1].dticks \in Nat
    <3>1. CASE l = <<>>
      <4>1. n = <<>> /\ Len(n) = 0
        BY <2>1, <3>1
      <4>2. ListOK(n, curr_tick + rem)
        BY <4>1 DEF ListOK, Unique, Dated
      <4>3. QED
        BY <2>1, <3>1, <4>1, <4>2
    <3>2. CASE l # <<>>
      <4>1. l[1].dticks \in Nat
        BY <1>0, <3>2, NodesOf
      <4>2. rem <= l[1].dticks /\ l[1].dticks - rem >= 1 /\ l[1].dticks - rem \in Nat
        BY <1>2, <3>2, <4>1
      <4>3. Less(n, l, rem)
        BY <2>1, <3>2 DEF Less
      <4>4. QED
        BY <3>2, <4>2, <4>3, LessKeeps
    <3>3. QED
      BY <3>1, <3>2
  <2>3. n \in Seq(Nodes)
    BY <2>2 DEF ListOK
  <2>4. PICK ticks \in Nat :
          /\ Sets(k, c, ticks, d)
          /\ n # <<>> /\ InStep(c) =>
               Suits(ticks, n[1].dticks, c)
    BY <2>1, <2>3, ReprogramSpec
  <2>5. /\ ClockOK(k) /\ k.announced_cycles = c.announced_cycles
        /\ k.cycle_count = k.seen /\ k.seen = c.seen + (d.val + d.calc)
    BY <2>4 DEF Sets
  <2>6. isr' \in Isrs /\ isr'.at = "none" /\ isr'.dt = 0
    BY <2>1 DEF NoIsr, Isrs
  <2>7. curr_tick + rem + (0 - 0) = curr_tick + rem /\ curr_tick + rem \in Nat
    OBVIOUS
  <2>8. IsrOK'
    BY <2>1, <2>2, <2>5, <2>6, <2>7 DEF IsrOK, n, k
  <2>9. ASSUME Asked(l), c.announced_cycles <= c.cycle_count, Announcing' PROVE Timely'
    <3>1. c.seen \in Nat /\ c.announced_cycles \in Nat /\ c.cycle_count \in Nat /\ c.cycle_count <= c.seen
      BY CountBehind
    <3>2. k.announced_cycles <= k.cycle_count
      BY <2>5, <2>9, <3>1
    <3>3. InStep(c)
      <4>1. k.seen + 1 - k.announced_cycles < 2 * HalfWrap
        BY <2>9 DEF Announcing, k
      <4>2. 2 * HalfWrap \in Nat
        BY ClockConstants
      <4>3. QED
        BY <2>5, <2>9, <3>1, <4>1, <4>2 DEF InStep
    <3>4. AlarmOf(k, n)
      <4>1. SUFFICES ASSUME n # <<>> PROVE Alarm(k, n[1].dticks)
        BY DEF AlarmOf
      <4>2. curr_tick + rem \in Nat
        OBVIOUS
      <4>3. QED
        BY <2>2, <2>4, <3>3, <4>1, <4>2, AlarmSet
    <3>5. QED
      BY <2>2, <2>6, <2>9, <3>2, <3>4 DEF Timely, n, k
  <2>10. QED
    BY <2>1, <2>2, <2>5, <2>6, <2>7, <2>8, <2>9 DEF Looped, n, k
<1>3. QED
  BY <1>1, <1>2

-----------------------------------------------------------------------------
(* The steps.  Each keeps Core, and Timely while announcements keep up.    *)
Kept == Core' /\ (Timely /\ Announcing /\ Announcing' => Timely')

(* The driver's prerequisite, for the delays of a reprogramming ...        *)
LEMMA SettingSeen ==
  ASSUME NEW d \in Setting
  PROVE  SettingDelay(clk, d) /\ d.val + d.calc \in Nat
BY DEF Setting, InTime, SettingDelay, Seen, Delays

(* ... and of a read.                                                      *)
LEMMA ReadingSeen ==
  ASSUME NEW d \in Reading
  PROVE  d \in Delays /\ d.ctrl + d.val <= 1 /\ Seen(clk, d.ctrl + d.val)
BY DEF Reading, InTime, Seen

(* An alarm stays good until the next wrap, and when its timeout is        *)
(* aborted.                                                                *)
LEMMA AlarmStays ==
  ASSUME NEW t \in Nat, NEW l, ListOK(l, t), NEW n, ListOK(n, t),
         n # <<>> => l # <<>> /\ l[1].dticks <= n[1].dticks,
         NEW c, ClockOK(c), Tick(c), AlarmOf(c, l),
         NEW e, e.irq \/ (~ c.irq /\ e.seen - e.phase = c.seen - c.phase), e.load = c.load,
         e.announced_cycles = c.announced_cycles
  PROVE  AlarmOf(e, n)
<1>1. SUFFICES ASSUME n # <<>>, ~ e.irq PROVE Alarm(e, n[1].dticks)
  BY DEF AlarmOf
<1>2. l[1].dticks \in Nat /\ n[1].dticks \in Nat /\ l[1].dticks <= n[1].dticks /\ l # <<>>
  BY <1>1, NodesOf DEF ListOK
<1>3. Alarm(c, l[1].dticks)
  BY <1>1, <1>2 DEF AlarmOf
<1>4. PICK A \in Nat : c.announced_cycles = A * CYC_PER_TICK
  BY DEF Tick
<1>5. Counting(c) /\ c.phase <= c.seen /\ e.seen - e.phase = c.seen - c.phase
  BY <1>1, CountBehind DEF ClockOK
<1>6. QED
  BY <1>2, <1>3, <1>4, <1>5, AlarmLater

(* What the steps take from Core.                                          *)
LEMMA CoreTick ==
  ASSUME Core
  PROVE  /\ Tick(clk) /\ ClockOK(clk) /\ curr_tick \in Nat /\ announce_remaining \in Nat
         /\ ListOK(list, curr_tick) /\ IsrOK /\ isr.dt \in Nat /\ announce_remaining - isr.dt \in Nat
         /\ clk.announced_cycles = (curr_tick + (announce_remaining - isr.dt)) * CYC_PER_TICK
         /\ isr.at = "none" => /\ announce_remaining = 0 /\ isr.dt = 0
                               /\ clk.announced_cycles = curr_tick * CYC_PER_TICK
<1>1. /\ ClockOK(clk) /\ curr_tick \in Nat /\ announce_remaining \in Nat
      /\ ListOK(list, curr_tick) /\ IsrOK
  BY DEF Core
<1>2. /\ isr.dt \in Nat /\ isr.at \in {"none", "fn", "expiry"}
      /\ isr.at = "none" => isr.dt = 0 /\ announce_remaining = 0
      /\ isr.at # "none" => isr.dt <= announce_remaining
      /\ clk.announced_cycles = (curr_tick + (announce_remaining - isr.dt)) * CYC_PER_TICK
  BY <1>1 DEF IsrOK, Isrs, NoIsr
<1>3. announce_remaining - isr.dt \in Nat
  BY <1>1, <1>2
<1>4. curr_tick + (announce_remaining - isr.dt) \in Nat
  BY <1>1, <1>3
<1>5. Tick(clk)
  BY <1>2, <1>4 DEF Tick
<1>6. ASSUME isr.at = "none" PROVE clk.announced_cycles = curr_tick * CYC_PER_TICK
  <2>1. curr_tick + (announce_remaining - isr.dt) = curr_tick
    BY <1>1, <1>2, <1>6
  <2>2. QED
    BY <1>2, <2>1
<1>7. QED
  BY <1>1, <1>2, <1>3, <1>5, <1>6

(* A step that does not touch the timeouts.                                *)
LEMMA IdleKeeps ==
  ASSUME Core, UNCHANGED timeouts, period' = period
  PROVE  Kept
<1>1. /\ clk' = clk /\ list' = list /\ curr_tick' = curr_tick
      /\ announce_remaining' = announce_remaining /\ isr' = isr
  BY DEF timeouts
<1>2. Core'
  BY <1>1 DEF Core, IsrOK
<1>3. Timely => Timely'
  BY <1>1 DEF Timely
<1>4. QED
  BY <1>2, <1>3 DEF Kept

(* The clock is read or runs on, or a timeout is aborted.                  *)
LEMMA ClockMoves ==
  ASSUME Core, ClockOK(clk'), clk'.announced_cycles = clk.announced_cycles,
         clk.cycle_count <= clk'.cycle_count, clk'.load = clk.load,
         clk'.irq \/ (~ clk.irq /\ clk'.seen - clk'.phase = clk.seen - clk.phase),
         ListOK(list', curr_tick), Asked(list) => Asked(list'),
         list' # <<>> => list # <<>> /\ list[1].dticks <= list'[1].dticks,
         UNCHANGED <<curr_tick, announce_remaining, isr, period>>
  PROVE  Kept
<1> DEFINE k == clk'
           n == list'
<1>0. /\ ClockOK(k) /\ k.announced_cycles = clk.announced_cycles
      /\ clk.cycle_count <= k.cycle_count /\ k.load = clk.load
      /\ k.irq \/ (~ clk.irq /\ k.seen - k.phase = clk.seen - clk.phase)
      /\ ListOK(n, curr_tick) /\ (Asked(list) => Asked(n))
      /\ n # <<>> => list # <<>> /\ list[1].dticks <= n[1].dticks
  OBVIOUS
<1>1. /\ ClockOK(clk) /\ Tick(clk) /\ ListOK(list, curr_tick) /\ curr_tick \in Nat /\ IsrOK
  BY CoreTick
<1>2. /\ curr_tick' = curr_tick /\ announce_remaining' = announce_remaining /\ isr' = isr
      /\ period' = period
  OBVIOUS
<1> HIDE DEF k, n
<1>3. n # <<>> => (list[1].dticks >= 1 => n[1].dticks >= 1)
  BY <1>0, <1>1, NodesOf DEF ListOK
<1>4. IsrOK'
  BY <1>0, <1>1, <1>2, <1>3 DEF IsrOK, k, n
<1>5. Core'
  BY <1>0, <1>1, <1>2, <1>4 DEF Core, k, n
<1>6. ASSUME Timely PROVE Timely'
  <2>1. isr.at = "none" => AlarmOf(k, n)
    BY <1>0, <1>1, <1>6, AlarmStays DEF Timely
  <2>2. k.announced_cycles <= k.cycle_count
    BY <1>0, <1>1, <1>6, CountBehind DEF Timely
  <2>3. QED
    BY <1>0, <1>2, <1>6, <2>1, <2>2 DEF Timely, k, n
<1>7. QED
  BY <1>5, <1>6 DEF Kept

(* A cycle passes.                                                         *)
LEMMA CycleKeeps ==
  ASSUME Core, Cycle
  PROVE  Kept
<1> DEFINE k == clk'
           c == clk
<1>1. ClockOK(c) /\ ListOK(list, curr_tick) /\ curr_tick \in Nat
  BY CoreTick
<1>2. k = Run(c, 1) /\ (c.flag => c.phase + 1 < c.load)
  BY DEF Cycle, InTime
<1>3. Ran(k, c, 1)
  BY <1>1, <1>2, RunSpec DEF ClockOK
<1>4. /\ UNCHANGED <<curr_tick, announce_remaining, isr, period>> /\ list' = list
  BY DEF Cycle, timers
<1> HIDE DEF k, c
<1>5. /\ c.seen \in Nat /\ c.phase \in Nat /\ c.load \in Nat /\ c.flag \in BOOLEAN
      /\ c.irq \in BOOLEAN /\ c.cycle_count \in Nat /\ c.overflow_cyc \in Nat /\ c.phase < c.load
      /\ (c.cycle_count + (c.phase + c.overflow_cyc)) + Pending(c) = c.seen
  BY <1>1, ClockFields DEF ClockOK, Counting, Told, Elapsed
<1>6. /\ Counting(k) /\ k.seen = c.seen + 1 /\ k.load = c.load
      /\ k.phase = IF c.phase + 1 < c.load THEN c.phase + 1 ELSE 0
      /\ k.flag = (c.flag \/ c.phase + 1 >= c.load) /\ k.irq = (c.irq \/ c.phase + 1 >= c.load)
      /\ k.cycle_count = c.cycle_count /\ k.announced_cycles = c.announced_cycles
      /\ k.overflow_cyc = c.overflow_cyc
  BY <1>3 DEF Ran
<1>7. /\ c.phase + 1 < c.load => /\ k.phase = c.phase + 1 /\ Pending(k) = Pending(c)
                                 /\ k.seen - k.phase = c.seen - c.phase /\ k.irq = c.irq
      /\ ~(c.phase + 1 < c.load) => /\ k.phase = 0 /\ k.irq /\ Pending(k) = c.load
                                    /\ Pending(c) = 0 /\ c.load = c.phase + 1
  <2>1. CASE c.phase + 1 < c.load
    <3>1. ~(c.phase + 1 >= c.load)
      BY <1>5, <2>1
    <3>2. k.flag = c.flag /\ k.irq = c.irq
      BY <1>5, <1>6, <3>1, Zenon
    <3>3. QED
      BY <1>5, <1>6, <2>1, <3>2 DEF Pending
  <2>2. CASE ~(c.phase + 1 < c.load)
    <3>1. c.phase + 1 >= c.load
      BY <1>5, <2>2
    <3>2. k.flag = TRUE /\ k.irq = TRUE /\ c.flag = FALSE
      BY <1>2, <1>5, <1>6, <2>2, <3>1, Zenon
    <3>3. QED
      BY <1>5, <1>6, <2>2, <3>2 DEF Pending
  <2>3. QED
    BY <2>1, <2>2
<1>8. Pending(c) \in Nat /\ Pending(k) \in Nat
  BY <1>5, <1>7 DEF Pending
<1>9. Told(k)
  BY <1>5, <1>6, <1>7, <1>8 DEF Told, Elapsed
<1>10. ClockOK(k) /\ k.announced_cycles = c.announced_cycles /\ c.cycle_count <= k.cycle_count
  BY <1>5, <1>6, <1>9 DEF ClockOK
<1>11. k.irq \/ (~ c.irq /\ k.seen - k.phase = c.seen - c.phase)
  BY <1>5, <1>7
<1>12. list # <<>> => list[1].dticks \in Nat
  BY <1>1, NodesOf DEF ListOK
<1>13. QED
  BY <1>1, <1>4, <1>6, <1>10, <1>11, <1>12, ClockMoves DEF k, c

(* The clock is read.                                                      *)
LEMMA ReadKeeps ==
  ASSUME Core, NEW d \in Reading, ReadClock(d)
  PROVE  Kept
<1> DEFINE k == clk'
           c == clk
           m == d.ctrl + d.val
<1>1. ClockOK(c) /\ ListOK(list, curr_tick) /\ curr_tick \in Nat
  BY CoreTick
<1>2. k = elapsed(c, d) /\ UNCHANGED <<curr_tick, announce_remaining, isr, period>> /\ list' = list
  BY DEF ReadClock, timers
<1>3. d \in Delays /\ m <= 1 /\ Seen(c, m) /\ m \in {0, 1}
  BY ReadingSeen DEF Delays
<1>4. Reads(k, c, m)
  BY <1>1, <1>2, <1>3, ElapsedSpec
<1> HIDE DEF k, c, m
<1>5. /\ c.seen \in Nat /\ c.phase \in Nat /\ c.load \in Nat /\ c.irq \in BOOLEAN /\ c.cycle_count \in Nat
  BY <1>1, ClockFields DEF ClockOK, Counting
<1>6. /\ ClockOK(k) /\ k.announced_cycles = c.announced_cycles /\ c.cycle_count <= k.cycle_count
      /\ k.load = c.load /\ k.seen = c.seen + m /\ (c.irq => k.irq)
      /\ c.phase + m < c.load => k.phase = c.phase + m /\ k.irq = c.irq
      /\ c.phase + m >= c.load => k.irq
  BY <1>4, <1>5 DEF Reads
<1>7. k.irq \/ (~ c.irq /\ k.seen - k.phase = c.seen - c.phase)
  BY <1>3, <1>5, <1>6
<1>8. list # <<>> => list[1].dticks \in Nat
  BY <1>1, NodesOf DEF ListOK
<1>9. QED
  BY <1>1, <1>2, <1>6, <1>7, <1>8, ClockMoves DEF k, c

(* A timeout is aborted: the alarm may come early, never late.             *)
LEMMA AbortKept ==
  ASSUME Core, NEW to, list' = z_abort_timeout(to),
         UNCHANGED <<clk, curr_tick, announce_remaining, isr, period>>
  PROVE  Kept /\ Linked(list') = Linked(list) \ {to}
<1>1. ClockOK(clk) /\ ListOK(list, curr_tick) /\ curr_tick \in Nat
  BY CoreTick
<1>2. list' = Aborted(list, to)
  BY DEF Aborted, z_abort_timeout
<1>3. /\ ListOK(list', curr_tick) /\ Linked(list') = Linked(list) \ {to} /\ (Asked(list) => Asked(list'))
      /\ list' # <<>> => list # <<>> /\ list[1].dticks <= list'[1].dticks
  BY <1>1, <1>2, AbortKeeps
<1>4. clk.cycle_count <= clk'.cycle_count
  BY <1>1, CountBehind
<1>5. QED
  BY <1>1, <1>3, <1>4, ClockMoves

(* A timeout is added to l, the list with the timeout aborted if it was    *)
(* there; its earliest cycle is kept when that is before its tick.         *)
LEMMA AddKept ==
  ASSUME LongPeriods, Core, NEW l, NEW to \in TO, ListOK(l, curr_tick), to \notin Linked(l),
         l # <<>> => list # <<>> /\ list[1].dticks <= l[1].dticks, Asked(list) => Asked(l),
         NEW dur \in [abs : BOOLEAN, ticks : Nat], NEW d \in Setting, NEW earliest \in Nat,
         Timely /\ Announcing => earliest <= (curr_tick + Waited(clk, dur)) * CYC_PER_TICK,
         NEW now, Peeks(now, clk), now = clk \/ dur.abs,
         z_add_timeout(now, l, to, dur, d, earliest), UNCHANGED <<curr_tick, announce_remaining>>,
         period' \in [Timers -> Nat], isr' \in Isrs,
         isr' = isr \/ (isr.at = "fn" /\ isr'.at = "expiry" /\ isr.to \in Timers
                        /\ \A f \in {"to", "dt", "due", "tick"} : isr'[f] = isr[f])
  PROVE  Kept /\ Added(l, to, dur, earliest)
<1> DEFINE k == clk'
           n == list'
           i == isr'
<1>1. /\ Tick(clk) /\ ClockOK(clk) /\ curr_tick \in Nat /\ announce_remaining \in Nat
      /\ ListOK(list, curr_tick) /\ IsrOK /\ isr.at \in {"none", "fn", "expiry"}
      /\ isr.at = "none" => announce_remaining = 0 /\ (list # <<>> => list[1].dticks >= 1)
      /\ isr \in Isrs
  BY CoreTick DEF IsrOK, Isrs
<1>2. Added(l, to, dur, earliest)
  BY <1>1, SettingSeen, AddSets
<1>3. /\ ClockOK(k) /\ k.announced_cycles = clk.announced_cycles
      /\ clk.cycle_count <= k.cycle_count /\ ListOK(n, curr_tick)
      /\ (l # <<>> => l[1].dticks >= 1) => n[1].dticks >= 1
      /\ Asked(l) /\ earliest <= (curr_tick + Waited(clk, dur)) * CYC_PER_TICK => Asked(n)
      /\ announce_remaining = 0 /\ InStep(clk) /\ AlarmOf(clk, l) => AlarmOf(k, n)
  BY <1>1, <1>2 DEF Added
<1>4. /\ i.to = isr.to /\ i.dt = isr.dt /\ i.due = isr.due /\ i.tick = isr.tick
      /\ i.at = "none" => i = isr
      /\ i.at # "none" => isr.at # "none"
      /\ i.at = "expiry" => isr.at = "expiry" \/ isr.to \in Timers
      /\ i \in Isrs
  <2>1. CASE i = isr
    BY <2>1
  <2>2. CASE isr.at = "fn" /\ i.at = "expiry" /\ isr.to \in Timers /\ \A f \in {"to", "dt", "due", "tick"} : i[f] = isr[f]
    BY <2>2
  <2>3. QED
    BY <2>1, <2>2
<1>5. curr_tick' = curr_tick /\ announce_remaining' = announce_remaining
  OBVIOUS
<1>6. isr.at = "none" => (l # <<>> => l[1].dticks >= 1)
  BY <1>1, NodesOf DEF ListOK
<1> HIDE DEF k, n, i
<1>7. IsrOK'
  <2>1. /\ isr.at = "none" => isr = NoIsr
        /\ isr.at # "none" => isr.to \in TO /\ isr.dt <= announce_remaining /\ isr.tick = curr_tick
        /\ isr.at = "expiry" => isr.to \in Timers
        /\ clk.announced_cycles = (curr_tick + (announce_remaining - isr.dt)) * CYC_PER_TICK
    BY <1>1 DEF IsrOK
  <2>2. i.at = "none" => i = NoIsr /\ announce_remaining = 0 /\ n[1].dticks >= 1
    BY <1>1, <1>3, <1>4, <1>6, <2>1
  <2>3. /\ i.at # "none" => i.to \in TO /\ i.dt <= announce_remaining /\ i.tick = curr_tick
        /\ i.at = "expiry" => i.to \in Timers
        /\ k.announced_cycles = (curr_tick + (announce_remaining - i.dt)) * CYC_PER_TICK
    BY <1>3, <1>4, <2>1
  <2>4. QED
    BY <1>4, <1>5, <2>2, <2>3 DEF IsrOK, k, n, i
<1>8. Core'
  BY <1>1, <1>3, <1>5, <1>7 DEF Core, k, n
<1>9. ASSUME Timely, Announcing PROVE Timely'
  <2>1. Asked(n)
    BY <1>3, <1>9 DEF Timely
  <2>2. k.announced_cycles <= k.cycle_count
    BY <1>1, <1>3, <1>9, CountBehind DEF Timely
  <2>3. i.at # "none" => i.due <= curr_tick * CYC_PER_TICK
    BY <1>4, <1>9 DEF Timely
  <2>4. ASSUME i.at = "none" PROVE AlarmOf(k, n)
    <3>1. isr.at = "none" /\ announce_remaining = 0 /\ AlarmOf(clk, list)
      BY <1>1, <1>4, <1>9, <2>4 DEF Timely
    <3>2. InStep(clk)
      BY <1>9 DEF InStep, Timely, Announcing
    <3>3. clk.irq \/ (~ clk.irq /\ clk.seen - clk.phase = clk.seen - clk.phase)
      OBVIOUS
    <3>4. AlarmOf(clk, l)
      BY <1>1, <3>1, <3>3, AlarmStays
    <3>5. QED
      BY <1>3, <3>1, <3>2, <3>4
  <2>5. QED
    BY <1>5, <2>1, <2>2, <2>3, <2>4 DEF Timely, k, n, i
<1>10. QED
  BY <1>2, <1>8, <1>9 DEF Kept

(* The durations of the calls.                                             *)
LEMMA Duration ==
  ASSUME NEW dur \in Durations
  PROVE  dur \in [abs : BOOLEAN, ticks : Nat] /\ dur.abs \in BOOLEAN /\ dur.ticks \in Nat
BY ClockAssumption

(* A sleeping thread is due no later than the tick of its timeout.         *)
Due(dur) == IF dur.abs THEN dur.ticks * CYC_PER_TICK ELSE clk.seen + dur.ticks * CYC_PER_TICK

(* ... while announcements keep up.                                        *)
LEMMA DueInTime ==
  ASSUME Core, isr.at = "none", NEW dur \in Durations
  PROVE  /\ Due(dur) \in Nat
         /\ Timely /\ Announcing => Due(dur) <= (curr_tick + Waited(clk, dur)) * CYC_PER_TICK
<1> DEFINE C == CYC_PER_TICK
           e == ReadElapsed(clk, announce_remaining)
           E == ElapsedTicks(e, announce_remaining)
<1>1. /\ ClockOK(clk) /\ curr_tick \in Nat /\ announce_remaining = 0 /\ announce_remaining \in Nat
      /\ clk.announced_cycles = curr_tick * C /\ C \in Nat /\ C > 0
  BY CoreTick, ClockConstants
<1>2. dur.abs \in BOOLEAN /\ dur.ticks \in Nat /\ dur.ticks * C \in Nat
  BY <1>1, Duration
<1>3. clk.seen \in Nat /\ clk.announced_cycles \in Nat /\ clk.cycle_count \in Nat /\ clk.cycle_count <= clk.seen
  BY <1>1, CountBehind
<1>4. Due(dur) \in Nat
  BY <1>2, <1>3 DEF Due
<1>5. ASSUME Timely, Announcing PROVE Due(dur) <= (curr_tick + Waited(clk, dur)) * C
  <2>1. CASE dur.abs
    <3> DEFINE w == Waited(clk, dur)
    <3>1. w = IF 1 > dur.ticks - curr_tick THEN 1 ELSE dur.ticks - curr_tick
      BY <2>1 DEF Waited, Dticks, Larger
    <3> HIDE DEF w
    <3>2. curr_tick + w \in Nat /\ dur.ticks <= curr_tick + w
      BY <1>1, <1>2, <3>1
    <3>3. dur.ticks * C <= (curr_tick + w) * C
      BY <1>1, <1>2, <3>2
    <3>4. QED
      BY <2>1, <3>3 DEF Due, w
  <2>2. CASE ~ dur.abs
    <3>1. Waited(clk, dur) = dur.ticks + 1 + E
      BY <2>2 DEF Waited, Dticks
    <3>2. Peeks(e, clk) /\ ~ e.flag
      BY <1>1, ReadSpec
    <3> HIDE DEF e
    <3>3. ClockOK(e) /\ InStep(e) /\ e.seen = clk.seen /\ e.announced_cycles = clk.announced_cycles
      BY <1>5, <3>2 DEF Peeks, InStep, Timely, Announcing
    <3>4. E = (clk.seen - clk.announced_cycles) \div C
      BY <1>1, <3>2, <3>3, TicksNow
    <3> DEFINE u == clk.seen - clk.announced_cycles
    <3>5. u \in Nat
      BY <1>3, <1>5 DEF Timely
    <3> HIDE DEF E
    <3>6. E \in Nat /\ u < (E + 1) * C
      <4>1. E = u \div C
        BY <3>4
      <4> HIDE DEF u, C
      <4>2. E \in Nat /\ u < C * E + C
        BY <1>1, <3>5, <4>1
      <4>3. QED
        BY <1>1, <4>2
    <3>7. (curr_tick + (dur.ticks + 1 + E)) * C = curr_tick * C + dur.ticks * C + (E + 1) * C
      <4> HIDE DEF C
      <4>1. QED
        BY <1>1, <1>2, <3>6
    <3>8. curr_tick * C \in Nat /\ (E + 1) * C \in Nat
      BY <1>1, <3>6
    <3>9. clk.seen + dur.ticks * C <= curr_tick * C + dur.ticks * C + (E + 1) * C
      BY <1>1, <1>2, <1>3, <3>5, <3>6, <3>8
    <3>10. QED
      BY <2>2, <3>1, <3>7, <3>9 DEF Due
  <2>3. QED
    BY <1>2, <2>1, <2>2
<1>6. QED
  BY <1>4, <1>5

(* k_sleep.                                                                *)
LEMMA SleepKeeps ==
  ASSUME LongPeriods, Core, NEW s \in Sleeps, NEW dur \in Durations, NEW d \in Setting, Sleep(s, dur, d)
  PROVE  Kept /\ Linked(list') = Linked(list) \cup {s}
<1>1. /\ isr.at = "none" /\ s \notin Linked(list) /\ UNCHANGED <<curr_tick, announce_remaining, isr, period>>
      /\ z_add_timeout(clk, list, s, dur, d, Due(dur))
  BY DEF Sleep, timers, Due
<1>2. ListOK(list, curr_tick) /\ curr_tick \in Nat
  BY CoreTick
<1>3. list # <<>> => list[1].dticks <= list[1].dticks
  BY <1>2, NodesOf DEF ListOK
<1>4. period' \in [Timers -> Nat] /\ isr' \in Isrs /\ s \in TO
  BY <1>1 DEF Core, IsrOK, TO
<1>5. /\ Due(dur) \in Nat
      /\ Timely /\ Announcing => Due(dur) <= (curr_tick + Waited(clk, dur)) * CYC_PER_TICK
  BY <1>1, DueInTime
<1>6. Kept /\ Added(list, s, dur, Due(dur))
  <2>1. isr' = isr /\ Peeks(clk, clk)
    BY <1>1, CoreTick DEF Peeks
  <2>2. QED
    BY <1>1, <1>2, <1>3, <1>4, <1>5, <2>1, Duration, AddKept
<1>7. QED
  BY <1>6 DEF Added

(* k_timer_start.                                                          *)
LEMMA StartKeeps ==
  ASSUME LongPeriods, Core, NEW m \in Timers, NEW dur \in Durations, NEW p \in Periods,
         NEW d \in Setting, k_timer_start(m, dur, p, d)
  PROVE  Kept /\ Linked(list') = Linked(list) \cup {m}
<1> DEFINE ticks == IF dur.abs THEN dur.ticks ELSE Larger(dur.ticks - 1, 0)
           D == [dur EXCEPT !.ticks = ticks]
           l == z_abort_timeout(m)
<1>1. /\ UNCHANGED <<curr_tick, announce_remaining, isr>> /\ period' = [period EXCEPT ![m] = p]
      /\ z_add_timeout(clk, l, m, D, d, 0)
  BY DEF k_timer_start
<1>2. ListOK(list, curr_tick) /\ curr_tick \in Nat /\ announce_remaining \in Nat /\ ClockOK(clk)
  BY CoreTick
<1>3. dur \in [abs : BOOLEAN, ticks : Nat] /\ ticks \in Nat
  <2>1. dur \in [abs : BOOLEAN, ticks : Nat] /\ dur.ticks \in Nat
    BY Duration
  <2>2. QED
    BY <2>1 DEF Larger
<1>4. D \in [abs : BOOLEAN, ticks : Nat]
  <2> HIDE DEF ticks
  <2>1. QED
    BY <1>3
<1>5. l = Aborted(list, m)
  BY DEF Aborted, z_abort_timeout
<1> HIDE DEF D, l
<1>6. /\ ListOK(l, curr_tick) /\ Linked(l) = Linked(list) \ {m} /\ (Asked(list) => Asked(l))
      /\ l # <<>> => list # <<>> /\ list[1].dticks <= l[1].dticks
  BY <1>2, <1>5, AbortKeeps
<1>7. period' \in [Timers -> Nat] /\ isr' \in Isrs /\ m \in TO /\ isr' = isr
  <2>1. period \in [Timers -> Nat] /\ p \in Nat
    BY ClockAssumption DEF Core
  <2>2. period' \in [Timers -> Nat]
    BY <1>1, <2>1
  <2>3. QED
    BY <1>1, <2>2 DEF Core, IsrOK, TO
<1>8. 0 <= (curr_tick + Waited(clk, D)) * CYC_PER_TICK
  <2> DEFINE c == IF D.abs THEN clk ELSE ReadElapsed(clk, announce_remaining)
             w == Dticks(c, D)
  <2>1. ClockOK(c)
    BY <1>2, ReadSpec DEF Peeks
  <2> HIDE DEF c
  <2>2. w \in Nat
    BY <1>2, <1>4, <2>1, DticksSpec
  <2>3. Waited(clk, D) = w
    BY DEF Waited, c
  <2> HIDE DEF w
  <2>4. QED
    BY <1>2, <2>2, <2>3, ClockConstants
<1>9. Kept /\ Added(l, m, D, 0)
  <2>1. Peeks(clk, clk)
    BY <1>2 DEF Peeks
  <2>2. QED
    BY <1>1, <1>4, <1>6, <1>7, <1>8, <2>1, AddKept
<1>10. QED
  BY <1>6, <1>9 DEF Added

(* A timeout has been handled and the loop goes on.                        *)
LEMMA HandledKeeps ==
  ASSUME LongPeriods, Core, NEW d \in Setting, Handled(d), period' = period
  PROVE  Kept /\ Looped(clk, list)
<1> DEFINE rem == announce_remaining - isr.dt
<1>1. /\ ClockOK(clk) /\ curr_tick \in Nat /\ ListOK(list, curr_tick) /\ rem \in Nat
      /\ clk.announced_cycles = (curr_tick + rem) * CYC_PER_TICK
  BY CoreTick
<1>2. SettingDelay(clk, d) /\ d.val + d.calc \in Nat /\ AnnounceLoop(clk, list, rem, d)
  BY SettingSeen DEF Handled
<1> HIDE DEF rem
<1>3. Looped(clk, list)
  BY <1>1, <1>2, LoopSpec
<1>4. Core'
  BY <1>3 DEF Core, Looped
<1>5. Timely /\ Announcing' => Timely'
  BY <1>3 DEF Looped, Timely
<1>6. QED
  BY <1>3, <1>4, <1>5 DEF Kept

(* The clock that sys_clock_isr hands to sys_clock_announce.               *)
IsrHands(a, c, ticks) ==
  /\ ClockOK(a) /\ ~ a.flag /\ ticks \in Nat
  /\ a.announced_cycles = c.announced_cycles + ticks * CYC_PER_TICK
  /\ c.announced_cycles <= c.cycle_count /\ a.cycle_count - c.announced_cycles < 2 * HalfWrap =>
       a.announced_cycles <= a.cycle_count

(* sys_clock_isr never announces cycles that have not passed.              *)
LEMMA IsrClockSpec ==
  ASSUME NEW c, ClockOK(c), NEW d \in Delays, d.ctrl + d.val <= 1, Seen(c, d.ctrl + d.val)
  PROVE  /\ IsrHands(Announced(IsrClock(c, d)), c, IsrTicks(IsrClock(c, d)))
         /\ Announced(IsrClock(c, d)).cycle_count <= c.seen + 1
<1> DEFINE q == [c EXCEPT !.irq = FALSE]
           m == d.ctrl + d.val
           e == elapsed(q, d)
           i == [e EXCEPT !.cycle_count = @ + e.overflow_cyc, !.overflow_cyc = 0]
           ticks == IsrTicks(i)
           a == [i EXCEPT !.announced_cycles = @ + ticks * CYC_PER_TICK]
           W == 2 * HalfWrap
<1>0. /\ c \in Clocks /\ c.seen \in Nat /\ c.phase \in Nat /\ c.flag \in BOOLEAN
      /\ c.load \in Nat /\ c.cycle_count \in Nat /\ c.announced_cycles \in Nat
      /\ c.overflow_cyc \in Nat /\ c.load > 1 /\ c.phase < c.load /\ m \in {0, 1}
  BY ClockFields DEF ClockOK, Counting, Delays
<1>1. /\ q \in Clocks /\ q.seen = c.seen /\ q.phase = c.phase /\ q.flag = c.flag /\ q.load = c.load
      /\ q.cycle_count = c.cycle_count /\ q.announced_cycles = c.announced_cycles
      /\ q.overflow_cyc = c.overflow_cyc
  BY <1>0 DEF Clocks
<1>2. IsrClock(c, d) = i /\ Announced(i) = a
  BY DEF IsrClock, Announced
<1> HIDE DEF q
<1>3. ClockOK(q) /\ Seen(q, m)
  BY <1>0, <1>1 DEF ClockOK, Counting, Told, Pending, Elapsed, Seen
<1>4. Reads(e, q, m)
  BY <1>3, ElapsedSpec
<1> HIDE DEF e
<1>5. /\ ClockOK(e) /\ ~ e.flag /\ e.seen = c.seen + m /\ e.load = c.load
      /\ e.cycle_count = c.cycle_count /\ e.announced_cycles = c.announced_cycles
  BY <1>1, <1>4 DEF Reads
<1>6. /\ e \in Clocks /\ e.seen \in Nat /\ e.phase \in Nat /\ e.flag \in BOOLEAN
      /\ e.load \in Nat /\ e.cycle_count \in Nat /\ e.announced_cycles \in Nat
      /\ e.overflow_cyc \in Nat /\ e.load > 1 /\ e.phase < e.load
  BY <1>5, ClockFields DEF ClockOK, Counting
<1>7. e.cycle_count + (e.phase + e.overflow_cyc) = e.seen
  BY <1>5, <1>6 DEF ClockOK, Told, Pending, Elapsed
<1>8. /\ i \in Clocks /\ i.seen = e.seen /\ i.phase = e.phase /\ i.flag = e.flag /\ i.load = e.load
      /\ i.cycle_count = e.cycle_count + e.overflow_cyc
      /\ i.announced_cycles = e.announced_cycles /\ i.overflow_cyc = 0
  <2> DEFINE x == e.cycle_count + e.overflow_cyc
  <2>1. x \in Nat /\ i = [e EXCEPT !.cycle_count = x, !.overflow_cyc = 0]
    BY <1>6
  <2> HIDE DEF x, i
  <2>2. /\ i \in Clocks /\ i.seen = e.seen /\ i.phase = e.phase /\ i.flag = e.flag /\ i.load = e.load
        /\ i.cycle_count = x /\ i.announced_cycles = e.announced_cycles /\ i.overflow_cyc = 0
    BY <1>6, <2>1 DEF Clocks
  <2>3. QED
    BY <2>2 DEF x
<1> HIDE DEF i
<1>9. W \in Nat /\ W > 0 /\ CYC_PER_TICK \in Nat /\ CYC_PER_TICK > 0
  BY ClockConstants
<1> DEFINE u == i.cycle_count - i.announced_cycles
<1>10. u \in Int
  BY <1>6, <1>8
<1>11. u % W \in Nat /\ ticks = (u % W) \div CYC_PER_TICK
  <2>1. ticks = (u % W) \div CYC_PER_TICK
    BY DEF IsrTicks, Unannounced
  <2> HIDE DEF u, W
  <2>2. QED
    BY <1>9, <1>10, <2>1
<1>12. ticks \in Nat /\ ticks * CYC_PER_TICK <= u % W /\ ticks * CYC_PER_TICK \in Nat
  <2> DEFINE x == u % W
             C == CYC_PER_TICK
  <2>1. x \in Nat /\ ticks = x \div C /\ C \in Nat /\ C > 0
    BY <1>9, <1>11
  <2> HIDE DEF x, C, ticks
  <2>2. ticks \in Nat /\ C * ticks <= x
    BY <2>1
  <2>3. ticks * C <= x /\ ticks * C \in Nat
    BY <2>1, <2>2
  <2>4. QED
    BY <2>2, <2>3 DEF x, C
<1> HIDE DEF ticks
<1>13. /\ a \in Clocks /\ a.seen = i.seen /\ a.phase = i.phase /\ a.flag = i.flag /\ a.load = i.load
       /\ a.cycle_count = i.cycle_count /\ a.overflow_cyc = 0
       /\ a.announced_cycles = i.announced_cycles + ticks * CYC_PER_TICK
  <2> DEFINE y == ticks * CYC_PER_TICK
  <2>1. y \in Nat /\ a = [i EXCEPT !.announced_cycles = @ + y]
    BY <1>12
  <2> HIDE DEF y, a
  <2>2. i.announced_cycles + y \in Nat
    BY <1>6, <1>8, <2>1
  <2>3. /\ a \in Clocks /\ a.seen = i.seen /\ a.phase = i.phase /\ a.flag = i.flag /\ a.load = i.load
        /\ a.cycle_count = i.cycle_count /\ a.overflow_cyc = 0
        /\ a.announced_cycles = i.announced_cycles + y
    BY <1>8, <2>1, <2>2 DEF Clocks
  <2>4. QED
    BY <2>3 DEF y
<1> HIDE DEF a
<1>14. ClockOK(a) /\ ~ a.flag
  BY <1>5, <1>6, <1>7, <1>8, <1>13 DEF ClockOK, Counting, Told, Pending, Elapsed
<1>15. a.cycle_count <= c.seen + 1
  BY <1>0, <1>5, <1>6, <1>7, <1>8, <1>13
<1>16. ASSUME c.announced_cycles <= c.cycle_count, a.cycle_count - c.announced_cycles < W
       PROVE  a.announced_cycles <= a.cycle_count
  <2>1. u = a.cycle_count - c.announced_cycles /\ u \in Nat /\ u < W
    BY <1>0, <1>5, <1>6, <1>8, <1>13, <1>16
  <2> HIDE DEF u, W
  <2>2. u % W = u
    BY <1>9, <2>1, SmallMod
  <2>3. QED
    BY <1>0, <1>5, <1>6, <1>8, <1>12, <1>13, <2>1, <2>2
<1>17. QED
  <2>1. IsrHands(a, c, ticks)
    BY <1>5, <1>8, <1>12, <1>13, <1>14, <1>16 DEF IsrHands
  <2>2. Announced(IsrClock(c, d)) = a /\ IsrTicks(IsrClock(c, d)) = ticks
    BY <1>2 DEF ticks
  <2>3. QED
    BY <1>15, <2>1, <2>2

(* sys_clock_isr starts an announcement.                                   *)
LEMMA IsrKeeps ==
  ASSUME LongPeriods, Core, NEW d \in Reading, sys_clock_isr(d)
  PROVE  Kept /\ isr.at = "none" /\ \E c : Looped(c, list)
<1> DEFINE a == Announced(IsrClock(clk, d))
           ticks == IsrTicks(IsrClock(clk, d))
<1>1. /\ isr.at = "none" /\ AnnounceLoop(a, list, ticks, NoDelay) /\ period' = period
  BY DEF sys_clock_isr, timers
<1>2. /\ ClockOK(clk) /\ curr_tick \in Nat /\ ListOK(list, curr_tick)
      /\ clk.announced_cycles = curr_tick * CYC_PER_TICK
  BY <1>1, CoreTick
<1>3. IsrHands(a, clk, ticks) /\ a.cycle_count <= clk.seen + 1
  BY <1>2, ReadingSeen, IsrClockSpec
<1> HIDE DEF a, ticks
<1>4. /\ ClockOK(a) /\ ~ a.flag /\ ticks \in Nat
      /\ a.announced_cycles = clk.announced_cycles + ticks * CYC_PER_TICK
      /\ clk.announced_cycles <= clk.cycle_count /\ a.cycle_count - clk.announced_cycles < 2 * HalfWrap =>
           a.announced_cycles <= a.cycle_count
  BY <1>3 DEF IsrHands
<1>5. a.announced_cycles = (curr_tick + ticks) * CYC_PER_TICK
  BY <1>2, <1>4, ClockConstants
<1>6. SettingDelay(a, NoDelay) /\ NoDelay.val + NoDelay.calc \in Nat
  BY <1>4 DEF SettingDelay, NoDelay, Delays, Seen
<1>7. Looped(a, list)
  BY <1>1, <1>2, <1>4, <1>5, <1>6, LoopSpec
<1>8. Core'
  BY <1>1, <1>7 DEF Core, Looped
<1>9. ASSUME Timely, Announcing PROVE a.announced_cycles <= a.cycle_count
  <2>1. clk.announced_cycles \in Nat /\ clk.seen \in Nat /\ a.cycle_count \in Nat
    BY <1>2, <1>4, CountBehind
  <2>2. a.cycle_count - clk.announced_cycles < 2 * HalfWrap
    BY <1>3, <1>9, <2>1, ClockConstants DEF Announcing
  <2>3. QED
    BY <1>4, <1>9, <2>2 DEF Timely
<1>10. Timely /\ Announcing /\ Announcing' => Timely'
  BY <1>7, <1>9 DEF Looped, Timely
<1>11. QED
  BY <1>1, <1>7, <1>8, <1>10 DEF Kept

(* z_timer_expiration_handler: a periodic timer is linked again, and       *)
(* handled on its tick at its period from it.                              *)
LEMMA ExpiryKeeps ==
  ASSUME LongPeriods, Core, NEW d \in Setting, Expiry(d)
  PROVE  /\ Kept /\ isr.to \in Timers /\ isr.to \notin Linked(list)
         /\ Linked(list') = IF period[isr.to] = 0 THEN Linked(list) ELSE Linked(list) \cup {isr.to}
         /\ period[isr.to] # 0 /\ announce_remaining # 0 =>
              timeout_rem(list', isr.to) = period[isr.to]
<1> DEFINE m == isr.to
           c == ReadElapsed(clk, announce_remaining)
           E == ElapsedTicks(c, announce_remaining)
           uptime == curr_tick + E
           p == period[m]
           D == NextTick(m, uptime)
           i == isr'
<1>1. /\ isr.at = "fn" /\ m \in Timers /\ m \notin Linked(list)
      /\ i = [isr EXCEPT !.at = "expiry"]
      /\ IF p = 0 THEN UNCHANGED <<list, clk>> ELSE z_add_timeout(c, list, m, D, d, 0)
      /\ UNCHANGED <<curr_tick, announce_remaining, period>>
  BY DEF Expiry
<1>2. /\ ClockOK(clk) /\ curr_tick \in Nat /\ announce_remaining \in Nat
      /\ ListOK(list, curr_tick) /\ IsrOK
  BY CoreTick
<1>3. isr \in Isrs /\ p \in Nat /\ period \in [Timers -> Nat]
  BY <1>1, <1>2 DEF IsrOK, Core
<1>4. /\ i \in Isrs /\ i.at = "expiry" /\ i.to = m /\ i.dt = isr.dt /\ i.due = isr.due
      /\ i.tick = isr.tick
  BY <1>1, <1>3 DEF Isrs
<1>5. E \in Nat /\ (announce_remaining # 0 => E = 0)
  <2>1. ClockOK(c)
    BY <1>2, ReadSpec DEF Peeks
  <2> HIDE DEF c
  <2>2. QED
    BY <1>2, <2>1, TicksNow DEF ElapsedTicks
<1> HIDE DEF E, i
<1>6. /\ D = [abs |-> TRUE, ticks |-> curr_tick + E + 1 + (IF p - 1 > 0 THEN p - 1 ELSE 0)]
  BY DEF NextTick, Larger
<1>7. curr_tick + E + 1 + (IF p - 1 > 0 THEN p - 1 ELSE 0) \in Nat
  BY <1>2, <1>3, <1>5
<1>8. D \in [abs : BOOLEAN, ticks : Nat] /\ D.abs /\ D.ticks = curr_tick + E + 1 + (IF p - 1 > 0 THEN p - 1 ELSE 0)
  <2> DEFINE x == curr_tick + E + 1 + (IF p - 1 > 0 THEN p - 1 ELSE 0)
  <2>1. D = [abs |-> TRUE, ticks |-> x] /\ x \in Nat
    BY <1>6, <1>7
  <2> HIDE DEF D, x
  <2>2. D \in [abs : BOOLEAN, ticks : Nat] /\ D.abs /\ D.ticks = x
    BY <2>1
  <2>3. QED
    BY <2>2 DEF x
<1> HIDE DEF D, p
<1>9. CASE p = 0
  <2>1. list' = list /\ clk' = clk /\ curr_tick' = curr_tick /\ announce_remaining' = announce_remaining
    BY <1>1, <1>9
  <2>2. IsrOK'
    <3>1. /\ isr.to \in TO /\ isr.dt <= announce_remaining /\ isr.tick = curr_tick
          /\ clk.announced_cycles = (curr_tick + (announce_remaining - isr.dt)) * CYC_PER_TICK
      BY <1>1, <1>2 DEF IsrOK
    <3>2. QED
      BY <1>1, <1>4, <2>1, <3>1 DEF IsrOK, i
  <2>3. Core'
    BY <1>1, <1>2, <1>3, <2>1, <2>2 DEF Core
  <2>4. Timely => Timely'
    BY <1>1, <1>4, <2>1 DEF Timely, i
  <2>5. QED
    BY <1>1, <1>9, <2>1, <2>3, <2>4 DEF Kept, p
<1>10. CASE p # 0
  <2> DEFINE w == Waited(clk, D)
  <2>1. w = IF 1 > D.ticks - curr_tick THEN 1 ELSE D.ticks - curr_tick
    BY <1>8 DEF Waited, Dticks, Larger
  <2>2. D.ticks - curr_tick = E + p /\ p >= 1 /\ E + p \in Nat
    BY <1>2, <1>3, <1>5, <1>8, <1>10 DEF p
  <2> HIDE DEF w
  <2>3. w \in Nat /\ (announce_remaining # 0 => w = p)
    BY <1>3, <1>5, <2>1, <2>2 DEF p
  <2>4. 0 <= (curr_tick + w) * CYC_PER_TICK
    BY <1>2, <2>3, ClockConstants
  <2>5. list # <<>> => list[1].dticks <= list[1].dticks
    BY <1>2, NodesOf DEF ListOK
  <2>6. \A f \in {"to", "dt", "due", "tick"} : i[f] = isr[f]
    BY <1>4
  <2>7. Kept /\ Added(list, m, D, 0)
    <3>1. z_add_timeout(c, list, m, D, d, 0) /\ m \in TO
      BY <1>1, <1>10 DEF TO
    <3>0. Peeks(c, clk) /\ D.abs
      BY <1>2, <1>8, ReadSpec
    <3>2. period' \in [Timers -> Nat] /\ isr' \in Isrs
      BY <1>1, <1>3, <1>4 DEF i
    <3>3. isr.at = "fn" /\ isr'.at = "expiry" /\ isr.to \in Timers /\ \A f \in {"to", "dt", "due", "tick"} : isr'[f] = isr[f]
      BY <1>1, <1>4, <2>6 DEF i
    <3>4. 0 <= (curr_tick + Waited(clk, D)) * CYC_PER_TICK
      BY <2>4 DEF w
    <3>5. UNCHANGED <<curr_tick, announce_remaining>>
      BY <1>1
    <3>6. 0 \in Nat /\ m \notin Linked(list) /\ (Asked(list) => Asked(list))
      BY <1>1
    <3>7. QED
      BY <1>2, <1>8, <2>5, <3>0, <3>1, <3>2, <3>3, <3>4, <3>5, <3>6, AddKept
  <2>8. Linked(list') = Linked(list) \cup {m} /\ timeout_rem(list', m) = w
    BY <2>7 DEF Added, w
  <2>9. QED
    BY <1>1, <1>10, <2>3, <2>7, <2>8 DEF p
<1>11. QED
  BY <1>9, <1>10

(* Every step keeps Core, and Timely while announcements keep up.          *)
LEMMA NextKeeps ==
  ASSUME LongPeriods, Core, [Next]_vars
  PROVE  Kept
<1>1. CASE Cycle
  BY <1>1, CycleKeeps
<1>2. ASSUME NEW d \in Reading, ReadClock(d) \/ sys_clock_isr(d) PROVE Kept
  BY <1>2, ReadKeeps, IsrKeeps
<1>3. ASSUME NEW d \in Setting, ThreadTimeout(d) \/ ExpiryIgnored(d) \/ ExpiryEnds(d) PROVE Kept
  <2>1. Handled(d) /\ period' = period
    BY <1>3 DEF ThreadTimeout, ExpiryIgnored, ExpiryEnds, timers
  <2>2. QED
    BY <2>1, HandledKeeps
<1>4. ASSUME NEW d \in Setting, Expiry(d) PROVE Kept
  BY <1>4, ExpiryKeeps
<1>5. ASSUME NEW d \in Setting, NEW s \in Sleeps, NEW dur \in Durations, Sleep(s, dur, d) PROVE Kept
  BY <1>5, SleepKeeps
<1>6. ASSUME NEW d \in Setting, NEW m \in Timers, NEW dur \in Durations, NEW p \in Periods,
             k_timer_start(m, dur, p, d)
      PROVE  Kept
  BY <1>6, StartKeeps
<1>7. ASSUME NEW s \in Sleeps, Wakeup(s) PROVE Kept
  <2>1. list' = z_abort_timeout(s) /\ UNCHANGED <<clk, curr_tick, announce_remaining, isr, period>>
    BY <1>7 DEF Wakeup, timers
  <2>2. QED
    BY <2>1, AbortKept
<1>8. ASSUME NEW m \in Timers, NEW thread \in BOOLEAN, k_timer_stop(m, thread) PROVE Kept
  <2>1. list' = z_abort_timeout(m) /\ UNCHANGED <<clk, curr_tick, announce_remaining, isr, period>>
    BY <1>8 DEF k_timer_stop
  <2>2. QED
    BY <2>1, AbortKept
<1>9. ASSUME NEW m \in Timers, StopReleases(m) \/ k_timer_status_get(m) PROVE Kept
  BY <1>9, IdleKeeps DEF StopReleases, k_timer_status_get
<1>10. ASSUME NEW s \in Syncers, SyncReturns(s) PROVE Kept
  BY <1>10, IdleKeeps DEF SyncReturns
<1>11. ASSUME NEW s \in Syncers, NEW m \in Timers, k_timer_status_sync(s, m) PROVE Kept
  BY <1>11, IdleKeeps DEF k_timer_status_sync
<1>12. CASE UNCHANGED vars
  BY <1>12, IdleKeeps DEF vars, timers
<1>13. QED
  BY <1>1, <1>2, <1>3, <1>4, <1>5, <1>6, <1>7, <1>8, <1>9, <1>10, <1>11, <1>12 DEF Next

(* The initial states.                                                     *)
LEMMA InitCore ==
  ASSUME LongPeriods, Init
  PROVE  Core /\ Timely
<1>1. /\ clk = sys_clock_driver_init /\ list = <<>> /\ curr_tick = 0 /\ announce_remaining = 0
      /\ isr = NoIsr /\ period = [m \in Timers |-> 0]
  BY DEF Init
<1>2. CYC_PER_TICK \in Nat /\ CYC_PER_TICK > 1
  BY ClockConstants DEF LongPeriods
<1>3. /\ clk \in Clocks /\ clk.seen = 0 /\ clk.phase = 0 /\ clk.flag = FALSE /\ clk.load = CYC_PER_TICK
      /\ clk.cycle_count = 0 /\ clk.announced_cycles = 0 /\ clk.overflow_cyc = 0
  BY <1>1, <1>2 DEF sys_clock_driver_init, Clocks
<1>4. ClockOK(clk)
  BY <1>2, <1>3 DEF ClockOK, Counting, Told, Pending, Elapsed
<1>5. ListOK(list, curr_tick) /\ Asked(list)
  <2>1. list = <<>> /\ Len(list) = 0 /\ list \in Seq(Nodes)
    BY <1>1
  <2>2. QED
    BY <2>1 DEF ListOK, Unique, Dated, Asked
<1>6. /\ isr \in Isrs /\ isr.at = "none" /\ isr.dt = 0
  BY <1>1 DEF NoIsr, Isrs
<1>7. (0 + (0 - 0)) * CYC_PER_TICK = 0
  BY <1>2
<1>8. IsrOK
  BY <1>1, <1>3, <1>6, <1>7 DEF IsrOK
<1>9. Core
  BY <1>1, <1>4, <1>5, <1>8 DEF Core
<1>10. Timely
  BY <1>1, <1>3, <1>5, <1>6 DEF Timely, AlarmOf
<1>11. QED
  BY <1>9, <1>10

(* Core is an invariant.                                                   *)
LEMMA ClockInvariant ==
  ASSUME LongPeriods
  PROVE  Spec => []Core
<1>1. Init => Core
  BY InitCore
<1>2. Core /\ [Next]_vars => Core'
  BY NextKeeps DEF Kept
<1>3. QED
  BY <1>1, <1>2, PTL DEF Spec

(* So is Timely, while announcements keep up.                              *)
LEMMA TimelyInvariant ==
  ASSUME LongPeriods
  PROVE  Spec /\ []Announcing => [](Core /\ Timely)
<1>1. Init => Core /\ Timely
  BY InitCore
<1>2. (Core /\ Timely) /\ Announcing /\ Announcing' /\ [Next]_vars => (Core /\ Timely)'
  BY NextKeeps DEF Kept
<1>3. QED
  BY <1>1, <1>2, PTL DEF Spec

(* The driver counts every cycle once but for those that pass in the two  *)
(* gaps of sys_clock_set_timeout, whatever the order of the reads, wraps   *)
(* and reprogrammings of the counter (elapsed, sys_clock_set_timeout and   *)
(* sys_clock_isr of cortex_m_systick.c), and however late the              *)
(* announcements: for periods of two cycles and more.                      *)
THEOREM OnlyGapsLose ==
  ASSUME LongPeriods
  PROVE  Spec => []OnlyGapsLost
<1>1. ASSUME Core PROVE OnlyGapsLost
  <2>1. Told(clk)
    BY <1>1, CoreTick DEF ClockOK
  <2>2. /\ clk.cycle_count \in Nat /\ clk.phase \in Nat /\ clk.overflow_cyc \in Nat
        /\ clk.load \in Nat
    BY <1>1, CoreTick, ClockFields DEF ClockOK, Counting
  <2>3. QED
    BY <2>1, <2>2 DEF OnlyGapsLost, CyclesKnown, Told, Pending, Elapsed
<1>2. Core => OnlyGapsLost
  BY <1>1
<1>3. QED
  BY <1>2, ClockInvariant, PTL

(* The delta list of timeout.c: as long as announcements come before the   *)
(* driver's 32-bit differences wrap, every timeout is handled at the tick  *)
(* it was set for, never before the time that a sleeping thread asked for, *)
(* and curr_tick keeps up with the cycles announced.                       *)
THEOREM TimeoutsOnTime ==
  ASSUME LongPeriods
  PROVE  Spec /\ []Announcing => []TimeoutsExact
<1>1. ASSUME Core, Timely PROVE TimeoutsExact
  <2>1. /\ ClockOK(clk) /\ curr_tick \in Nat /\ announce_remaining - isr.dt \in Nat
        /\ ListOK(list, curr_tick) /\ IsrOK
        /\ clk.announced_cycles = (curr_tick + (announce_remaining - isr.dt)) * CYC_PER_TICK
    BY <1>1, CoreTick
  <2>2. \A i, j \in 1 .. Len(list) : list[i].to = list[j].to => i = j
    BY <2>1 DEF ListOK, Unique
  <2>3. ASSUME NEW i \in 1 .. Len(list) PROVE z_timeout_expires(list[i].to) = list[i].tick
    <3>1. timeout_rem(list, list[i].to) = Ticks(list, i) /\ curr_tick + Ticks(list, i) = list[i].tick
      BY <2>1, RemOf DEF ListOK, Dated
    <3>2. QED
      BY <3>1 DEF z_timeout_expires
  <2>4. isr.at = "none" /\ list # <<>> => list[1].dticks >= 1
    BY <2>1 DEF IsrOK
  <2>5. ASSUME isr.at # "none" PROVE isr.tick = curr_tick /\ isr.due <= clk.seen
    <3> DEFINE rest == announce_remaining - isr.dt
    <3>1. isr.tick = curr_tick /\ isr.due \in Nat
      BY <2>1, <2>5 DEF IsrOK, Isrs
    <3>2. isr.due <= curr_tick * CYC_PER_TICK /\ clk.announced_cycles <= clk.cycle_count
      BY <1>1, <2>5 DEF Timely
    <3>3. clk.cycle_count \in Nat /\ clk.seen \in Nat /\ clk.announced_cycles \in Nat /\ clk.cycle_count <= clk.seen
      BY <2>1, CountBehind
    <3>4. rest \in Nat /\ clk.announced_cycles = (curr_tick + rest) * CYC_PER_TICK
      BY <2>1
    <3> HIDE DEF rest
    <3>5. curr_tick * CYC_PER_TICK <= (curr_tick + rest) * CYC_PER_TICK /\ curr_tick * CYC_PER_TICK \in Nat
      BY <2>1, <3>4, ClockConstants
    <3>6. QED
      BY <3>1, <3>2, <3>3, <3>4, <3>5
  <2>6. QED
    BY <2>1, <2>2, <2>3, <2>4, <2>5 DEF TimeoutsExact
<1>2. Core /\ Timely => TimeoutsExact
  BY <1>1
<1>3. QED
  BY <1>2, TimelyInvariant, PTL

(* The alarm: with a timeout pending the driver is always programmed to    *)
(* interrupt by its tick, MIN_DELAY apart, under the same condition        *)
(* (z_add_timeout, sys_clock_announce, sys_clock_set_timeout).             *)
THEOREM AlarmsInTime ==
  ASSUME LongPeriods
  PROVE  Spec /\ []Announcing => []AlarmInTime
<1>1. ASSUME Core, Timely PROVE AlarmInTime
  <2>1. isr.at = "none" /\ list # <<>> /\ ~ clk.irq => Alarm(clk, list[1].dticks)
    BY <1>1 DEF Timely, AlarmOf
  <2>2. QED
    BY <2>1 DEF AlarmInTime, Alarm, Ceil
<1>2. Core /\ Timely => AlarmInTime
  BY <1>1
<1>3. QED
  BY <1>2, TimelyInvariant, PTL

(* z_timer_expiration_handler: in the middle of an announcement a periodic *)
(* timer is set for its period after the tick it is handled at, however    *)
(* late the announcement.                                                  *)
THEOREM PeriodsKeepStride ==
  ASSUME LongPeriods
  PROVE  Spec => StrideKept
<1> DEFINE Act == isr.at = "fn" /\ isr'.at = "expiry" /\ period[isr.to] # 0 /\ announce_remaining # 0
                    => z_timeout_expires(isr.to)' = curr_tick + period[isr.to]
<1>1. ASSUME Core, [Next]_vars PROVE [Act]_vars
  <2>1. SUFFICES ASSUME Next, isr.at = "fn", isr'.at = "expiry", period[isr.to] # 0, announce_remaining # 0
                 PROVE  z_timeout_expires(isr.to)' = curr_tick + period[isr.to]
    BY <1>1
  <2>2. ASSUME isr' = isr PROVE FALSE
    BY <2>1, <2>2
  <2>3. ASSUME NEW d \in Setting, Handled(d), period' = period PROVE FALSE
    <3>1. Looped(clk, list)
      BY <1>1, <2>3, HandledKeeps
    <3>2. QED
      BY <2>1, <3>1 DEF Looped
  <2>4. PICK d \in Setting : Expiry(d)
    <3>1. ~ \E d \in Reading : ReadClock(d) \/ sys_clock_isr(d)
      BY <2>1, <2>2 DEF ReadClock, sys_clock_isr
    <3>2. ~ \E d \in Setting : ThreadTimeout(d) \/ ExpiryIgnored(d)
      BY <2>3 DEF ThreadTimeout, ExpiryIgnored, timers
    <3>3. ~ \E d \in Setting : ExpiryEnds(d)
      BY <2>1 DEF ExpiryEnds
    <3>4. ~ \E d \in Setting, s \in Sleeps, dur \in Durations : Sleep(s, dur, d)
      BY <2>2 DEF Sleep
    <3>5. ~ \E d \in Setting, m \in Timers, dur \in Durations, p \in Periods : k_timer_start(m, dur, p, d)
      BY <2>2 DEF k_timer_start
    <3>6. ~ Cycle /\ ~ \E s \in Sleeps : Wakeup(s)
      BY <2>2 DEF Cycle, Wakeup
    <3>7. ~ \E m \in Timers : StopReleases(m) \/ k_timer_status_get(m) \/ \E thread \in BOOLEAN : k_timer_stop(m, thread)
      BY <2>2 DEF StopReleases, k_timer_status_get, k_timer_stop, timeouts
    <3>8. ~ \E s \in Syncers : SyncReturns(s) \/ \E m \in Timers : k_timer_status_sync(s, m)
      BY <2>2 DEF SyncReturns, k_timer_status_sync, timeouts
    <3>9. QED
      BY <2>1, <3>1, <3>2, <3>3, <3>4, <3>5, <3>6, <3>7, <3>8 DEF Next
  <2>5. timeout_rem(list', isr.to) = period[isr.to]
    BY <1>1, <2>1, <2>4, ExpiryKeeps
  <2>6. isr'.to = isr.to /\ curr_tick' = curr_tick
    <3>1. isr \in Isrs
      BY <1>1, CoreTick DEF IsrOK
    <3>2. isr' = [isr EXCEPT !.at = "expiry"] /\ curr_tick' = curr_tick
      BY <2>4 DEF Expiry
    <3>3. QED
      BY <3>1, <3>2 DEF Isrs
  <2>7. QED
    BY <2>5, <2>6 DEF z_timeout_expires
<1>2. Core /\ [Next]_vars => [Act]_vars
  BY <1>1
<1>3. QED
  BY <1>2, ClockInvariant, PTL DEF Spec, StrideKept

-----------------------------------------------------------------------------
(* The threads in k_timer_status_sync.  An expiry and k_timer_stop release *)
(* one waiter only, so a second one may be left behind; and a k_timer_stop *)
(* by an interrupt above the timer's, between the steps of an expiry,      *)
(* comes too late to keep the timer from expiring.                         *)
OneSyncer == \A s, t \in Syncers : s = t
StopsBelow == "stop" \notin Nested

Waiting(s, m) == pc[s].at = "waits" /\ pc[s].timer = m

Synced ==
  /\ wait_q \in [Timers -> Seq(Syncers)]
  /\ pc \in [Syncers -> [at : {"idle", "waits", "woken"}, timer : Timers \cup {NULL}]]
  /\ \A m \in Timers : Distinct(wait_q[m])
  /\ \A s \in Syncers, m \in Timers : s \in Members(wait_q[m]) <=> Waiting(s, m)
  /\ \A s \in Syncers : pc[s].at # "idle" => pc[s].timer \in Timers

(* Whoever waits after a step waited before, for the same timer.           *)
Onward(s) == pc'[s].at = "waits" => pc[s].at = "waits" /\ pc'[s].timer = pc[s].timer

(* Release leaves nobody waiting for m.                                    *)
LEMMA ReleaseFrees ==
  ASSUME OneSyncer, Synced, NEW m \in Timers, Release(m)
  PROVE  /\ Synced'
         /\ \A s \in Syncers : Onward(s) /\ (pc'[s].at = "waits" => pc[s].timer # m)
<1>0. /\ wait_q \in [Timers -> Seq(Syncers)]
      /\ pc \in [Syncers -> [at : {"idle", "waits", "woken"}, timer : Timers \cup {NULL}]]
      /\ \A x \in Timers : Distinct(wait_q[x])
      /\ \A s \in Syncers, x \in Timers : s \in Members(wait_q[x]) <=> Waiting(s, x)
      /\ \A s \in Syncers : pc[s].at # "idle" => pc[s].timer \in Timers
  BY DEF Synced
<1> DEFINE pq == wait_q[m]
           q == wait_q'
           P == pc'
<1>1. pq \in Seq(Syncers) /\ Distinct(pq)
  BY <1>0
<1>2. CASE pq = <<>>
  <2>1. wait_q' = wait_q /\ pc' = pc
    BY <1>2 DEF Release
  <2>2. \A s \in Syncers : ~ Waiting(s, m)
    BY <1>0, <1>1, <1>2, MembersEmpty
  <2>3. Synced'
    BY <2>1 DEF Synced, Waiting
  <2>4. QED
    BY <2>1, <2>2, <2>3 DEF Waiting, Onward
<1>3. CASE pq # <<>>
  <2> DEFINE h == Head(pq)
             new == z_priq_dumb_remove(pq, h)
  <2>1. q = [wait_q EXCEPT ![m] = new] /\ P = [pc EXCEPT ![h].at = "woken"]
    BY <1>3 DEF Release
  <2>2. h \in Syncers /\ h \in Members(pq)
    BY <1>1, <1>3, HeadLinked
  <2> HIDE DEF h
  <2>3. new \in Seq(Syncers) /\ Distinct(new) /\ Members(new) = Members(pq) \ {h}
    BY <1>1, <2>2, RemoveLinks
  <2> HIDE DEF new, q, P
  <2>4. /\ q \in [Timers -> Seq(Syncers)] /\ q[m] = new
        /\ \A x \in Timers : x # m => q[x] = wait_q[x]
    BY <1>0, <2>1, <2>3
  <2>5. \A s \in Syncers : s = h
    BY <2>2 DEF OneSyncer
  <2>6. Waiting(h, m)
    BY <1>0, <2>2
  <2>7. /\ P \in [Syncers -> [at : {"idle", "waits", "woken"}, timer : Timers \cup {NULL}]]
        /\ P[h].at = "woken" /\ P[h].timer = pc[h].timer
    BY <1>0, <2>1, <2>2
  <2>8. \A s \in Syncers : P[s].at = "woken" /\ P[s].timer \in Timers
    BY <1>0, <2>5, <2>6, <2>7 DEF Waiting
  <2>9. \A s \in Syncers, x \in Timers : s \notin Members(q[x])
    <3>1. ASSUME NEW s \in Syncers, NEW x \in Timers, s \in Members(q[x]) PROVE FALSE
      <4>1. CASE x = m
        BY <2>3, <2>4, <2>5, <3>1, <4>1
      <4>2. CASE x # m
        <5>1. Waiting(h, x)
          BY <1>0, <2>4, <2>5, <3>1, <4>2
        <5>2. QED
          BY <2>6, <4>2, <5>1 DEF Waiting
      <4>3. QED
        BY <4>1, <4>2
    <3>2. QED
      BY <3>1
  <2>10. \A x \in Timers : Distinct(q[x])
    BY <1>0, <2>3, <2>4
  <2>11. Synced'
    BY <2>4, <2>7, <2>8, <2>9, <2>10 DEF Synced, Waiting, q, P
  <2>12. QED
    BY <2>8, <2>11 DEF Onward, P
<1>4. QED
  BY <1>2, <1>3

(* k_timer_status_sync makes a thread wait only for a running timer.       *)
LEMMA SyncWaits ==
  ASSUME Synced, NEW s \in Syncers, NEW m \in Timers, k_timer_status_sync(s, m)
  PROVE  /\ Synced'
         /\ \A t \in Syncers : Onward(t) \/ (pc'[t].timer = m /\ m \in Linked(list))
<1>0. /\ wait_q \in [Timers -> Seq(Syncers)]
      /\ pc \in [Syncers -> [at : {"idle", "waits", "woken"}, timer : Timers \cup {NULL}]]
      /\ \A x \in Timers : Distinct(wait_q[x])
      /\ \A t \in Syncers, x \in Timers : t \in Members(wait_q[x]) <=> Waiting(t, x)
      /\ \A t \in Syncers : pc[t].at # "idle" => pc[t].timer \in Timers
  BY DEF Synced
<1> DEFINE q == wait_q'
           P == pc'
<1>1. CASE status[m] = 0 /\ m \in Linked(list)
  <2> DEFINE pq == wait_q[m]
             new == z_priq_dumb_add(pq, s, Prio)
  <2>1. /\ q = [wait_q EXCEPT ![m] = new] /\ P = [pc EXCEPT ![s] = [at |-> "waits", timer |-> m]]
        /\ pc[s].at = "idle"
    BY <1>1 DEF k_timer_status_sync
  <2>2. pq \in Seq(Syncers) /\ Distinct(pq) /\ s \notin Members(pq)
    BY <1>0, <2>1 DEF Waiting
  <2>3. new \in Seq(Syncers) /\ Distinct(new) /\ Members(new) = Members(pq) \cup {s}
    BY <2>2, AddLinks, ClockAssumption
  <2> HIDE DEF new, q, P
  <2>4. /\ q \in [Timers -> Seq(Syncers)] /\ q[m] = new
        /\ \A x \in Timers : x # m => q[x] = wait_q[x]
    BY <1>0, <2>1, <2>3
  <2>5. /\ P \in [Syncers -> [at : {"idle", "waits", "woken"}, timer : Timers \cup {NULL}]]
        /\ P[s].at = "waits" /\ P[s].timer = m
        /\ \A t \in Syncers : t # s => P[t] = pc[t]
    BY <1>0, <2>1
  <2>6. \A x \in Timers : Distinct(q[x])
    BY <1>0, <2>3, <2>4
  <2>7. ASSUME NEW t \in Syncers, NEW x \in Timers
        PROVE  t \in Members(q[x]) <=> P[t].at = "waits" /\ P[t].timer = x
    <3>1. CASE t = s
      <4>1. t \in Members(q[x]) <=> x = m
        <5>1. ~ Waiting(s, x)
          BY <2>1 DEF Waiting
        <5>2. QED
          BY <1>0, <2>3, <2>4, <3>1, <5>1
      <4>2. QED
        BY <2>5, <3>1, <4>1
    <3>2. CASE t # s
      <4>1. t \in Members(q[x]) <=> t \in Members(wait_q[x])
        BY <2>3, <2>4, <3>2
      <4>2. P[t] = pc[t]
        BY <2>5, <3>2
      <4>3. QED
        BY <1>0, <4>1, <4>2 DEF Waiting
    <3>3. QED
      BY <3>1, <3>2
  <2>8. \A t \in Syncers : P[t].at # "idle" => P[t].timer \in Timers
    BY <1>0, <2>5
  <2>9. Synced'
    BY <2>4, <2>5, <2>6, <2>7, <2>8 DEF Synced, Waiting, q, P
  <2>10. \A t \in Syncers : Onward(t) \/ P[t].timer = m
    BY <2>5 DEF Onward, P
  <2>11. QED
    BY <1>1, <2>9, <2>10 DEF P
<1>2. CASE ~(status[m] = 0 /\ m \in Linked(list))
  <2>1. wait_q' = wait_q /\ pc' = pc
    BY <1>2 DEF k_timer_status_sync
  <2>2. QED
    BY <2>1 DEF Synced, Waiting, Onward
<1>3. QED
  BY <1>1, <1>2

(* A released thread returns.                                              *)
LEMMA SyncLeaves ==
  ASSUME Synced, NEW s \in Syncers, SyncReturns(s)
  PROVE  Synced' /\ \A t \in Syncers : Onward(t)
<1> DEFINE P == pc'
<1>1. /\ pc[s].at = "woken" /\ wait_q' = wait_q /\ P = [pc EXCEPT ![s] = [at |-> "idle", timer |-> NULL]]
  BY DEF SyncReturns
<1> HIDE DEF P
<1>2. /\ pc \in [Syncers -> [at : {"idle", "waits", "woken"}, timer : Timers \cup {NULL}]]
      /\ \A t \in Syncers, x \in Timers : t \in Members(wait_q[x]) <=> Waiting(t, x)
      /\ \A t \in Syncers : pc[t].at # "idle" => pc[t].timer \in Timers
  BY DEF Synced
<1>3. /\ P \in [Syncers -> [at : {"idle", "waits", "woken"}, timer : Timers \cup {NULL}]]
      /\ P[s].at = "idle" /\ \A t \in Syncers : t # s => P[t] = pc[t]
  BY <1>1, <1>2
<1>4. \A t \in Syncers, x \in Timers : t \in Members(wait_q[x]) <=> P[t].at = "waits" /\ P[t].timer = x
  BY <1>1, <1>2, <1>3 DEF Waiting
<1>5. \A t \in Syncers : P[t].at # "idle" => P[t].timer \in Timers
  BY <1>2, <1>3
<1>6. Synced'
  BY <1>1, <1>3, <1>4, <1>5 DEF Synced, Waiting, P
<1>7. QED
  BY <1>3, <1>6 DEF Onward, P

(* The two parts of TimersHonest, for a waiter and for a stopped timer.    *)
Stops(st) == {m \in Timers : st[m] > 0}
Awaited(l, st, i, m) == m \in Linked(l) \cup Stops(st) \/ (i.at # "none" /\ i.to = m)
Quiet(l, i, m) == m \notin Linked(l) /\ ~(i.at = "fn" /\ i.to = m)

Honest ==
  Synced /\ TimersHonest /\ stopped \subseteq Timers /\ stopping \in [Timers -> Nat]

(* A step after which whoever waits did so before, or waits for a timer    *)
(* that is awaited, and which leaves the timers of the others awaited.     *)
LEMMA HonestOn ==
  ASSUME Honest, Synced', stopped' \subseteq Timers, stopping' \in [Timers -> Nat],
         \A s \in Syncers : Onward(s) \/ Awaited(list', stopping', isr', pc'[s].timer),
         \A s \in Syncers :
           pc'[s].at = "waits" /\ pc[s].timer \in Timers /\ Awaited(list, stopping, isr, pc[s].timer)
             => Awaited(list', stopping', isr', pc[s].timer),
         \A m \in stopped' : m \in stopped /\ Quiet(list, isr, m) => Quiet(list', isr', m),
         \A m \in stopped' : m \notin stopped => Quiet(list', isr', m)
  PROVE  Honest'
<1>1. \A s \in Syncers : pc[s].at = "waits" => pc[s].timer \in Timers /\ Awaited(list, stopping, isr, pc[s].timer)
  BY DEF Honest, TimersHonest, Awaited, Synced, Stops
<1>2. \A m \in stopped : Quiet(list, isr, m)
  BY DEF Honest, TimersHonest, Quiet
<1>3. ASSUME NEW s \in Syncers, pc'[s].at = "waits" PROVE Awaited(list', stopping', isr', pc'[s].timer)
  <2>1. CASE Onward(s)
    <3>1. pc[s].at = "waits" /\ pc'[s].timer = pc[s].timer
      BY <1>3, <2>1 DEF Onward
    <3>2. Awaited(list', stopping', isr', pc[s].timer)
      BY <1>1, <1>3, <3>1
    <3>3. QED
      BY <3>1, <3>2
  <2>2. QED
    BY <2>1
<1>4. \A m \in stopped' : Quiet(list', isr', m)
  BY <1>2
<1>5. TimersHonest'
  BY <1>3, <1>4 DEF TimersHonest, Awaited, Quiet, Stops
<1>6. QED
  BY <1>5 DEF Honest

(* The loop of sys_clock_announce hands the next timeout to isr; the one   *)
(* it had in hand is done.                                                 *)
LEMMA LoopHonest ==
  ASSUME Honest, Synced', NEW c, Looped(c, list), stopped' = stopped, stopping' = stopping,
         \A s \in Syncers :
           /\ Onward(s)
           /\ pc'[s].at = "waits" /\ pc[s].timer \in Timers /\ isr.at # "none" /\ isr.to = pc[s].timer
                => pc[s].timer \in Linked(list)
  PROVE  Honest'
<1>1. /\ isr'.at \in {"none", "fn"} /\ (isr'.at = "none" => Linked(list') = Linked(list))
      /\ isr'.at = "fn" => Linked(list') = Linked(list) \ {isr'.to} /\ isr'.to \in Linked(list)
  BY DEF Looped
<1>2. \A m : m \in Linked(list) \cup Stops(stopping) => Awaited(list', stopping', isr', m)
  BY <1>1 DEF Awaited
<1>3. \A s \in Syncers :
        pc'[s].at = "waits" /\ pc[s].timer \in Timers /\ Awaited(list, stopping, isr, pc[s].timer)
          => Awaited(list', stopping', isr', pc[s].timer)
  BY <1>2 DEF Awaited
<1>4. \A m \in stopped' : Quiet(list, isr, m) => Quiet(list', isr', m)
  BY <1>1 DEF Quiet
<1>5. stopped' \subseteq Timers /\ stopping' \in [Timers -> Nat]
  BY DEF Honest
<1>6. QED
  BY <1>3, <1>4, <1>5, HonestOn

(* A step that touches neither waiters nor the timers that run.            *)
LEMMA HonestSame ==
  ASSUME Honest, wait_q' = wait_q, pc' = pc, stopping' = stopping, stopped' = stopped, isr' = isr,
         Linked(list') = Linked(list)
  PROVE  Honest'
<1>1. Synced'
  BY DEF Honest, Synced, Waiting
<1>2. TimersHonest'
  BY DEF Honest, TimersHonest
<1>3. QED
  BY <1>1, <1>2 DEF Honest

(* Timeouts are added and aborted.                                         *)
LEMMA HonestLists ==
  ASSUME Honest, wait_q' = wait_q, pc' = pc, isr' = isr, stopping' \in [Timers -> Nat],
         Stops(stopping) \subseteq Stops(stopping'), stopped' \subseteq Timers,
         \A m \in Timers : m \in Linked(list) => m \in Linked(list') \cup Stops(stopping'),
         \A m \in stopped' : m \in stopped /\ m \notin Linked(list) => m \notin Linked(list'),
         \A m \in stopped' : m \notin stopped => Quiet(list', isr', m)
  PROVE  Honest'
<1>1. Synced' /\ \A s \in Syncers : Onward(s)
  BY DEF Honest, Synced, Waiting, Onward
<1>2. \A m \in Timers : Awaited(list, stopping, isr, m) => Awaited(list', stopping', isr', m)
  BY DEF Awaited
<1>3. \A m \in stopped' : m \in stopped /\ Quiet(list, isr, m) => Quiet(list', isr', m)
  BY DEF Quiet
<1>4. QED
  BY <1>1, <1>2, <1>3, HonestOn

(* k_timer_stop.                                                           *)
LEMMA StopHonest ==
  ASSUME OneSyncer, StopsBelow, Core, Honest, NEW m \in Timers, NEW thread \in BOOLEAN,
         k_timer_stop(m, thread)
  PROVE  Honest'
<1>1. /\ isr.at \in {"none", "expiry"} /\ stopped' = stopped \cup {m} /\ list' = z_abort_timeout(m)
      /\ UNCHANGED <<clk, curr_tick, announce_remaining, isr, period>>
  BY DEF k_timer_stop, Calls, StopsBelow
<1>2. /\ Linked(list') = Linked(list) \ {m} /\ stopped' \subseteq Timers
      /\ stopping \in [Timers -> Nat]
  BY <1>1, AbortKept DEF Honest
<1>3. \A x \in stopped' : x \notin stopped => Quiet(list', isr', x)
  BY <1>1, <1>2 DEF Quiet
<1>4. CASE m \notin Linked(list)
  <2>1. wait_q' = wait_q /\ pc' = pc /\ stopping' = stopping
    BY <1>4 DEF k_timer_stop
  <2>2. QED
    BY <1>1, <1>2, <1>3, <1>4, <2>1, HonestLists
<1>5. CASE m \in Linked(list) /\ thread
  <2>1. wait_q' = wait_q /\ pc' = pc /\ stopping' = [stopping EXCEPT ![m] = @ + 1]
    BY <1>5 DEF k_timer_stop
  <2>2. /\ stopping' \in [Timers -> Nat] /\ stopping'[m] > 0
        /\ \A x \in Timers : stopping[x] > 0 => stopping'[x] > 0
    BY <1>2, <2>1
  <2>3. Stops(stopping) \subseteq Stops(stopping') /\ m \in Stops(stopping')
    BY <2>2 DEF Stops
  <2>4. QED
    BY <1>1, <1>2, <1>3, <1>5, <2>1, <2>2, <2>3, HonestLists
<1>6. CASE m \in Linked(list) /\ ~ thread
  <2>1. Release(m) /\ stopping' = stopping
    BY <1>6 DEF k_timer_stop
  <2>2. Synced' /\ \A s \in Syncers : Onward(s) /\ (pc'[s].at = "waits" => pc[s].timer # m)
    BY <2>1, ReleaseFrees DEF Honest
  <2>3. \A s \in Syncers :
          pc'[s].at = "waits" /\ pc[s].timer \in Timers /\ Awaited(list, stopping, isr, pc[s].timer)
            => Awaited(list', stopping', isr', pc[s].timer)
    BY <1>1, <1>2, <2>1, <2>2 DEF Awaited
  <2>4. \A x \in stopped' : x \in stopped /\ Quiet(list, isr, x) => Quiet(list', isr', x)
    BY <1>1, <1>2 DEF Quiet
  <2>5. QED
    BY <1>2, <1>3, <2>1, <2>2, <2>3, <2>4, HonestOn
<1>7. QED
  BY <1>4, <1>5, <1>6

(* The second step of a thread's k_timer_stop.                             *)
LEMMA StopReleasesHonest ==
  ASSUME OneSyncer, Honest, NEW m \in Timers, StopReleases(m)
  PROVE  Honest'
<1>1. /\ stopping' = [stopping EXCEPT ![m] = @ - 1] /\ stopping[m] > 0
      /\ Release(m) /\ stopped' = stopped /\ list' = list /\ isr' = isr
  BY DEF StopReleases, timeouts
<1>0. stopping \in [Timers -> Nat] /\ stopping' \in [Timers -> Nat]
  BY <1>1 DEF Honest
<1>a. \A x \in Stops(stopping) : x # m => x \in Stops(stopping')
  BY <1>0, <1>1 DEF Stops
<1>2. Synced' /\ \A s \in Syncers : Onward(s) /\ (pc'[s].at = "waits" => pc[s].timer # m)
  BY <1>1, ReleaseFrees DEF Honest
<1>3. \A s \in Syncers :
        pc'[s].at = "waits" /\ pc[s].timer \in Timers /\ Awaited(list, stopping, isr, pc[s].timer)
          => Awaited(list', stopping', isr', pc[s].timer)
  BY <1>1, <1>2, <1>a DEF Awaited
<1>4. \A x \in stopped' : Quiet(list, isr, x) => Quiet(list', isr', x)
  BY <1>1
<1>5. stopped' \subseteq Timers
  BY <1>1 DEF Honest
<1>6. QED
  BY <1>0, <1>1, <1>2, <1>3, <1>4, <1>5, HonestOn

(* An expiry is counted, and a periodic timer linked again.                *)
LEMMA ExpiryHonest ==
  ASSUME LongPeriods, Core, Honest, NEW d \in Setting, Expiry(d)
  PROVE  Honest'
<1>1. /\ isr.at = "fn" /\ isr' = [isr EXCEPT !.at = "expiry"] /\ isr \in Isrs
      /\ wait_q' = wait_q /\ pc' = pc /\ stopping' = stopping /\ stopped' = stopped
  BY CoreTick DEF Expiry, IsrOK
<1>2. isr'.at = "expiry" /\ isr'.to = isr.to
  BY <1>1 DEF Isrs
<1>3. /\ isr.to \notin Linked(list)
      /\ Linked(list') = Linked(list) \/ Linked(list') = Linked(list) \cup {isr.to}
  BY ExpiryKeeps
<1>4. Synced' /\ \A s \in Syncers : Onward(s)
  BY <1>1 DEF Honest, Synced, Waiting, Onward
<1>5. \A m : Awaited(list, stopping, isr, m) => Awaited(list', stopping', isr', m)
  BY <1>1, <1>2, <1>3 DEF Awaited
<1>6. \A m \in stopped' : Quiet(list, isr, m) => Quiet(list', isr', m)
  BY <1>1, <1>2, <1>3 DEF Quiet
<1>7. stopped' \subseteq Timers /\ stopping' \in [Timers -> Nat]
  BY <1>1 DEF Honest
<1>8. QED
  BY <1>1, <1>4, <1>5, <1>6, <1>7, HonestOn

(* Every step keeps the waiters' and the stopped timers' promises.         *)
LEMMA NextHonest ==
  ASSUME LongPeriods, OneSyncer, StopsBelow, Core, Honest, [Next]_vars
  PROVE  Honest'
<1>0. /\ stopped \subseteq Timers /\ Synced /\ Timers \cap Sleeps = {}
      /\ stopping \in [Timers -> Nat]
  BY ClockAssumption DEF Honest
<1>1. CASE Cycle
  BY <1>1, HonestSame DEF Cycle, timers
<1>2. ASSUME NEW d \in Reading, ReadClock(d) PROVE Honest'
  BY <1>2, HonestSame DEF ReadClock, timers
<1>3. ASSUME NEW d \in Reading, sys_clock_isr(d) PROVE Honest'
  <2>1. /\ wait_q' = wait_q /\ pc' = pc /\ stopping' = stopping /\ stopped' = stopped
    BY <1>3 DEF sys_clock_isr, timers
  <2>2. Synced' /\ \A s \in Syncers : Onward(s)
    BY <1>0, <2>1 DEF Synced, Waiting, Onward
  <2>3. PICK c : Looped(c, list)
    BY <1>3, IsrKeeps
  <2>4. isr.at = "none"
    BY <1>3, IsrKeeps
  <2>5. QED
    BY <2>1, <2>2, <2>3, <2>4, LoopHonest
<1>4. ASSUME NEW d \in Setting, ThreadTimeout(d) \/ ExpiryIgnored(d) PROVE Honest'
  <2>1. /\ wait_q' = wait_q /\ pc' = pc /\ stopping' = stopping /\ stopped' = stopped
        /\ Handled(d) /\ period' = period /\ isr.to \in Sleeps \cup Linked(list)
    BY <1>4 DEF ThreadTimeout, ExpiryIgnored, timers
  <2>2. Synced' /\ \A s \in Syncers : Onward(s)
    BY <1>0, <2>1 DEF Synced, Waiting, Onward
  <2>3. Looped(clk, list)
    BY <2>1, HandledKeeps
  <2>4. \A s \in Syncers : pc[s].timer \in Timers /\ isr.to = pc[s].timer => pc[s].timer \in Linked(list)
    BY <1>0, <2>1
  <2>5. QED
    BY <2>1, <2>2, <2>3, <2>4, LoopHonest
<1>5. ASSUME NEW d \in Setting, Expiry(d) PROVE Honest'
  BY <1>5, ExpiryHonest
<1>6. ASSUME NEW d \in Setting, ExpiryEnds(d) PROVE Honest'
  <2>1. /\ stopping' = stopping /\ stopped' = stopped /\ Handled(d) /\ period' = period
        /\ isr.at = "expiry" /\ Release(isr.to)
    BY <1>6 DEF ExpiryEnds
  <2>2. isr.to \in Timers
    BY <2>1, CoreTick DEF IsrOK
  <2>3. Synced' /\ \A s \in Syncers : Onward(s) /\ (pc'[s].at = "waits" => pc[s].timer # isr.to)
    BY <1>0, <2>1, <2>2, ReleaseFrees
  <2>4. Looped(clk, list)
    BY <2>1, HandledKeeps
  <2>5. QED
    BY <2>1, <2>3, <2>4, LoopHonest
<1>7. ASSUME NEW d \in Setting, NEW s \in Sleeps, NEW dur \in Durations, Sleep(s, dur, d) PROVE Honest'
  <2>1. /\ wait_q' = wait_q /\ pc' = pc /\ stopping' = stopping /\ stopped' = stopped /\ isr' = isr
    BY <1>7 DEF Sleep, timers
  <2>2. Linked(list') = Linked(list) \cup {s}
    BY <1>7, SleepKeeps
  <2>3. QED
    BY <1>0, <2>1, <2>2, HonestLists
<1>8. ASSUME NEW d \in Setting, NEW m \in Timers, NEW dur \in Durations, NEW p \in Periods,
             k_timer_start(m, dur, p, d)
      PROVE  Honest'
  <2>1. /\ wait_q' = wait_q /\ pc' = pc /\ stopping' = stopping /\ stopped' = stopped \ {m} /\ isr' = isr
    BY <1>8 DEF k_timer_start
  <2>2. Linked(list') = Linked(list) \cup {m}
    BY <1>8, StartKeeps
  <2>3. QED
    BY <1>0, <2>1, <2>2, HonestLists
<1>9. ASSUME NEW s \in Sleeps, Wakeup(s) PROVE Honest'
  <2>1. /\ wait_q' = wait_q /\ pc' = pc /\ stopping' = stopping /\ stopped' = stopped
        /\ list' = z_abort_timeout(s) /\ UNCHANGED <<clk, curr_tick, announce_remaining, isr, period>>
    BY <1>9 DEF Wakeup, timers
  <2>2. Linked(list') = Linked(list) \ {s}
    BY <2>1, AbortKept
  <2>3. QED
    BY <1>0, <2>1, <2>2, HonestLists
<1>10. ASSUME NEW m \in Timers, NEW thread \in BOOLEAN, k_timer_stop(m, thread) PROVE Honest'
  BY <1>10, StopHonest
<1>11. ASSUME NEW m \in Timers, StopReleases(m) PROVE Honest'
  BY <1>11, StopReleasesHonest
<1>12. ASSUME NEW m \in Timers, k_timer_status_get(m) PROVE Honest'
  BY <1>12, HonestSame DEF k_timer_status_get, timeouts
<1>13. ASSUME NEW s \in Syncers, SyncReturns(s) PROVE Honest'
  <2>1. stopping' = stopping /\ stopped' = stopped /\ list' = list /\ isr' = isr
    BY <1>13 DEF SyncReturns, timeouts
  <2>2. Synced' /\ \A t \in Syncers : Onward(t)
    BY <1>0, <1>13, SyncLeaves
  <2>3. QED
    BY <1>0, <2>1, <2>2, HonestOn
<1>14. ASSUME NEW s \in Syncers, NEW m \in Timers, k_timer_status_sync(s, m) PROVE Honest'
  <2>1. stopping' = stopping /\ stopped' = stopped /\ list' = list /\ isr' = isr
    BY <1>14 DEF k_timer_status_sync, timeouts
  <2>2. Synced' /\ \A t \in Syncers : Onward(t) \/ (pc'[t].timer = m /\ m \in Linked(list))
    BY <1>0, <1>14, SyncWaits
  <2>3. \A t \in Syncers : Onward(t) \/ Awaited(list', stopping', isr', pc'[t].timer)
    BY <2>1, <2>2 DEF Awaited
  <2>4. QED
    BY <1>0, <2>1, <2>2, <2>3, HonestOn
<1>15. CASE UNCHANGED vars
  BY <1>15, HonestSame DEF vars, timers, timeouts
<1>16. QED
  BY <1>1, <1>2, <1>3, <1>4, <1>5, <1>6, <1>7, <1>8, <1>9, <1>10, <1>11, <1>12, <1>13, <1>14, <1>15
     DEF Next

(* Nobody waits and every timer is stopped at first.                       *)
LEMMA InitHonest ==
  ASSUME Init
  PROVE  Honest
<1>1. /\ wait_q = [m \in Timers |-> <<>>] /\ pc = [s \in Syncers |-> [at |-> "idle", timer |-> NULL]]
      /\ stopped = Timers /\ list = <<>> /\ isr = NoIsr
      /\ stopping \in [Timers -> Nat]
  BY DEF Init
<1>2. \A s \in Syncers : pc[s].at = "idle"
  BY <1>1
<1>3. \A m \in Timers : wait_q[m] = <<>>
  BY <1>1
<1>4. \A m \in Timers : Distinct(wait_q[m]) /\ Members(wait_q[m]) = {}
  BY <1>3 DEF Distinct, Members
<1>5. wait_q \in [Timers -> Seq(Syncers)]
  BY <1>1
<1>6. pc \in [Syncers -> [at : {"idle", "waits", "woken"}, timer : Timers \cup {NULL}]]
  BY <1>1
<1>7. Synced
  BY <1>2, <1>4, <1>5, <1>6 DEF Synced, Waiting
<1>8. Linked(list) = {} /\ isr.at = "none"
  BY <1>1 DEF Linked, NoIsr
<1>9. TimersHonest
  BY <1>2, <1>8 DEF TimersHonest
<1>10. QED
  BY <1>1, <1>7, <1>9 DEF Honest

(* A thread waits in k_timer_status_sync only while it will be released,   *)
(* and a stopped timer stays silent until it is started again (timer.c),   *)
(* with one thread that waits and no k_timer_stop above the timer's        *)
(* interrupt: for any number of timers and sleeping threads, and restarts  *)
(* in the middle of an announcement.                                       *)
THEOREM TimersKeepFaith ==
  ASSUME LongPeriods, OneSyncer, StopsBelow
  PROVE  Spec => []TimersHonest
<1>1. Init => Core /\ Honest
  BY InitCore, InitHonest
<1>2. (Core /\ Honest) /\ [Next]_vars => (Core /\ Honest)'
  BY NextKeeps, NextHonest DEF Kept
<1>3. Honest => TimersHonest
  BY DEF Honest
<1>4. QED
  BY <1>1, <1>2, <1>3, PTL DEF Spec
==============================================================================
