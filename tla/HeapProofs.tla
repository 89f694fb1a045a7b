----------------------------- MODULE HeapProofs -----------------------------
(***************************************************************************)
(* The walk of module Heap keeps parents, children and roots in agreement  *)
(* and attaches every entry to the innermost scope open at its place,      *)
(* whatever the stream. What is read from the tree it builds rests on      *)
(* that: object IDs and the ends of wires (Wires), the nodes and the wires *)
(* of the scene (Scene), the types of literals and limits (TypedHeap), and *)
(* the texts with their context (Texts).                                   *)
(***************************************************************************)
EXTENDS Scene, Texts, TLAPS, SequenceTheorems, FiniteSetTheorems,
        WellFoundedInduction

\* The inductive invariant: besides the agreement itself, the scope the walk is in
\* is an open entry it has seen, and the lists hold entries it has seen.
HeapInv ==
  /\ stream \in Seq(Entries \cup {Broken})
  /\ flat \in Seq(Entries)
  /\ up \in Seq(Nat)
  /\ down \in Seq(Seq(Nat))
  /\ roots \in Seq(Nat)
  /\ cur \in Nat /\ cur <= Len(flat)
  /\ cur # 0 => flat[cur].scope = "open"
  /\ \A p \in 1 .. Len(down) : \A c \in 1 .. Len(down[p]) : down[p][c] \in Indices
  /\ \A c \in 1 .. Len(roots) : roots[c] \in Indices
  /\ LinksAgree

\* Appending a number larger than all of an ascending list keeps it ascending, and
\* adds just this number to it.
LEMMA AppendAscends ==
  ASSUME NEW s \in Seq(Nat), NEW n \in Nat,
         \A c \in 1 .. Len(s) : s[c] < n,
         \A c, d \in 1 .. Len(s) : c < d => s[c] < s[d]
  PROVE  LET t == Append(s, n)
         IN  /\ t \in Seq(Nat) /\ Len(t) = Len(s) + 1
             /\ t[Len(s) + 1] = n
             /\ \A c \in 1 .. Len(s) : t[c] = s[c]
             /\ \A c, d \in 1 .. Len(t) : c < d => t[c] < t[d]
             /\ \A i \in Nat : (\E c \in 1 .. Len(t) : t[c] = i)
                                 <=> i = n \/ \E c \in 1 .. Len(s) : s[c] = i
<1> DEFINE t == Append(s, n)
<1>1. t \in Seq(Nat) /\ Len(t) = Len(s) + 1 /\ Len(s) \in Nat
  OBVIOUS
<1>2. t[Len(s) + 1] = n /\ \A c \in 1 .. Len(s) : t[c] = s[c]
  OBVIOUS
<1>3. \A c \in 1 .. Len(s) : s[c] \in Nat
  OBVIOUS
<1> HIDE DEF t
<1>4. \A c, d \in 1 .. Len(t) : c < d => t[c] < t[d]
  <2> SUFFICES ASSUME NEW c \in 1 .. Len(t), NEW d \in 1 .. Len(t), c < d
               PROVE  t[c] < t[d]
    OBVIOUS
  <2>1. c \in 1 .. Len(s) /\ t[c] = s[c] /\ s[c] < n
    <3>1. c \in 1 .. Len(s)
      BY <1>1
    <3> QED BY <3>1, <1>2
  <2>2. CASE d = Len(s) + 1
    BY <2>1, <2>2, <1>2
  <2>3. CASE d # Len(s) + 1
    <3>1. d \in 1 .. Len(s)
      <4>1. Len(t) = Len(s) + 1 /\ Len(s) \in Nat
        BY <1>1
      <4>2. d \in Nat /\ 1 <= d /\ d <= Len(s) + 1
        BY <4>1
      <4>3. d # Len(s) + 1
        BY <2>3
      <4>. \A a, b \in Nat : a <= b + 1 /\ a # b + 1 => a <= b
        OBVIOUS
      <4>4. d <= Len(s)
        BY <4>1, <4>2, <4>3, Zenon
      <4> QED BY <4>1, <4>2, <4>4
    <3>2. t[d] = s[d] /\ s[c] < s[d]
      BY <3>1, <2>1, <1>2
    <3> QED BY <3>2, <2>1
  <2> QED BY <2>2, <2>3
<1>5. \A i \in Nat : (\E c \in 1 .. Len(t) : t[c] = i)
                       <=> i = n \/ \E c \in 1 .. Len(s) : s[c] = i
  <2> SUFFICES ASSUME NEW i \in Nat
               PROVE  (\E c \in 1 .. Len(t) : t[c] = i)
                        <=> i = n \/ \E c \in 1 .. Len(s) : s[c] = i
    OBVIOUS
  <2>1. ASSUME NEW c \in 1 .. Len(t), t[c] = i
        PROVE  i = n \/ \E b \in 1 .. Len(s) : s[b] = i
    <3>1. CASE c = Len(s) + 1
      BY <3>1, <2>1, <1>2
    <3>2. CASE c \in 1 .. Len(s)
      BY <3>2, <2>1, <1>2
    <3> QED BY <3>1, <3>2, <1>1
  <2>2. ASSUME i = n PROVE \E c \in 1 .. Len(t) : t[c] = i
    BY <2>2, <1>1, <1>2
  <2>3. ASSUME NEW c \in 1 .. Len(s), s[c] = i PROVE \E b \in 1 .. Len(t) : t[b] = i
    <3>1. c \in 1 .. Len(t) /\ t[c] = i
      BY <2>3, <1>1, <1>2
    <3> QED BY <3>1
  <2> QED BY <2>1, <2>2, <2>3
<1> QED BY <1>1, <1>2, <1>4, <1>5 DEF t

\* A new entry n attached to p, an open entry before it or none, keeps all links in
\* agreement.
LEMMA AttachKeepsLinks ==
  ASSUME HeapInv, NEW e \in Entries, NEW p \in 0 .. Len(flat),
         p # 0 => flat[p].scope = "open",
         flat' = Append(flat, e), up' = Append(up, p), Attach(Len(flat) + 1, p)
  PROVE  /\ flat' \in Seq(Entries) /\ Len(flat') = Len(flat) + 1
         /\ flat'[Len(flat) + 1] = e
         /\ \A i \in Indices : flat'[i] = flat[i]
         /\ up' \in Seq(Nat) /\ down' \in Seq(Seq(Nat)) /\ roots' \in Seq(Nat)
         /\ \A q \in 1 .. Len(down') : \A c \in 1 .. Len(down'[q]) : down'[q][c] \in Indices'
         /\ \A c \in 1 .. Len(roots') : roots'[c] \in Indices'
         /\ LinksAgree'
<1> DEFINE n == Len(flat) + 1
<1>1. /\ Len(flat) \in Nat /\ n \in Nat /\ p \in Nat
      /\ Len(up) = Len(flat) /\ Len(down) = Len(flat)
      /\ flat \in Seq(Entries) /\ up \in Seq(Nat) /\ down \in Seq(Seq(Nat))
      /\ roots \in Seq(Nat)
  BY LenProperties DEF HeapInv, LinksAgree
<1>2. /\ flat' \in Seq(Entries) /\ Len(flat') = n /\ flat'[n] = e
      /\ \A i \in 1 .. n - 1 : flat'[i] = flat[i]
  BY <1>1
<1>3. /\ up' \in Seq(Nat) /\ Len(up') = n /\ up'[n] = p
      /\ \A i \in 1 .. n - 1 : up'[i] = up[i]
  BY <1>1
<1>4. Indices = 1 .. n - 1 /\ Indices' = 1 .. n
  BY <1>1, <1>2 DEF Indices
<1>5. \A i \in 1 .. n - 1 : up[i] \in Nat /\ down[i] \in Seq(Nat)
  BY <1>1
<1> DEFINE g == [i \in 1 .. Len(down) |-> IF i = p THEN Append(down[i], n) ELSE down[i]]
<1>6. g \in Seq(Seq(Nat)) /\ Len(g) = n - 1
      /\ \A i \in 1 .. n - 1 : g[i] = IF i = p THEN Append(down[i], n) ELSE down[i]
  <2>1. \A i \in 1 .. n - 1 : (IF i = p THEN Append(down[i], n) ELSE down[i]) \in Seq(Nat)
    BY <1>1, <1>5
  <2>2. n - 1 = Len(down)
    BY <1>1
  <2> HIDE DEF n
  <2>3. g \in [1 .. Len(down) -> Seq(Nat)]
    BY <2>1, <2>2
  <2>4. Len(down) \in Nat
    BY <1>1
  <2> QED BY <2>2, <2>3, <2>4
<1>7. down' = Append(g, << >>) /\ roots' = IF p = 0 THEN Append(roots, n) ELSE roots
  BY DEF Attach
<1>8. /\ down' \in Seq(Seq(Nat)) /\ Len(down') = n /\ down'[n] = << >>
      /\ \A i \in 1 .. n - 1 : down'[i] = IF i = p THEN Append(down[i], n) ELSE down[i]
  <2> HIDE DEF g, n
  <2>1. << >> \in Seq(Nat)
    OBVIOUS
  <2> QED BY <1>1, <1>6, <1>7, <2>1
<1> HIDE DEF n, g
<1>n. n \in Nat \ {0} /\ p < n /\ n - 1 \in Nat
  BY <1>1 DEF n
<1>o. \A q \in 1 .. n : q # n /\ q # p => q \in 1 .. n - 1 /\ down'[q] = down[q]
  <2> SUFFICES ASSUME NEW q \in 1 .. n, q # n, q # p
               PROVE  q \in 1 .. n - 1 /\ down'[q] = down[q]
    OBVIOUS
  <2>1. q \in 1 .. n - 1
    BY <1>n
  <2>2. down'[q] = IF q = p THEN Append(down[q], n) ELSE down[q]
    BY <2>1, <1>8
  <2> QED BY <2>1, <2>2
<1>9. /\ \A q \in 1 .. n - 1 : \A c \in 1 .. Len(down[q]) : down[q][c] \in 1 .. n - 1
      /\ \A c \in 1 .. Len(roots) : roots[c] \in 1 .. n - 1
  BY <1>1, <1>4, <1>n DEF HeapInv, n
<1>10. /\ \A i \in 1 .. n - 1 : up[i] < i /\ (up[i] # 0 => flat[up[i]].scope = "open")
       /\ \A q \in 1 .. n - 1, i \in 1 .. n - 1 :
            up[i] = q <=> \E c \in 1 .. Len(down[q]) : down[q][c] = i
       /\ \A i \in 1 .. n - 1 : up[i] = 0 <=> \E c \in 1 .. Len(roots) : roots[c] = i
       /\ \A q \in 1 .. n - 1 :
            \A c, d \in 1 .. Len(down[q]) : c < d => down[q][c] < down[q][d]
       /\ \A c, d \in 1 .. Len(roots) : c < d => roots[c] < roots[d]
  BY <1>4 DEF HeapInv, LinksAgree
\* The list of the new entry's parent.
<1>11. ASSUME p # 0
       PROVE  /\ down'[p] \in Seq(Nat) /\ Len(down'[p]) = Len(down[p]) + 1
              /\ \A c \in 1 .. Len(down'[p]) : down'[p][c] \in 1 .. n
              /\ \A c, d \in 1 .. Len(down'[p]) : c < d => down'[p][c] < down'[p][d]
              /\ \A i \in Nat : (\E c \in 1 .. Len(down'[p]) : down'[p][c] = i)
                                  <=> i = n \/ \E c \in 1 .. Len(down[p]) : down[p][c] = i
  <2>1. p \in 1 .. n - 1
    BY <1>1, <1>n, <1>11
  <2>2. down'[p] = Append(down[p], n) /\ down[p] \in Seq(Nat)
    BY <2>1, <1>8, <1>5
  <2>3. \A c \in 1 .. Len(down[p]) : down[p][c] \in 1 .. n - 1 /\ down[p][c] < n
    BY <2>1, <1>9, <1>n
  <2>4. \A c, d \in 1 .. Len(down[p]) : c < d => down[p][c] < down[p][d]
    BY <2>1, <1>10
  <2> DEFINE s == down[p]
             t == Append(s, n)
  <2>5. /\ t \in Seq(Nat) /\ Len(t) = Len(s) + 1 /\ t[Len(s) + 1] = n
        /\ \A c \in 1 .. Len(s) : t[c] = s[c]
        /\ \A c, d \in 1 .. Len(t) : c < d => t[c] < t[d]
        /\ \A i \in Nat : (\E c \in 1 .. Len(t) : t[c] = i)
                            <=> i = n \/ \E c \in 1 .. Len(s) : s[c] = i
    BY AppendAscends, <2>2, <2>3, <2>4, <1>n
  <2>6. \A c \in 1 .. Len(t) : t[c] \in 1 .. n
    BY <2>5, <2>3, <2>2, <1>n, LenProperties
  <2> QED BY <2>2, <2>5, <2>6
\* The list of roots.
<1>12. ASSUME p = 0
       PROVE  /\ roots' \in Seq(Nat)
              /\ \A c \in 1 .. Len(roots') : roots'[c] \in 1 .. n
              /\ \A c, d \in 1 .. Len(roots') : c < d => roots'[c] < roots'[d]
              /\ \A i \in Nat : (\E c \in 1 .. Len(roots') : roots'[c] = i)
                                  <=> i = n \/ \E c \in 1 .. Len(roots) : roots[c] = i
  <2>1. roots' = Append(roots, n) /\ roots \in Seq(Nat)
    BY <1>12, <1>7, <1>1
  <2>2. \A c \in 1 .. Len(roots) : roots[c] \in 1 .. n - 1 /\ roots[c] < n
    BY <1>9, <1>n
  <2> DEFINE t == Append(roots, n)
  <2>3. /\ t \in Seq(Nat) /\ Len(t) = Len(roots) + 1 /\ t[Len(roots) + 1] = n
        /\ \A c \in 1 .. Len(roots) : t[c] = roots[c]
        /\ \A c, d \in 1 .. Len(t) : c < d => t[c] < t[d]
        /\ \A i \in Nat : (\E c \in 1 .. Len(t) : t[c] = i)
                            <=> i = n \/ \E c \in 1 .. Len(roots) : roots[c] = i
    <3>1. \A c, d \in 1 .. Len(roots) : c < d => roots[c] < roots[d] BY <1>10
    <3>2. n \in Nat BY <1>n
    <3> HIDE DEF n
    <3> QED BY <2>1, <2>2, <3>1, <3>2, AppendAscends
  <2>4. \A c \in 1 .. Len(t) : t[c] \in 1 .. n
    BY <2>3, <2>2, <2>1, <1>n, LenProperties
  <2>5. roots' = t BY <2>1
  <2> HIDE DEF t
  <2> QED BY <2>3, <2>4, <2>5
<1>13. \A q \in 1 .. n : \A c \in 1 .. Len(down'[q]) : down'[q][c] \in 1 .. n
  <2> SUFFICES ASSUME NEW q \in 1 .. n, NEW c \in 1 .. Len(down'[q])
               PROVE  down'[q][c] \in 1 .. n
    OBVIOUS
  <2>1. CASE q = n
    BY <2>1, <1>8
  <2>2. CASE q = p
    BY <2>2, <1>11, <1>n
  <2>3. CASE q # n /\ q # p
    <3>1. q \in 1 .. n - 1 /\ down'[q] = down[q]
      BY <2>3, <1>o
    <3> QED BY <3>1, <1>9, <1>n
  <2> QED BY <2>1, <2>2, <2>3
<1>14. roots' \in Seq(Nat) /\ \A c \in 1 .. Len(roots') : roots'[c] \in 1 .. n
  <2>1. CASE p = 0
    BY <2>1, <1>12
  <2>2. CASE p # 0
    BY <2>2, <1>7, <1>1, <1>9, <1>n
  <2> QED BY <2>1, <2>2
<1>15. LinksAgree'
  <2>1. Len(up') = Len(flat') /\ Len(down') = Len(flat')
    BY <1>2, <1>3, <1>8
  <2>2. \A i \in 1 .. n : up'[i] < i /\ (up'[i] # 0 => flat'[up'[i]].scope = "open")
    <3> SUFFICES ASSUME NEW i \in 1 .. n
                 PROVE  up'[i] < i /\ (up'[i] # 0 => flat'[up'[i]].scope = "open")
      OBVIOUS
    <3>1. CASE i = n
      <4>1. up'[i] = p
        BY <3>1, <1>3
      <4>2. p # 0 => flat'[p] = flat[p]
        BY <1>2, <1>n, <1>1
      <4> QED BY <3>1, <4>1, <4>2, <1>n
    <3>2. CASE i # n
      <4>1. i \in 1 .. n - 1
        BY <3>2, <1>n
      <4>2. up'[i] = up[i] /\ up[i] < i /\ up[i] \in Nat
        BY <4>1, <1>3, <1>10, <1>5
      <4>3. up[i] # 0 => flat'[up[i]] = flat[up[i]]
        BY <4>1, <4>2, <1>2, <1>n
      <4>4. up[i] # 0 => flat[up[i]].scope = "open"
        BY <4>1, <1>10
      <4>5. up[i] # 0 => flat'[up[i]].scope = "open"
        BY <4>3, <4>4
      <4> QED BY <4>2, <4>5
    <3> QED BY <3>1, <3>2
  <2>3. \A q \in 1 .. n, i \in 1 .. n :
          up'[i] = q <=> \E c \in 1 .. Len(down'[q]) : down'[q][c] = i
    <3> SUFFICES ASSUME NEW q \in 1 .. n, NEW i \in 1 .. n
                 PROVE  up'[i] = q <=> \E c \in 1 .. Len(down'[q]) : down'[q][c] = i
      OBVIOUS
    <3>1. CASE q = n
      <4>1. ~\E c \in 1 .. Len(down'[q]) : down'[q][c] = i
        BY <3>1, <1>8
      <4>2. up'[i] # n
        <5>1. CASE i = n
          BY <5>1, <1>3, <1>n
        <5>2. CASE i # n
          BY <5>2, <1>3, <1>10, <1>5, <1>n
        <5> QED BY <5>1, <5>2
      <4> QED BY <3>1, <4>1, <4>2
    <3>2. CASE q = p /\ i = n
      <4>1. p # 0 /\ n \in Nat BY <3>2, <1>n
      <4>2. up'[i] = q BY <3>2, <1>3, <1>n
      <4>3. \E c \in 1 .. Len(down'[p]) : down'[p][c] = n BY <1>11, <4>1
      <4> QED BY <3>2, <4>2, <4>3
    <3>3. CASE q = p /\ i # n
      <4>1. i \in 1 .. n - 1 /\ q \in 1 .. n - 1 /\ p # 0 /\ i \in Nat
        BY <3>3, <1>n, <1>1
      <4>2. (\E c \in 1 .. Len(down'[q]) : down'[q][c] = i)
              <=> \E c \in 1 .. Len(down[q]) : down[q][c] = i
        BY <3>3, <4>1, <1>11
      <4> QED BY <4>1, <4>2, <1>3, <1>10
    <3>4. CASE q # n /\ q # p
      <4>1. q \in 1 .. n - 1 /\ down'[q] = down[q]
        BY <3>4, <1>o
      <4>2. CASE i = n
        <5>1. up'[i] # q
          BY <4>2, <3>4, <1>3
        <5>2. \A c \in 1 .. Len(down[q]) : down[q][c] # n
          BY <4>1, <1>9, <1>n
        <5> QED BY <4>1, <4>2, <5>1, <5>2
      <4>3. CASE i # n
        <5>1. i \in 1 .. n - 1 /\ up'[i] = up[i]
          BY <4>3, <1>3, <1>n
        <5> QED BY <4>1, <5>1, <1>10
      <4> QED BY <4>2, <4>3
    <3> QED BY <3>1, <3>2, <3>3, <3>4
  <2>4. \A i \in 1 .. n : up'[i] = 0 <=> \E c \in 1 .. Len(roots') : roots'[c] = i
    <3> SUFFICES ASSUME NEW i \in 1 .. n
                 PROVE  up'[i] = 0 <=> \E c \in 1 .. Len(roots') : roots'[c] = i
      OBVIOUS
    <3>1. CASE i = n /\ p = 0
      BY <3>1, <1>3, <1>12, <1>n
    <3>2. CASE i = n /\ p # 0
      BY <3>2, <1>3, <1>7, <1>9, <1>n
    <3>3. CASE i # n /\ p = 0
      <4>1. i \in 1 .. n - 1 /\ i \in Nat /\ up'[i] = up[i]
        BY <3>3, <1>3, <1>n
      <4> QED BY <3>3, <4>1, <1>12, <1>10
    <3>4. CASE i # n /\ p # 0
      <4>1. i \in 1 .. n - 1 /\ up'[i] = up[i] /\ roots' = roots
        BY <3>4, <1>3, <1>7, <1>n
      <4> QED BY <4>1, <1>10
    <3> QED BY <3>1, <3>2, <3>3, <3>4
  <2>5. \A q \in 1 .. n :
          \A c, d \in 1 .. Len(down'[q]) : c < d => down'[q][c] < down'[q][d]
    <3> SUFFICES ASSUME NEW q \in 1 .. n
                 PROVE  \A c, d \in 1 .. Len(down'[q]) : c < d => down'[q][c] < down'[q][d]
      OBVIOUS
    <3>1. CASE q = n
      BY <3>1, <1>8
    <3>2. CASE q = p
      BY <3>2, <1>11, <1>n
    <3>3. CASE q # n /\ q # p
      <4>1. q \in 1 .. n - 1 /\ down'[q] = down[q]
        BY <3>3, <1>o
      <4> QED BY <4>1, <1>10
    <3> QED BY <3>1, <3>2, <3>3
  <2>6. \A c, d \in 1 .. Len(roots') : c < d => roots'[c] < roots'[d]
    BY <1>12, <1>10, <1>7
  <2> QED BY <1>4, <2>1, <2>2, <2>3, <2>4, <2>5, <2>6 DEF LinksAgree
<1>16. n = Len(flat) + 1
  BY DEF n
<1> QED
  BY <1>2, <1>3, <1>4, <1>8, <1>13, <1>14, <1>15, <1>16

\* With nothing walked the links agree.
LEMMA EmptyAgrees ==
  ASSUME flat = << >>, up = << >>, down = << >>, roots = << >>
  PROVE  LinksAgree
BY DEF LinksAgree, Indices

\* The scope an entry is attached to is one the walk has seen open.
LEMMA AboveIsOpen ==
  ASSUME HeapInv, NEW e
  PROVE  Above(e) \in 0 .. Len(flat) /\ (Above(e) # 0 => flat[Above(e)].scope = "open")
<1>1. CASE e.scope = "close" /\ cur # 0
  <2>1. cur \in Indices /\ Len(flat) \in Nat /\ Len(up) = Len(flat) /\ up \in Seq(Nat)
    BY <1>1, LenProperties DEF HeapInv, Indices, LinksAgree
  <2>2. up[cur] \in Nat /\ up[cur] < cur /\ (up[cur] # 0 => flat[up[cur]].scope = "open")
    BY <2>1 DEF HeapInv, LinksAgree, Indices
  <2>3. cur <= Len(flat) /\ cur \in Nat
    BY DEF HeapInv
  <2> QED BY <1>1, <2>1, <2>2, <2>3 DEF Above
<1>2. CASE ~(e.scope = "close" /\ cur # 0)
  BY <1>2, LenProperties DEF Above, HeapInv
<1> QED BY <1>1, <1>2

LEMMA InitIsInv == Init => HeapInv
<1> SUFFICES ASSUME Init PROVE HeapInv
  OBVIOUS
<1>1. LinksAgree
  BY EmptyAgrees DEF Init
<1>2. stream \in Seq(Entries \cup {Broken})
  BY StreamsAssumption DEF Init
<1> QED BY <1>1, <1>2 DEF Init, HeapInv

\* Steps that leave the tree alone.
LEMMA SameTree ==
  ASSUME HeapInv, UNCHANGED << stream, flat, up, down, roots, cur >>
  PROVE  HeapInv'
<1>1. flat' = flat /\ up' = up /\ down' = down /\ roots' = roots
  OBVIOUS
<1>2. Indices' = Indices
  BY <1>1 DEF Indices
<1>3. /\ Len(up') = Len(flat') /\ Len(down') = Len(flat')
      /\ \A i \in Indices' : up'[i] < i /\ (up'[i] # 0 => flat'[up'[i]].scope = "open")
  BY <1>1, <1>2 DEF HeapInv, LinksAgree
<1>4. \A p \in Indices', i \in Indices' :
        up'[i] = p <=> \E c \in 1 .. Len(down'[p]) : down'[p][c] = i
  BY <1>1, <1>2 DEF HeapInv, LinksAgree
<1>5. \A i \in Indices' : up'[i] = 0 <=> \E c \in 1 .. Len(roots') : roots'[c] = i
  BY <1>1, <1>2 DEF HeapInv, LinksAgree
<1>6. \A p \in Indices' : \A c, d \in 1 .. Len(down'[p]) : c < d => down'[p][c] < down'[p][d]
  BY <1>1, <1>2 DEF HeapInv, LinksAgree
<1>7. \A c, d \in 1 .. Len(roots') : c < d => roots'[c] < roots'[d]
  BY <1>1, <1>2 DEF HeapInv, LinksAgree
<1>8. LinksAgree'
  BY <1>3, <1>4, <1>5, <1>6, <1>7, Zenon DEF LinksAgree
<1> QED BY <1>1, <1>2, <1>8 DEF HeapInv

LEMMA StepKeepsInv == HeapInv /\ [Next]_vars => HeapInv'
<1> SUFFICES ASSUME HeapInv, [Next]_vars PROVE HeapInv'
  OBVIOUS
<1>1. CASE Entry
  <2> DEFINE e == Upcoming
             p == Above(e)
  <2>1. e \in Entries
    <3>1. Len(flat) + 1 \in 1 .. Len(stream) /\ stream \in Seq(Entries \cup {Broken})
      BY <1>1, LenProperties DEF Entry, HeapInv
    <3>2. stream[Len(flat) + 1] \in Entries \cup {Broken}
      BY <3>1
    <3> QED BY <3>2, <1>1 DEF Entry, Upcoming
  <2>2. p \in 0 .. Len(flat) /\ (p # 0 => flat[p].scope = "open")
    BY AboveIsOpen
  <2>3. /\ flat' = Append(flat, e) /\ up' = Append(up, p)
        /\ Attach(Len(flat) + 1, p)
        /\ cur' = IF e.scope = "open" THEN Len(flat) + 1 ELSE p
        /\ stream' = stream
    BY <1>1 DEF Entry
  <2> HIDE DEF e, p
  <2>4. /\ flat' \in Seq(Entries) /\ Len(flat') = Len(flat) + 1
        /\ flat'[Len(flat) + 1] = e
        /\ \A i \in Indices : flat'[i] = flat[i]
        /\ up' \in Seq(Nat) /\ down' \in Seq(Seq(Nat)) /\ roots' \in Seq(Nat)
        /\ \A q \in 1 .. Len(down') : \A c \in 1 .. Len(down'[q]) : down'[q][c] \in Indices'
        /\ \A c \in 1 .. Len(roots') : roots'[c] \in Indices'
        /\ LinksAgree'
    BY AttachKeepsLinks, <2>1, <2>2, <2>3
  <2>5. Len(flat) \in Nat
    BY LenProperties DEF HeapInv
  <2>6. cur' \in Nat /\ cur' <= Len(flat') /\ (cur' # 0 => flat'[cur'].scope = "open")
    <3>1. CASE e.scope = "open"
      BY <3>1, <2>3, <2>4, <2>5
    <3>2. CASE e.scope # "open"
      <4>1. cur' = p /\ p \in Nat /\ p <= Len(flat')
        BY <3>2, <2>2, <2>3, <2>4, <2>5
      <4>2. p # 0 => flat'[p] = flat[p]
        BY <2>2, <2>4, <2>5 DEF Indices
      <4> QED BY <4>1, <4>2, <2>2
    <3> QED BY <3>1, <3>2
  <2>7. stream' \in Seq(Entries \cup {Broken})
    BY <2>3 DEF HeapInv
  <2> QED BY <2>4, <2>6, <2>7 DEF HeapInv
<1>2. CASE Fail
  <2>1. /\ flat' = << >> /\ up' = << >> /\ down' = << >> /\ roots' = << >>
        /\ cur' = 0 /\ stream' = stream
    BY <1>2 DEF Fail
  <2>2. LinksAgree'
    BY <2>1 DEF LinksAgree, Indices
  <2> QED BY <2>1, <2>2 DEF HeapInv
<1>3. CASE Finish
  <2>1. UNCHANGED << stream, flat, up, down, roots, cur >>
    BY <1>3 DEF Finish
  <2> QED BY <2>1, SameTree
<1>4. CASE UNCHANGED vars
  <2>1. UNCHANGED << stream, flat, up, down, roots, cur >>
    BY <1>4 DEF vars
  <2> QED BY <2>1, SameTree
<1> QED BY <1>1, <1>2, <1>3, <1>4 DEF Next

\* Theorem: in every heap, however its brackets are nested or unbalanced, parents,
\* children and roots agree at every step of the walk, and so in its result.
THEOREM LinksAlwaysAgree == Spec => []LinksAgree
<1>1. HeapInv => LinksAgree
  BY DEF HeapInv
<1> QED BY <1>1, InitIsInv, StepKeepsInv, PTL DEF Spec

-----------------------------------------------------------------------------
(***************************************************************************)
(* Counting brackets.                                                      *)
(***************************************************************************)

\* The entries behind the first j of f, up to the first k, with scope s.
Those(f, s, j, k) == {i \in j + 1 .. k : f[i].scope = s}
Count(f, s, j, k) == Cardinality(Those(f, s, j, k))

\* How many scopes more are opened than closed there.
Depth(f, j, k) == Count(f, "open", j, k) - Count(f, "close", j, k)

LEMMA ThoseFinite ==
  ASSUME NEW f, NEW s, NEW j \in Nat, NEW k \in Nat
  PROVE  IsFiniteSet(Those(f, s, j, k)) /\ Count(f, s, j, k) \in Nat
<1>1. IsFiniteSet(j + 1 .. k) BY FS_Interval
<1>2. Those(f, s, j, k) \in SUBSET (j + 1 .. k) BY DEF Those
<1>3. IsFiniteSet(Those(f, s, j, k)) BY <1>1, <1>2, FS_Subset
<1> QED BY <1>3, FS_CardinalityType DEF Count

LEMMA CountSplits ==
  ASSUME NEW f, NEW s, NEW j \in Nat, NEW m \in Nat, NEW k \in Nat, j <= m, m <= k
  PROVE  Count(f, s, j, k) = Count(f, s, j, m) + Count(f, s, m, k)
<1> DEFINE A == Those(f, s, j, m)
           B == Those(f, s, m, k)
           C == Those(f, s, j, k)
<1>1. A \cup B = C /\ A \cap B = {} BY DEF Those
<1>2. IsFiniteSet(A) /\ IsFiniteSet(B) /\ Cardinality(A) \in Nat /\ Cardinality(B) \in Nat
  BY ThoseFinite DEF Count
<1> HIDE DEF A, B, C
<1> DEFINE U == A \cup B
           I == A \cap B
<1>3. Cardinality(U) = Cardinality(A) + Cardinality(B) - Cardinality(I)
  BY <1>2, FS_Union
<1>4. U = C /\ Cardinality(I) = 0 BY <1>1, FS_EmptySet
<1> HIDE DEF U, I
<1>5. Cardinality(C) = Cardinality(A) + Cardinality(B) BY <1>2, <1>3, <1>4
<1> QED BY <1>5 DEF Count, A, B, C

LEMMA CountOne ==
  ASSUME NEW f, NEW s, NEW k \in Nat
  PROVE  Count(f, s, k, k + 1) = IF f[k + 1].scope = s THEN 1 ELSE 0
<1> DEFINE A == Those(f, s, k, k + 1)
<1>1. A = IF f[k + 1].scope = s THEN {k + 1} ELSE {} BY DEF Those
<1>2. Cardinality({k + 1}) = 1 /\ Cardinality({}) = 0 BY FS_Singleton, FS_EmptySet
<1> QED BY <1>1, <1>2 DEF Count

LEMMA DepthType ==
  ASSUME NEW f, NEW j \in Nat, NEW k \in Nat
  PROVE  Depth(f, j, k) \in Int
BY ThoseFinite DEF Depth

LEMMA DepthSplits ==
  ASSUME NEW f, NEW j \in Nat, NEW m \in Nat, NEW k \in Nat, j <= m, m <= k
  PROVE  Depth(f, j, k) = Depth(f, j, m) + Depth(f, m, k)
<1>1. /\ Count(f, "open", j, k) = Count(f, "open", j, m) + Count(f, "open", m, k)
      /\ Count(f, "close", j, k) = Count(f, "close", j, m) + Count(f, "close", m, k)
  BY CountSplits
<1>2. /\ Count(f, "open", j, m) \in Nat /\ Count(f, "open", m, k) \in Nat
      /\ Count(f, "close", j, m) \in Nat /\ Count(f, "close", m, k) \in Nat
  BY ThoseFinite
<1> QED BY <1>1, <1>2 DEF Depth

LEMMA DepthOne ==
  ASSUME NEW f, NEW k \in Nat
  PROVE  Depth(f, k, k + 1) = CASE f[k + 1].scope = "open"  -> 1
                                [] f[k + 1].scope = "close" -> -1
                                [] OTHER                    -> 0
<1>1. /\ Count(f, "open", k, k + 1) = IF f[k + 1].scope = "open" THEN 1 ELSE 0
      /\ Count(f, "close", k, k + 1) = IF f[k + 1].scope = "close" THEN 1 ELSE 0
  BY CountOne
<1> QED BY <1>1 DEF Depth

LEMMA DepthNone ==
  ASSUME NEW f, NEW k \in Nat
  PROVE  Depth(f, k, k) = 0
<1>1. \A s : Those(f, s, k, k) = {} BY DEF Those
<1>2. \A s : Count(f, s, k, k) = 0 BY <1>1, FS_EmptySet DEF Count
<1> QED BY <1>2 DEF Depth

-----------------------------------------------------------------------------
(***************************************************************************)
(* Scopes left open.                                                       *)
(***************************************************************************)

\* The scopes that are open behind the first n entries of f.
OpenAt(f, n) ==
  {j \in 1 .. n : f[j].scope = "open" /\ \A k \in j + 1 .. n : Depth(f, j, k) >= 0}

Innermost(S, x) == IF S = {} THEN x = 0 ELSE x \in S /\ \A j \in S : j <= x

\* What is open depends on what has been seen only.
LEMMA DepthSame ==
  ASSUME NEW f, NEW g, NEW n \in Nat, \A i \in 1 .. n : f[i] = g[i],
         NEW j \in 1 .. n, NEW k \in j .. n
  PROVE  Depth(f, j, k) = Depth(g, j, k)
<1>1. \A i \in j + 1 .. k : f[i] = g[i] OBVIOUS
<1>2. \A s : Those(f, s, j, k) = Those(g, s, j, k) BY <1>1 DEF Those
<1> QED BY <1>2 DEF Depth, Count

LEMMA OpenAtSame ==
  ASSUME NEW f, NEW g, NEW n \in Nat, \A i \in 1 .. n : f[i] = g[i]
  PROVE  OpenAt(f, n) = OpenAt(g, n)
<1>1. \A j \in 1 .. n : \A k \in j + 1 .. n : Depth(f, j, k) = Depth(g, j, k)
  <2>1. ASSUME NEW j \in 1 .. n, NEW k \in j + 1 .. n
        PROVE  Depth(f, j, k) = Depth(g, j, k)
    <3>1. k \in j .. n OBVIOUS
    <3> QED BY <3>1, DepthSame
  <2> QED BY <2>1
<1> QED BY <1>1 DEF OpenAt

\* A scope outside one that is open is open exactly if it was when the inner one
\* was opened.
LEMMA OpenOutside ==
  ASSUME NEW f, NEW n \in Nat, NEW j \in OpenAt(f, n), NEW i \in Nat, i < j
  PROVE  i \in OpenAt(f, n) <=> i \in OpenAt(f, j)
<1>1. j \in 1 .. n /\ \A k \in j + 1 .. n : Depth(f, j, k) >= 0 BY DEF OpenAt
<1>2. i \in OpenAt(f, n) => i \in OpenAt(f, j) BY <1>1 DEF OpenAt
<1>3. ASSUME i \in OpenAt(f, j) PROVE i \in OpenAt(f, n)
  <2>1. i \in 1 .. n /\ f[i].scope = "open" /\ \A k \in i + 1 .. j : Depth(f, i, k) >= 0
    BY <1>1, <1>3 DEF OpenAt
  <2>2. ASSUME NEW k \in i + 1 .. n PROVE Depth(f, i, k) >= 0
    <3>1. CASE k <= j BY <2>1, <3>1
    <3>2. CASE ~(k <= j)
      <4>1. k \in j + 1 .. n /\ j \in i + 1 .. j BY <1>1, <3>2
      <4>2. Depth(f, i, j) >= 0 /\ Depth(f, j, k) >= 0 BY <1>1, <2>1, <4>1
      <4>3. Depth(f, i, k) = Depth(f, i, j) + Depth(f, j, k)
        BY <1>1, <4>1, DepthSplits
      <4>4. Depth(f, i, j) \in Int /\ Depth(f, j, k) \in Int BY <1>1, <4>1, DepthType
      <4> QED BY <4>2, <4>3, <4>4
    <3> QED BY <3>1, <3>2
  <2> QED BY <2>1, <2>2 DEF OpenAt
<1> QED BY <1>2, <1>3

\* One entry more: a scope stays open unless it is closed.
LEMMA OpenNext ==
  ASSUME NEW f, NEW n \in Nat, NEW j \in 1 .. n
  PROVE  j \in OpenAt(f, n + 1) <=> j \in OpenAt(f, n) /\ Depth(f, j, n + 1) >= 0
<1>1. \A k \in j + 1 .. n + 1 : k \in j + 1 .. n \/ k = n + 1 OBVIOUS
<1>2. j + 1 .. n \subseteq j + 1 .. n + 1 /\ n + 1 \in j + 1 .. n + 1 OBVIOUS
<1>3. j \in 1 .. n + 1 OBVIOUS
<1> QED BY <1>1, <1>2, <1>3 DEF OpenAt

\* Outside the innermost scope everything is one level deeper.
LEMMA OuterIsDeeper ==
  ASSUME NEW f, NEW n \in Nat, NEW j \in OpenAt(f, n), NEW i \in OpenAt(f, n), i < j
  PROVE  Depth(f, i, n) >= 1
<1>1. /\ i \in 1 .. n /\ j \in 1 .. n /\ f[j].scope = "open"
      /\ \A k \in i + 1 .. n : Depth(f, i, k) >= 0
      /\ \A k \in j + 1 .. n : Depth(f, j, k) >= 0
  BY DEF OpenAt
<1>2. PICK m \in Nat : j = m + 1
  <2>1. j - 1 \in Nat /\ j = (j - 1) + 1 BY <1>1
  <2> QED BY <2>1
<1>3. Depth(f, i, n) = Depth(f, i, m) + Depth(f, m, j) + Depth(f, j, n)
  <2>1. i <= m /\ m <= n /\ m <= j /\ j <= n BY <1>1, <1>2
  <2>2. Depth(f, i, n) = Depth(f, i, j) + Depth(f, j, n) BY <1>1, DepthSplits
  <2>3. Depth(f, i, j) = Depth(f, i, m) + Depth(f, m, j) BY <1>1, <2>1, DepthSplits
  <2> QED BY <2>2, <2>3
<1>4. Depth(f, m, j) = 1 BY <1>1, <1>2, DepthOne
<1>5. Depth(f, i, m) >= 0
  <2>1. CASE m = i BY <1>1, <2>1, DepthNone
  <2>2. CASE m # i BY <1>1, <1>2, <2>2
  <2> QED BY <2>1, <2>2
<1>6. Depth(f, j, n) >= 0
  <2>1. CASE n = j BY <1>1, <2>1, DepthNone
  <2>2. CASE n # j BY <1>1, <2>2
  <2> QED BY <2>1, <2>2
<1>7. Depth(f, i, m) \in Int /\ Depth(f, j, n) \in Int BY <1>1, DepthType
<1> QED BY <1>3, <1>4, <1>5, <1>6, <1>7

-----------------------------------------------------------------------------
(***************************************************************************)
(* The walk.                                                               *)
(***************************************************************************)

\* The walk is in the innermost scope that is open, right behind its bracket or
\* what was closed again in it; so an entry that opens a scope is one level
\* below the scope it is attached to, and the scope around the one it leaves is
\* the one the walk is in then.
NestInv ==
  /\ \A i \in Indices : Innermost(OpenAt(flat, i) \ {i}, up[i])
  /\ Innermost(OpenAt(flat, Len(flat)), cur)
  /\ cur # 0 => Depth(flat, cur, Len(flat)) = 0
  /\ \A i \in Indices :
       flat[i].scope = "open" /\ up[i] # 0 => Depth(flat, up[i], i) = 1

\* The scopes around an entry are those that are open there, but for its own.
LEMMA AroundIsOpen ==
  ASSUME HeapInv, NEW i \in Indices
  PROVE  {j \in Indices : Encloses(j, i)} = OpenAt(flat, i) \ {i}
<1> DEFINE around == {j \in Indices : Encloses(j, i)}
<1>1. Len(flat) \in Nat /\ i \in 1 .. Len(flat)
  BY LenProperties DEF HeapInv, Indices
<1>2. ASSUME NEW j \in 1 .. Len(flat), j < i
      PROVE  Encloses(j, i) <=> j \in OpenAt(flat, i)
  <2>1. ASSUME NEW k \in j + 1 .. i
        PROVE  Cardinality(Scoped("close", j + 1, k)) <= Cardinality(Scoped("open", j + 1, k))
                 <=> Depth(flat, j, k) >= 0
    <3>1. /\ Count(flat, "open", j, k) \in Nat /\ Count(flat, "close", j, k) \in Nat
      BY <1>1, ThoseFinite
    <3>2. /\ Cardinality(Scoped("close", j + 1, k)) = Count(flat, "close", j, k)
          /\ Cardinality(Scoped("open", j + 1, k)) = Count(flat, "open", j, k)
      BY DEF Scoped, Count, Those
    <3> QED BY <3>1, <3>2 DEF Depth
  <2>2. j \in 1 .. i BY <1>1, <1>2
  <2> QED BY <1>2, <2>1, <2>2 DEF Encloses, OpenAt
<1>3. \A j \in OpenAt(flat, i) \ {i} : j \in 1 .. Len(flat) /\ j < i
  BY <1>1 DEF OpenAt
<1>4. \A j \in around : j \in 1 .. Len(flat) /\ j < i
  BY DEF Indices, Encloses
<1> QED BY <1>2, <1>3, <1>4 DEF Indices

LEMMA NestIsTree ==
  ASSUME HeapInv, NestInv
  PROVE  TreeIsNesting
<1> SUFFICES ASSUME NEW i \in Indices
             PROVE  LET around == {j \in Indices : Encloses(j, i)}
                    IN  IF around = {} THEN up[i] = 0
                        ELSE up[i] \in around /\ \A j \in around : j <= up[i]
  BY DEF TreeIsNesting
<1> DEFINE around == {j \in Indices : Encloses(j, i)}
<1>1. around = OpenAt(flat, i) \ {i} BY AroundIsOpen
<1>2. Innermost(OpenAt(flat, i) \ {i}, up[i]) BY DEF NestInv
<1> HIDE DEF around
<1>3. IF around = {} THEN up[i] = 0 ELSE up[i] \in around /\ \A j \in around : j <= up[i]
  BY <1>1, <1>2 DEF Innermost
<1> QED BY <1>3 DEF around

\* A walk that has seen nothing is in no scope.
LEMMA EmptyNests ==
  ASSUME flat = << >>, cur = 0
  PROVE  NestInv
<1>1. Len(flat) = 0 /\ Indices = {} BY DEF Indices
<1>2. OpenAt(flat, 0) = {} BY DEF OpenAt
<1> QED BY <1>1, <1>2 DEF NestInv, Innermost

LEMMA EntryNests ==
  ASSUME HeapInv, NestInv, Entry
  PROVE  NestInv'
<1> DEFINE n == Len(flat)
           e == Upcoming
           p == Above(e)
           f == flat'
           u == up'
           v == Depth(f, n, n + 1)
<1>1. /\ n \in Nat /\ flat \in Seq(Entries) /\ up \in Seq(Nat) /\ Len(up) = n
      /\ cur \in 0 .. n /\ (cur # 0 => flat[cur].scope = "open")
  BY LenProperties DEF HeapInv, LinksAgree
<1>2. e \in Entries /\ e.scope \in {"open", "leaf", "close"}
  <2>1. Len(flat) + 1 \in 1 .. Len(stream) /\ stream \in Seq(Entries \cup {Broken})
    BY LenProperties DEF Entry, HeapInv
  <2>2. stream[Len(flat) + 1] \in Entries \cup {Broken} BY <2>1
  <2> QED BY <2>2, EntriesAssumption DEF Entry, Upcoming
<1>3. p \in 0 .. n BY AboveIsOpen
<1>4. /\ f = Append(flat, e) /\ u = Append(up, p)
      /\ cur' = IF e.scope = "open" THEN n + 1 ELSE p
  BY DEF Entry
<1>p. p = IF e.scope = "close" /\ cur # 0 THEN up[cur] ELSE cur BY DEF Above
<1> HIDE DEF e, p
<1>5. Len(f) = n + 1 /\ f[n + 1] = e /\ \A i \in 1 .. n : f[i] = flat[i]
  BY <1>1, <1>2, <1>4
<1>6. Len(u) = n + 1 /\ u[n + 1] = p /\ \A i \in 1 .. n : u[i] = up[i] /\ up[i] \in Nat
  BY <1>1, <1>3, <1>4
<1>l. \A i \in 1 .. n : up[i] < i BY DEF HeapInv, LinksAgree, Indices
<1>o. /\ \A i \in 1 .. n : Innermost(OpenAt(flat, i) \ {i}, up[i])
      /\ Innermost(OpenAt(flat, n), cur)
      /\ cur # 0 => Depth(flat, cur, n) = 0
      /\ \A i \in 1 .. n :
           flat[i].scope = "open" /\ up[i] # 0 => Depth(flat, up[i], i) = 1
  BY DEF NestInv, Indices
<1>i. Indices' = 1 .. n + 1 /\ Len(flat') = n + 1 BY <1>5 DEF Indices
<1> HIDE DEF n, f, u
<1>7. \A i \in 1 .. n : OpenAt(f, i) = OpenAt(flat, i)
  BY <1>1, <1>5, OpenAtSame
<1>8. OpenAt(f, n) = OpenAt(flat, n) BY <1>1, <1>5, OpenAtSame
<1>9. \A j \in 1 .. n : \A k \in j .. n : Depth(f, j, k) = Depth(flat, j, k)
  <2>1. \A i \in 1 .. n : f[i] = flat[i] BY <1>5
  <2>2. n \in Nat BY <1>1
  <2>3. ASSUME NEW j \in 1 .. n, NEW k \in j .. n
        PROVE  Depth(f, j, k) = Depth(flat, j, k)
    BY <2>1, <2>2, DepthSame
  <2> QED BY <2>3
\* The invariant, seen in the longer sequence.
<1>10. /\ \A i \in 1 .. n : Innermost(OpenAt(f, i) \ {i}, u[i])
       /\ Innermost(OpenAt(f, n), cur)
       /\ cur # 0 => Depth(f, cur, n) = 0 /\ f[cur].scope = "open"
       /\ \A i \in 1 .. n : f[i].scope = "open" /\ u[i] # 0 => Depth(f, u[i], i) = 1
  <2>1. \A i \in 1 .. n : Innermost(OpenAt(f, i) \ {i}, u[i]) BY <1>6, <1>7, <1>o
  <2>2. Innermost(OpenAt(f, n), cur) BY <1>8, <1>o
  <2>3. cur # 0 => Depth(f, cur, n) = 0 /\ f[cur].scope = "open"
    BY <1>1, <1>5, <1>9, <1>o
  <2>4. ASSUME NEW i \in 1 .. n, f[i].scope = "open", u[i] # 0
        PROVE  Depth(f, u[i], i) = 1
    <3>1. u[i] = up[i] /\ up[i] \in 1 .. n /\ i \in up[i] .. n /\ flat[i].scope = "open"
      BY <1>1, <1>5, <1>6, <1>l, <2>4
    <3> QED BY <1>9, <1>o, <2>4, <3>1
  <2> QED BY <2>1, <2>2, <2>3, <2>4
<1>11. v = CASE e.scope = "open" -> 1 [] e.scope = "close" -> -1 [] OTHER -> 0
  BY <1>1, <1>5, DepthOne
<1>12. ASSUME NEW j \in 1 .. n
       PROVE  /\ Depth(f, j, n) \in Int /\ Depth(f, j, n + 1) = Depth(f, j, n) + v
              /\ j \in OpenAt(f, n) => Depth(f, j, n) >= 0
              /\ j \in OpenAt(f, n + 1) <=> j \in OpenAt(f, n) /\ Depth(f, j, n + 1) >= 0
  <2>1. Depth(f, j, n) \in Int BY <1>1, DepthType
  <2>2. Depth(f, j, n + 1) = Depth(f, j, n) + v
    <3>1. j \in Nat /\ n + 1 \in Nat /\ j <= n /\ n <= n + 1 BY <1>1
    <3> QED BY <1>1, <3>1, DepthSplits
  <2>3. ASSUME j \in OpenAt(f, n) PROVE Depth(f, j, n) >= 0
    <3>1. CASE j = n BY <1>1, <3>1, DepthNone
    <3>2. CASE j # n
      <4>1. n \in j + 1 .. n BY <1>1, <3>2
      <4> QED BY <2>3, <4>1 DEF OpenAt
    <3> QED BY <3>1, <3>2
  <2> QED BY <1>1, <2>1, <2>2, <2>3, OpenNext
<1>13. n + 1 \in OpenAt(f, n + 1) <=> e.scope = "open"
  BY <1>1, <1>5 DEF OpenAt
<1>14. \A m \in Nat : OpenAt(f, m) \subseteq 1 .. m BY DEF OpenAt
<1> HIDE DEF v
\* What is open behind the new entry, the new entry left out.
<1> DEFINE S == OpenAt(f, n + 1) \ {n + 1}
<1>15. S \subseteq 1 .. n BY <1>1, <1>14
<1>16. /\ Innermost(S, p)
       /\ p # 0 => Depth(f, p, n) + v \in {0, 1}
       /\ p # 0 /\ e.scope = "open" => Depth(f, p, n) + v = 1
       /\ p # 0 /\ e.scope # "open" => Depth(f, p, n) + v = 0
  <2>1. CASE e.scope # "close"
    <3>1. p = cur /\ v = IF e.scope = "open" THEN 1 ELSE 0 BY <1>2, <1>11, <1>p, <2>1
    <3>2. S = OpenAt(f, n)
      <4>1. \A j \in 1 .. n : j \in OpenAt(f, n) => Depth(f, j, n + 1) >= 0
        BY <1>12, <3>1
      <4> QED BY <1>1, <1>12, <1>14, <1>15, <4>1
    <3> HIDE DEF S
    <3> QED BY <1>10, <3>1, <3>2
  <2>2. CASE e.scope = "close" /\ cur = 0
    <3>1. OpenAt(f, n) = {} BY <1>1, <1>10, <1>14, <2>2 DEF Innermost
    <3>2. S = {} BY <1>12, <1>15, <3>1
    <3> HIDE DEF S
    <3> QED BY <1>p, <2>2, <3>2 DEF Innermost
  <2>3. CASE e.scope = "close" /\ cur # 0
    <3>1. /\ v = -1 /\ cur \in 1 .. n /\ p = u[cur]
          /\ Depth(f, cur, n) = 0 /\ f[cur].scope = "open"
      BY <1>1, <1>6, <1>10, <1>11, <1>p, <2>3
    <3>2. cur \in OpenAt(f, n) /\ \A j \in OpenAt(f, n) : j <= cur
      BY <1>10, <2>3 DEF Innermost
    <3>3. ASSUME NEW j \in 1 .. n
          PROVE  j \in OpenAt(f, n + 1) <=> j \in OpenAt(f, n) /\ j # cur
      <4>1. CASE j = cur BY <1>12, <3>1, <4>1
      <4>2. CASE j # cur /\ j \in OpenAt(f, n)
        <5>1. j < cur BY <3>1, <3>2, <4>2
        <5>2. Depth(f, j, n) >= 1 BY <1>1, <3>2, <4>2, <5>1, OuterIsDeeper
        <5> QED BY <1>12, <3>1, <4>2, <5>2
      <4>3. CASE j \notin OpenAt(f, n) BY <1>12, <4>3
      <4> QED BY <4>1, <4>2, <4>3
    <3>4. S = OpenAt(f, cur) \ {cur}
      <4>1. ASSUME NEW j \in S PROVE j \in OpenAt(f, cur) \ {cur}
        <5>1. j \in 1 .. n /\ j \in OpenAt(f, n) /\ j # cur /\ j <= cur
          BY <1>15, <3>2, <3>3, <4>1
        <5>2. j < cur BY <3>1, <5>1
        <5> QED BY <1>1, <3>2, <5>1, <5>2, OpenOutside
      <4>2. ASSUME NEW j \in OpenAt(f, cur) \ {cur} PROVE j \in S
        <5>1. cur \in Nat /\ j \in 1 .. cur BY <1>14, <3>1
        <5>2. j \in 1 .. n /\ j \in Nat /\ j < cur BY <1>1, <3>1, <5>1
        <5>3. j \in OpenAt(f, n) BY <1>1, <3>2, <5>2, OpenOutside
        <5> QED BY <1>1, <3>3, <5>2, <5>3
      <4> QED BY <4>1, <4>2
    <3>5. Innermost(S, p)
      <4> HIDE DEF S
      <4> QED BY <1>10, <3>1, <3>4
    <3>6. ASSUME p # 0 PROVE Depth(f, p, n) + v = 0
      <4>1. p \in 1 .. n /\ p <= cur /\ cur <= n
        BY <1>1, <1>6, <1>l, <3>1, <3>6
      <4>2. Depth(f, p, cur) = 1 BY <1>10, <3>1, <3>6
      <4>3. Depth(f, p, n) = Depth(f, p, cur) + Depth(f, cur, n)
        BY <1>1, <3>1, <4>1, DepthSplits
      <4> QED BY <3>1, <4>2, <4>3
    <3> QED BY <2>3, <3>5, <3>6
  <2> QED BY <2>1, <2>2, <2>3
\* The invariant behind the new entry.
<1>17. ASSUME NEW i \in 1 .. n + 1 PROVE Innermost(OpenAt(f, i) \ {i}, u[i])
  <2>1. CASE i = n + 1 BY <1>6, <1>16, <2>1
  <2>2. CASE i # n + 1
    <3>1. i \in 1 .. n BY <1>1, <2>2
    <3> QED BY <1>10, <3>1
  <2> QED BY <2>1, <2>2
<1>18. Innermost(OpenAt(f, n + 1), cur') /\ (cur' # 0 => Depth(f, cur', n + 1) = 0)
  <2>1. CASE e.scope = "open"
    <3>1. cur' = n + 1 /\ n + 1 \in OpenAt(f, n + 1) BY <1>4, <1>13, <2>1
    <3>2. \A j \in OpenAt(f, n + 1) : j <= n + 1 BY <1>1, <1>14
    <3>3. Innermost(OpenAt(f, n + 1), n + 1) BY <3>1, <3>2 DEF Innermost
    <3>4. Depth(f, n + 1, n + 1) = 0 BY <1>1, DepthNone
    <3> QED BY <3>1, <3>3, <3>4
  <2>2. CASE e.scope # "open"
    <3>1. cur' = p /\ S = OpenAt(f, n + 1) BY <1>4, <1>13, <2>2
    <3>2. Innermost(OpenAt(f, n + 1), p) BY <1>16, <3>1
    <3>3. ASSUME p # 0 PROVE Depth(f, p, n + 1) = 0
      <4>1. p \in 1 .. n BY <1>1, <1>3, <3>3 DEF n
      <4> QED BY <1>12, <1>16, <2>2, <3>3, <4>1
    <3> QED BY <3>1, <3>2, <3>3
  <2> QED BY <2>1, <2>2
<1>19. ASSUME NEW i \in 1 .. n + 1, f[i].scope = "open", u[i] # 0
       PROVE  Depth(f, u[i], i) = 1
  <2>1. CASE i = n + 1
    <3>1. u[i] = p /\ e.scope = "open" /\ p # 0 BY <1>5, <1>6, <1>19, <2>1
    <3>2. p \in 1 .. n BY <1>1, <1>3, <3>1 DEF n
    <3> QED BY <1>12, <1>16, <2>1, <3>1, <3>2
  <2>2. CASE i # n + 1
    <3>1. i \in 1 .. n BY <1>1, <2>2
    <3> QED BY <1>10, <1>19, <3>1
  <2> QED BY <2>1, <2>2
<1> QED BY <1>i, <1>17, <1>18, <1>19 DEF NestInv, f, u

LEMMA StepNests == HeapInv /\ NestInv /\ [Next]_vars => NestInv'
<1> SUFFICES ASSUME HeapInv, NestInv, [Next]_vars PROVE NestInv'
  OBVIOUS
<1>1. CASE Entry BY <1>1, EntryNests
<1>2. CASE Fail
  <2>1. flat' = << >> /\ cur' = 0 BY <1>2 DEF Fail
  <2>2. Len(flat') = 0 /\ Indices' = {} BY <2>1 DEF Indices
  <2>3. OpenAt(flat', 0) = {} BY DEF OpenAt
  <2> QED BY <2>1, <2>2, <2>3 DEF NestInv, Innermost
<1>3. CASE UNCHANGED << flat, up, cur >>
  BY <1>3 DEF NestInv, Indices
<1> QED BY <1>1, <1>2, <1>3 DEF Next, Finish, vars

\* In every heap the tree is the nesting of the brackets in the stream: every
\* entry is attached to the innermost scope that is open at its place, however
\* many closing entries close nothing and however many scopes stay open.
THEOREM TreeIsAlwaysNesting == Spec => []TreeIsNesting
<1>1. Init => NestInv BY EmptyNests DEF Init
<1>2. HeapInv /\ NestInv => TreeIsNesting BY NestIsTree
<1> QED BY <1>1, <1>2, InitIsInv, StepKeepsInv, StepNests, PTL DEF Spec

-----------------------------------------------------------------------------
(***************************************************************************)
(* The lookups in a walked heap.  Each is a recursive function along the   *)
(* stream, up the tree or down it; such a function exists because an entry *)
(* comes behind its parent and in front of its children.                   *)
(***************************************************************************)

IsFirst(S, m) == m \in S /\ \A j \in S : m <= j

\* Induction over numbers, for a set of them.
LEMMA LeastNumber ==
  ASSUME NEW S \in SUBSET Nat, S # {}
  PROVE  \E m : IsFirst(S, m)
<1> DEFINE R == OpToRel(<, Nat)
<1>1. \A m, n \in Nat : << m, n >> \in R <=> m < n BY DEF OpToRel
<1>2. PICK m \in S : \A n \in S : << n, m >> \notin R
  <2> HIDE DEF R
  <2>1. IsWellFoundedOn(R, Nat) BY NatLessThanWellFounded DEF R
  <2> QED BY <2>1, WFMin, Zenon
<1> HIDE DEF R
<1>3. \A n \in S : n \in Nat /\ m \in Nat /\ ~(n < m) BY <1>1, <1>2
<1>4. \A n \in S : m <= n BY <1>3
<1> QED BY <1>2, <1>4 DEF IsFirst

LEMMA FirstIs ==
  ASSUME NEW S \in SUBSET Nat, NEW m, IsFirst(S, m)
  PROVE  First(S) = m
<1>1. \A i \in S : (\A j \in S : i <= j) => i = m BY DEF IsFirst
<1>2. \E i \in S : \A j \in S : i <= j BY DEF IsFirst
<1> QED BY <1>1, <1>2 DEF First

LEMMA FirstExists ==
  ASSUME NEW S \in SUBSET Nat, S # {}
  PROVE  IsFirst(S, First(S))
<1>1. PICK m : IsFirst(S, m) BY LeastNumber
<1> QED BY <1>1, FirstIs

\* What holds of a number once it holds of all smaller ones, or of all larger ones
\* up to a bound, holds of all.
LEMMA FromBelow ==
  ASSUME NEW S, NEW n \in Nat,
         \A i \in 0 .. n : (\A j \in 0 .. i - 1 : j \in S) => i \in S
  PROVE  \A i \in 0 .. n : i \in S
<1> DEFINE T == {i \in 0 .. n : i \notin S}
<1> SUFFICES ASSUME T # {} PROVE FALSE
  OBVIOUS
<1>1. PICK m : IsFirst(T, m) BY LeastNumber
<1>2. m \in 0 .. n /\ m \notin S /\ \A j \in 0 .. n : j \notin S => m <= j
  BY <1>1 DEF IsFirst
<1>3. \A j \in 0 .. m - 1 : j \in S BY <1>2
<1> QED BY <1>2, <1>3

LEMMA FromTop ==
  ASSUME NEW S, NEW n \in Nat,
         \A i \in 1 .. n : (\A j \in i + 1 .. n : j \in S) => i \in S
  PROVE  \A i \in 1 .. n : i \in S
<1> DEFINE T == {k \in 0 .. n - 1 : n - k \notin S}
<1> SUFFICES ASSUME NEW i \in 1 .. n, i \notin S PROVE FALSE
  OBVIOUS
<1>1. n - i \in T
  <2>1. n - i \in 0 .. n - 1 /\ n - (n - i) = i OBVIOUS
  <2> QED BY <2>1
<1>2. PICK m : IsFirst(T, m)
  <2>1. T \in SUBSET Nat /\ T # {} BY <1>1
  <2> HIDE DEF T
  <2> QED BY <2>1, LeastNumber
<1>3. m \in 0 .. n - 1 /\ n - m \notin S /\ \A k \in 0 .. n - 1 : n - k \notin S => m <= k
  BY <1>2 DEF IsFirst
<1>4. ASSUME NEW j \in (n - m) + 1 .. n PROVE j \in S
  <2>1. n - j \in 0 .. n - 1 /\ n - (n - j) = j /\ n - j < m BY <1>3
  <2> QED BY <1>3, <2>1
<1>5. n - m \in 1 .. n BY <1>3
<1> QED BY <1>3, <1>4, <1>5

LEMMA TreeType ==
  ASSUME HeapInv
  PROVE  /\ Len(flat) \in Nat /\ Indices = 1 .. Len(flat)
         /\ \A i \in 1 .. Len(flat) :
              /\ up[i] \in 0 .. i - 1
              /\ up[i] # 0 => \E c \in 1 .. Len(down[up[i]]) : down[up[i]][c] = i
         /\ \A p \in 1 .. Len(flat) :
              /\ Len(down[p]) \in Nat /\ DOMAIN down[p] = 1 .. Len(down[p])
              /\ \A c \in 1 .. Len(down[p]) :
                   down[p][c] \in p + 1 .. Len(flat) /\ up[down[p][c]] = p
              /\ \A c, d \in 1 .. Len(down[p]) : c < d => down[p][c] < down[p][d]
<1>1. /\ Len(flat) \in Nat /\ Indices = 1 .. Len(flat)
      /\ Len(up) = Len(flat) /\ Len(down) = Len(flat)
      /\ up \in Seq(Nat) /\ down \in Seq(Seq(Nat))
  BY DEF HeapInv, LinksAgree, Indices
<1>2. ASSUME NEW i \in 1 .. Len(flat)
      PROVE  /\ up[i] \in 0 .. i - 1
             /\ up[i] # 0 => \E c \in 1 .. Len(down[up[i]]) : down[up[i]][c] = i
  <2>1. up[i] \in Nat /\ up[i] < i BY <1>1 DEF HeapInv, LinksAgree
  <2>2. up[i] \in 0 .. i - 1 BY <2>1
  <2>3. up[i] # 0 => up[i] \in 1 .. Len(flat) BY <1>1, <2>2
  <2> QED BY <1>1, <2>2, <2>3 DEF HeapInv, LinksAgree
<1>3. ASSUME NEW p \in 1 .. Len(flat)
      PROVE  /\ Len(down[p]) \in Nat /\ DOMAIN down[p] = 1 .. Len(down[p])
             /\ \A c \in 1 .. Len(down[p]) :
                  down[p][c] \in p + 1 .. Len(flat) /\ up[down[p][c]] = p
             /\ \A c, d \in 1 .. Len(down[p]) : c < d => down[p][c] < down[p][d]
  <2>1. PICK q \in Seq(Nat) : q = down[p] BY <1>1
  <2>2. Len(q) \in Nat /\ DOMAIN q = 1 .. Len(q) BY <2>1
  <2>3. ASSUME NEW c \in 1 .. Len(q) PROVE q[c] \in p + 1 .. Len(flat) /\ up[q[c]] = p
    <3>1. q[c] \in 1 .. Len(flat) BY <1>1, <2>1 DEF HeapInv
    <3>2. up[q[c]] = p BY <1>1, <2>1, <3>1 DEF HeapInv, LinksAgree
    <3>3. up[q[c]] \in 0 .. q[c] - 1 BY <1>2, <3>1
    <3> QED BY <1>1, <3>1, <3>2, <3>3
  <2>4. \A c, d \in 1 .. Len(q) : c < d => q[c] < q[d]
    BY <1>1, <2>1 DEF HeapInv, LinksAgree
  <2> QED BY <2>1, <2>2, <2>3, <2>4
<1> QED BY <1>1, <1>2, <1>3

-----------------------------------------------------------------------------
(* Object IDs. *)

IsScan(id, m, f) ==
  f = [i \in 0 .. m |->
         IF i = 0 THEN 0
         ELSE IF flat[i].id = id /\ Replaces(i, f[i - 1]) THEN i ELSE f[i - 1]]

Scan(id) == CHOOSE f : IsScan(id, Len(flat), f)

LEMMA ScanExists ==
  ASSUME NEW id, Len(flat) \in Nat
  PROVE  IsScan(id, Len(flat), Scan(id))
<1> DEFINE n == Len(flat)
           S == {m \in Nat : \E f : IsScan(id, m, f)}
<1>1. ASSUME NEW m \in 0 .. n, \A j \in 0 .. m - 1 : j \in S PROVE m \in S
  <2> HIDE DEF n
  <2>1. CASE m = 0
    <3> DEFINE f == [i \in 0 .. 0 |-> 0]
    <3>1. \A i \in 0 .. 0 : i = 0 OBVIOUS
    <3>2. IsScan(id, 0, f) BY <3>1 DEF IsScan
    <3> QED BY <2>1, <3>2
  <2>2. CASE m # 0
    <3>1. m \in Nat /\ m - 1 \in Nat /\ m - 1 \in 0 .. m - 1 BY <2>2 DEF n
    <3>2. PICK f : IsScan(id, m - 1, f) BY <1>1, <3>1
    <3>3. \A i \in 0 .. m - 1 :
            f[i] = IF i = 0 THEN 0
                   ELSE IF flat[i].id = id /\ Replaces(i, f[i - 1]) THEN i ELSE f[i - 1]
      BY <3>2 DEF IsScan
    <3> DEFINE g == [i \in 0 .. m |->
                       IF i # m THEN f[i]
                       ELSE IF flat[i].id = id /\ Replaces(i, f[i - 1]) THEN i ELSE f[i - 1]]
    <3>4. ASSUME NEW i \in 0 .. m
          PROVE  g[i] = IF i = 0 THEN 0
                        ELSE IF flat[i].id = id /\ Replaces(i, g[i - 1]) THEN i ELSE g[i - 1]
      <4>1. CASE i = 0 BY <2>2, <3>1, <3>3, <4>1
      <4>2. CASE i \in 1 .. m - 1
        <5>1. g[i] = f[i] /\ g[i - 1] = f[i - 1] /\ i # 0 /\ i \in 0 .. m - 1
          BY <3>1, <4>2
        <5> HIDE DEF g
        <5> QED BY <3>3, <5>1
      <4>3. CASE i = m
        <5>1. g[i - 1] = f[i - 1] BY <2>2, <3>1, <4>3
        <5>2. g[i] = IF flat[i].id = id /\ Replaces(i, f[i - 1]) THEN i ELSE f[i - 1]
          BY <4>3
        <5> HIDE DEF g
        <5> QED BY <2>2, <4>3, <5>1, <5>2
      <4> QED BY <3>1, <4>1, <4>2, <4>3
    <3>5. g = [i \in 0 .. m |-> g[i]] OBVIOUS
    <3> HIDE DEF g
    <3>6. IsScan(id, m, g) BY <3>4, <3>5 DEF IsScan
    <3> QED BY <3>1, <3>6
  <2> QED BY <2>1, <2>2
<1>2. n \in S
  <2>1. n \in Nat /\ n \in 0 .. n OBVIOUS
  <2> HIDE DEF S, n
  <2> QED BY <1>1, <2>1, FromBelow
<1> QED BY <1>2 DEF Scan

\* The scan stands at the first canonical declaration it has seen, or else at the
\* first mention.
LEMMA ScanStands ==
  ASSUME NEW id, Len(flat) \in Nat, NEW i \in 0 .. Len(flat)
  PROVE  LET D == {k \in 1 .. i : flat[k].id = id}
             C == {k \in 1 .. i : flat[k].id = id /\ IsCanonicalDeclaration(k)}
         IN  \/ D = {} /\ Scan(id)[i] = 0
             \/ C # {} /\ IsFirst(C, Scan(id)[i])
             \/ C = {} /\ IsFirst(D, Scan(id)[i])
<1> DEFINE n == Len(flat)
           f == Scan(id)
           D(m) == {k \in 1 .. m : flat[k].id = id}
           C(m) == {k \in 1 .. m : flat[k].id = id /\ IsCanonicalDeclaration(k)}
           P(m) == \/ D(m) = {} /\ f[m] = 0
                   \/ C(m) # {} /\ IsFirst(C(m), f[m])
                   \/ C(m) = {} /\ IsFirst(D(m), f[m])
           S == {m \in 0 .. n : P(m)}
<1>1. \A m \in 0 .. n :
        f[m] = IF m = 0 THEN 0
               ELSE IF flat[m].id = id /\ Replaces(m, f[m - 1]) THEN m ELSE f[m - 1]
  BY ScanExists DEF IsScan
<1>2. n \in Nat OBVIOUS
<1> HIDE DEF n, f
<1>3. ASSUME NEW m \in 0 .. n, \A j \in 0 .. m - 1 : j \in S PROVE P(m)
  <2>1. CASE m = 0
    <3>1. D(0) = {} OBVIOUS
    <3> QED BY <1>1, <2>1, <3>1
  <2>2. CASE m # 0
    <3> DEFINE x == m - 1
               d == D(x)
               c == C(x)
               y == f[x]
    <3>1. x \in 0 .. m - 1 /\ x \in Nat /\ m \in Nat /\ m = x + 1 BY <1>2, <2>2
    <3>2. P(x) BY <1>3, <3>1
    <3>3. \/ d = {} /\ y = 0
          \/ c # {} /\ IsFirst(c, y)
          \/ c = {} /\ IsFirst(d, y)
      BY <3>2
    <3>4. \A k \in d : k \in Nat /\ k \in 1 .. x /\ k <= m /\ flat[k].id = id BY <3>1
    <3>5. c \subseteq d /\ \A k \in d : k \in c <=> IsCanonicalDeclaration(k) OBVIOUS
    <3>6. /\ D(m) = IF flat[m].id = id THEN d \cup {m} ELSE d
          /\ C(m) = IF flat[m].id = id /\ IsCanonicalDeclaration(m) THEN c \cup {m} ELSE c
      BY <3>1
    <3>7. f[m] = IF flat[m].id = id /\ Replaces(m, y) THEN m ELSE y BY <1>1, <2>2
    <3>8. y = 0 <=> d = {}
      BY <3>3, <3>4, <3>5 DEF IsFirst
    <3>9. y # 0 => (IsCanonicalDeclaration(y) <=> c # {})
      BY <3>3, <3>5, <3>8 DEF IsFirst
    <3>10. Replaces(m, y) <=> d = {} \/ (IsCanonicalDeclaration(m) /\ c = {})
      BY <3>8, <3>9 DEF Replaces
    <3> HIDE DEF d, c, y
    <3>11. \/ D(m) = {} /\ f[m] = 0
           \/ C(m) # {} /\ IsFirst(C(m), f[m])
           \/ C(m) = {} /\ IsFirst(D(m), f[m])
      <4> DEFINE DD == D(m)
                 CC == C(m)
                 z == f[m]
      <4>1. /\ DD = IF flat[m].id = id THEN d \cup {m} ELSE d
            /\ CC = IF flat[m].id = id /\ IsCanonicalDeclaration(m) THEN c \cup {m} ELSE c
            /\ z = IF flat[m].id = id /\ Replaces(m, y) THEN m ELSE y
        BY <3>6, <3>7
      <4> HIDE DEF DD, CC, z, D, C
      <4>2. \/ DD = {} /\ z = 0
            \/ CC # {} /\ IsFirst(CC, z)
            \/ CC = {} /\ IsFirst(DD, z)
        <5>1. CASE flat[m].id # id BY <3>3, <4>1, <5>1
        <5>2. CASE flat[m].id = id /\ d = {}
          <6>1. z = m /\ DD = {m} /\ (CC = {m} \/ CC = {})
            BY <3>5, <3>10, <4>1, <5>2
          <6> QED BY <3>1, <6>1 DEF IsFirst
        <5>3. CASE flat[m].id = id /\ d # {} /\ c # {}
          <6>1. z = y /\ IsFirst(c, y) /\ (CC = c \/ CC = c \cup {m})
            BY <3>3, <3>10, <4>1, <5>3
          <6>2. y <= m BY <3>4, <3>5, <6>1 DEF IsFirst
          <6> QED BY <6>1, <6>2 DEF IsFirst
        <5>4. CASE flat[m].id = id /\ d # {} /\ c = {} /\ IsCanonicalDeclaration(m)
          <6>1. z = m /\ CC = {m} BY <3>10, <4>1, <5>4
          <6> QED BY <3>1, <6>1 DEF IsFirst
        <5>5. CASE flat[m].id = id /\ d # {} /\ c = {} /\ ~IsCanonicalDeclaration(m)
          <6>1. z = y /\ IsFirst(d, y) /\ CC = {} /\ DD = d \cup {m}
            BY <3>3, <3>10, <4>1, <5>5
          <6>2. y <= m BY <3>4, <6>1 DEF IsFirst
          <6> QED BY <6>1, <6>2 DEF IsFirst
        <5> QED BY <5>1, <5>2, <5>3, <5>4, <5>5
      <4> QED BY <4>2 DEF DD, CC, z
    <3> QED BY <3>11
  <2> QED BY <2>1, <2>2
<1>4. \A m \in 0 .. n : m \in S
  <2>1. \A m \in 0 .. n : (\A j \in 0 .. m - 1 : j \in S) => m \in S
    <3> HIDE DEF P
    <3> QED BY <1>3
  <2> HIDE DEF S
  <2> QED BY <1>2, <2>1, FromBelow
<1>5. P(i) BY <1>4 DEF n
<1> QED BY <1>5 DEF f

LEMMA CanonicalOf ==
  ASSUME HeapInv, NEW id, Declarations(id) # {}
  PROVE  LET canonical == {i \in Declarations(id) : IsCanonicalDeclaration(i)}
         IN  ObjectIndex(id) = First(IF canonical # {} THEN canonical ELSE Declarations(id))
<1> DEFINE n == Len(flat)
           D == {k \in 1 .. n : flat[k].id = id}
           C == {k \in 1 .. n : flat[k].id = id /\ IsCanonicalDeclaration(k)}
           y == ObjectIndex(id)
<1>1. n \in Nat /\ Indices = 1 .. n BY TreeType
<1>2. Declarations(id) = D /\ {i \in Declarations(id) : IsCanonicalDeclaration(i)} = C
  BY <1>1 DEF Declarations
<1>3. D # {} BY <1>2
<1>4. y = Scan(id)[n] BY DEF ObjectIndex, Scan, IsScan
<1>5. \/ D = {} /\ y = 0
      \/ C # {} /\ IsFirst(C, y)
      \/ C = {} /\ IsFirst(D, y)
  <2>1. n \in 0 .. n BY <1>1
  <2> QED BY <1>1, <1>4, <2>1, ScanStands
<1>6. D \in SUBSET Nat /\ C \in SUBSET Nat BY <1>1
<1> HIDE DEF D, C, y
<1>7. y = First(IF C # {} THEN C ELSE D) BY <1>3, <1>5, <1>6, FirstIs
<1> QED BY <1>2, <1>7 DEF y

LEMMA CanonicalIsFirst == HeapInv => CanonicalWins
<1>1. \A id \in Ids : Declarations(id) # {} BY DEF Ids, Declarations
<1> QED BY <1>1, CanonicalOf DEF CanonicalWins

\* In every heap an ID is resolved to its first canonical declaration, and to its
\* first mention if it has none, however many entries mention it (heap_id.go:71).
THEOREM CanonicalAlwaysWins == Spec => []CanonicalWins
BY InitIsInv, StepKeepsInv, CanonicalIsFirst, PTL DEF Spec

-----------------------------------------------------------------------------
(***************************************************************************)
(* Up the tree.  The walk of the stream attaches each entry to the one     *)
(* before it, to the parent of that, or to the parent of the parent: so    *)
(* what lies below an entry follows it without a gap.                      *)
(***************************************************************************)

NearInv ==
  /\ \A i \in 1 .. Len(flat) :
       i > 1 /\ up[i] # 0 => \/ up[i] \in {i - 1, up[i - 1]}
                             \/ up[i - 1] # 0 /\ up[i] = up[up[i - 1]]
  /\ cur # 0 => cur \in {Len(flat), up[Len(flat)]}

LEMMA NearStep == HeapInv /\ NearInv /\ [Next]_vars => NearInv'
<1> SUFFICES ASSUME HeapInv, NearInv, [Next]_vars PROVE NearInv'
  OBVIOUS
<1>1. CASE Entry
  <2> DEFINE n == Len(flat)
             p == Above(Upcoming)
             e == Upcoming
  <2>1. /\ n \in Nat /\ Len(up) = n /\ up \in Seq(Nat) /\ flat \in Seq(Entries)
        /\ cur \in 0 .. n
    BY DEF HeapInv, LinksAgree
  <2>2. p \in 0 .. n BY <1>1, AboveIsOpen
  <2>3. flat' = Append(flat, e) /\ up' = Append(up, p)
        /\ cur' = IF e.scope = "open" THEN n + 1 ELSE p
    BY <1>1 DEF Entry
  <2>4. p = cur \/ (cur # 0 /\ p = up[cur]) BY DEF Above
  <2> HIDE DEF p, e
  <2>5. Len(flat') = n + 1 BY <2>1, <2>3
  <2>6. Len(up') = n + 1 /\ up'[n + 1] = p /\ \A i \in 1 .. n : up'[i] = up[i]
    BY <2>1, <2>2, <2>3
  <2>7. n = 0 => p = 0 BY <2>2
  <2>8. /\ \A i \in 1 .. n :
             i > 1 /\ up[i] # 0 => \/ up[i] \in {i - 1, up[i - 1]}
                                   \/ up[i - 1] # 0 /\ up[i] = up[up[i - 1]]
        /\ cur # 0 => cur \in {n, up[n]}
    BY DEF NearInv
  <2>9. \A i \in 1 .. n : up[i] \in 0 .. i - 1 BY TreeType
  <2> HIDE DEF n
  <2>10. ASSUME NEW i \in 1 .. n + 1, i > 1, up'[i] # 0
         PROVE  \/ up'[i] \in {i - 1, up'[i - 1]}
                \/ up'[i - 1] # 0 /\ up'[i] = up'[up'[i - 1]]
    <3>1. CASE i \in 1 .. n
      <4>1. i - 1 \in 1 .. n /\ up'[i] = up[i] /\ up'[i - 1] = up[i - 1]
        <5>1. i - 1 \in 1 .. n BY <2>1, <2>10, <3>1
        <5> QED BY <2>6, <3>1, <5>1
      <4>2. up[i - 1] # 0 => up[i - 1] \in 1 .. n BY <2>1, <2>9, <4>1
      <4> QED BY <2>6, <2>8, <2>10, <3>1, <4>1, <4>2
    <3>2. CASE i = n + 1
      <4>1. n \in 1 .. n /\ i - 1 = n /\ up'[i] = p /\ up'[n] = up[n] /\ p # 0
        BY <2>1, <2>6, <2>10, <3>2
      <4>2. cur # 0
        BY <2>4, <4>1
      <4>3. cur \in {n, up[n]} BY <2>8, <4>2
      <4>4. up[n] # 0 => up[n] \in 1 .. n BY <2>1, <2>9, <4>1
      <4> QED BY <2>4, <2>6, <4>1, <4>2, <4>3, <4>4
    <3> QED BY <2>1, <3>1, <3>2
  <2>11. cur' # 0 => cur' \in {n + 1, up'[n + 1]} BY <2>3, <2>6
  <2> QED BY <2>5, <2>10, <2>11 DEF NearInv
<1>2. CASE Fail
  <2>1. flat' = << >> /\ cur' = 0 BY <1>2 DEF Fail
  <2> QED BY <2>1 DEF NearInv
<1>3. CASE UNCHANGED << flat, up, cur >> BY <1>3 DEF NearInv
<1> QED BY <1>1, <1>2, <1>3 DEF Next, Finish, vars

IsClimb(m, f) == f = [i \in 0 .. m |-> IF i = 0 THEN {} ELSE {i} \cup f[up[i]]]
Climb == CHOOSE f : IsClimb(Len(flat), f)

LEMMA ClimbExists ==
  ASSUME HeapInv
  PROVE  IsClimb(Len(flat), Climb)
<1> DEFINE n == Len(flat)
           S == {m \in Nat : \E f : IsClimb(m, f)}
<1>1. n \in Nat /\ \A i \in 1 .. n : up[i] \in 0 .. i - 1 BY TreeType
<1> HIDE DEF n
<1>2. ASSUME NEW m \in 0 .. n, \A j \in 0 .. m - 1 : j \in S PROVE m \in S
  <2>1. CASE m = 0
    <3> DEFINE f == [i \in 0 .. 0 |-> {}]
    <3>1. \A i \in 0 .. 0 : i = 0 OBVIOUS
    <3>2. IsClimb(0, f) BY <3>1 DEF IsClimb
    <3> QED BY <2>1, <3>2
  <2>2. CASE m # 0
    <3>1. m \in 1 .. n /\ m \in Nat /\ m - 1 \in 0 .. m - 1 BY <1>1, <2>2
    <3>2. PICK f : IsClimb(m - 1, f) BY <1>2, <3>1
    <3>3. \A i \in 0 .. m - 1 : f[i] = IF i = 0 THEN {} ELSE {i} \cup f[up[i]]
      BY <3>2 DEF IsClimb
    <3> DEFINE g == [i \in 0 .. m |-> IF i # m THEN f[i] ELSE {i} \cup f[up[i]]]
    <3>4. \A i \in 0 .. m - 1 : g[i] = f[i] BY <3>1
    <3>5. g[m] = {m} \cup f[up[m]] BY <3>1
    <3>6. g = [i \in 0 .. m |-> g[i]] OBVIOUS
    <3> HIDE DEF g
    <3>7. ASSUME NEW i \in 0 .. m PROVE g[i] = IF i = 0 THEN {} ELSE {i} \cup g[up[i]]
      <4>1. CASE i = 0
        <5>1. 0 \in 0 .. m - 1 BY <3>1
        <5> QED BY <3>3, <3>4, <4>1, <5>1
      <4>2. CASE i \in 1 .. m - 1
        <5>1. up[i] \in 0 .. m - 1 /\ i \in 0 .. m - 1 /\ i # 0
          <6>1. i \in 1 .. n BY <1>1, <3>1, <4>2
          <6>2. up[i] \in 0 .. i - 1 BY <1>1, <6>1
          <6> QED BY <3>1, <4>2, <6>2
        <5> QED BY <3>3, <3>4, <5>1
      <4>3. CASE i = m
        <5>1. up[m] \in 0 .. m - 1 BY <1>1, <3>1
        <5> QED BY <2>2, <3>4, <3>5, <4>3, <5>1
      <4> QED BY <3>1, <4>1, <4>2, <4>3
    <3>8. IsClimb(m, g) BY <3>6, <3>7 DEF IsClimb
    <3> QED BY <3>1, <3>8
  <2> QED BY <2>1, <2>2
<1>3. n \in S
  <2>1. n \in 0 .. n BY <1>1
  <2> HIDE DEF S
  <2> QED BY <1>1, <1>2, <2>1, FromBelow
<1> QED BY <1>3 DEF Climb, n

LEMMA AboveIs ==
  ASSUME HeapInv
  PROVE  /\ Above0(0) = {}
         /\ \A i \in 1 .. Len(flat) : Above0(i) = {i} \cup Above0(up[i])
<1>1. \A j : Above0(j) = Climb[j] BY DEF Above0, Climb, IsClimb
<1>2. Len(flat) \in Nat BY TreeType
<1>3. \A i \in 0 .. Len(flat) : Climb[i] = IF i = 0 THEN {} ELSE {i} \cup Climb[up[i]]
  BY ClimbExists DEF IsClimb
<1>4. 0 \in 0 .. Len(flat) BY <1>2
<1>5. \A i \in 1 .. Len(flat) : i \in 0 .. Len(flat) /\ i # 0 BY <1>2
<1>6. Climb[0] = {} BY <1>3, <1>4
<1>7. \A i \in 1 .. Len(flat) : Climb[i] = {i} \cup Climb[up[i]] BY <1>3, <1>5
<1> QED BY <1>1, <1>6, <1>7

\* What is above an entry lies in front of it, and so does what is above that.
LEMMA AboveType ==
  ASSUME HeapInv
  PROVE  \A i \in 0 .. Len(flat) :
           /\ Above0(i) \subseteq 1 .. i
           /\ \A j \in Above0(i) : Above0(j) \subseteq Above0(i)
<1> DEFINE n == Len(flat)
           P(i) == /\ Above0(i) \subseteq 1 .. i
                   /\ \A j \in Above0(i) : Above0(j) \subseteq Above0(i)
           S == {i \in 0 .. n : P(i)}
<1>1. n \in Nat /\ \A i \in 1 .. n : up[i] \in 0 .. i - 1 BY TreeType
<1>2. /\ Above0(0) = {}
      /\ \A i \in 1 .. n : Above0(i) = {i} \cup Above0(up[i])
  BY AboveIs
<1> HIDE DEF n
<1>3. ASSUME NEW i \in 0 .. n, \A j \in 0 .. i - 1 : j \in S PROVE P(i)
  <2>1. CASE i = 0 BY <1>2, <2>1
  <2>2. CASE i # 0
    <3>1. i \in 1 .. n /\ up[i] \in 0 .. i - 1 BY <1>1, <2>2
    <3>2. P(up[i]) BY <1>3, <3>1
    <3>3. Above0(i) = {i} \cup Above0(up[i]) BY <1>2, <3>1
    <3>4. 1 .. up[i] \subseteq 1 .. i /\ i \in 1 .. i BY <3>1
    <3> QED BY <3>2, <3>3, <3>4
  <2> QED BY <2>1, <2>2
<1>4. \A i \in 0 .. n : i \in S
  <2>1. \A i \in 0 .. n : (\A j \in 0 .. i - 1 : j \in S) => i \in S
    <3> HIDE DEF P
    <3> QED BY <1>3
  <2> HIDE DEF S
  <2> QED BY <1>1, <2>1, FromBelow
<1> QED BY <1>4 DEF n

\* Between an entry and one below it there are only entries below it.
LEMMA NoGap ==
  ASSUME HeapInv, NearInv, NEW j \in 1 .. Len(flat), NEW c \in Above0(j)
  PROVE  \A k \in c .. j : c \in Above0(k)
<1> DEFINE S == {k \in 1 .. j : k >= c => c \in Above0(k)}
<1>1. /\ Len(flat) \in Nat
      /\ \A i \in 1 .. Len(flat) : up[i] \in 0 .. i - 1
      /\ Above0(0) = {}
      /\ \A i \in 1 .. Len(flat) : Above0(i) = {i} \cup Above0(up[i])
      /\ \A i \in 0 .. Len(flat) :
           /\ Above0(i) \subseteq 1 .. i
           /\ \A h \in Above0(i) : Above0(h) \subseteq Above0(i)
  BY TreeType, AboveIs, AboveType
<1>2. c \in 1 .. j
  <2>1. j \in 0 .. Len(flat) BY <1>1
  <2> QED BY <1>1, <2>1
<1>3. ASSUME NEW k \in 1 .. j, \A i \in k + 1 .. j : i \in S PROVE k \in S
  <2> SUFFICES ASSUME k >= c PROVE c \in Above0(k)
    OBVIOUS
  <2>1. CASE k = j BY <2>1
  <2>2. CASE k # j
    <3> DEFINE i == k + 1
    <3>1. i \in k + 1 .. j /\ i \in 1 .. Len(flat) /\ i \in 1 .. j /\ i >= c /\ i > 1
          /\ i - 1 = k /\ k \in 1 .. Len(flat) /\ c # i
      BY <1>1, <1>2, <2>2
    <3> HIDE DEF i
    <3>2. c \in Above0(i) BY <1>3, <3>1
    <3>3. c \in Above0(up[i]) /\ up[i] # 0 BY <1>1, <3>1, <3>2
    <3>4. \/ up[i] \in {k, up[k]}
          \/ up[k] # 0 /\ up[i] = up[up[k]]
      BY <3>1, <3>3 DEF NearInv
    <3>5. Above0(up[k]) \subseteq Above0(k) BY <1>1, <3>1
    <3>6. up[k] # 0 => Above0(up[up[k]]) \subseteq Above0(up[k])
      <4>1. up[k] # 0 => up[k] \in 1 .. Len(flat) BY <1>1, <3>1
      <4> QED BY <1>1, <4>1
    <3> QED BY <3>3, <3>4, <3>5, <3>6
  <2> QED BY <2>1, <2>2
<1>4. \A k \in 1 .. j : k \in S
  <2>1. j \in Nat OBVIOUS
  <2> HIDE DEF S
  <2> QED BY <1>3, <2>1, FromTop
<1> QED BY <1>2, <1>4

LEMMA BelowIs ==
  ASSUME HeapInv, NearInv, NEW i \in 1 .. Len(flat)
  PROVE  /\ i \in Below0(i) /\ Below0(i) \subseteq i .. Len(flat)
         /\ \A j \in Below0(i) :
              j # i => \E c \in 1 .. Len(down[i]) : j \in Below0(down[i][c])
         /\ \A c \in 1 .. Len(down[i]) : Below0(down[i][c]) \subseteq Below0(i)
         /\ \A c, d \in 1 .. Len(down[i]) :
              c < d => \A j \in Below0(down[i][c]) : j < down[i][d]
<1> DEFINE n == Len(flat)
           P(j) == \A h \in Above0(j) :
                     h # j => \E k \in 1 .. n : up[k] = h /\ k \in Above0(j)
           S == {j \in 0 .. n : P(j)}
<1>1. /\ n \in Nat /\ Indices = 1 .. n
      /\ \A j \in 1 .. n :
           /\ up[j] \in 0 .. j - 1
           /\ up[j] # 0 => \E c \in 1 .. Len(down[up[j]]) : down[up[j]][c] = j
      /\ \A p \in 1 .. n : \A c \in 1 .. Len(down[p]) :
           down[p][c] \in p + 1 .. n /\ up[down[p][c]] = p
      /\ \A p \in 1 .. n : \A c, d \in 1 .. Len(down[p]) : c < d => down[p][c] < down[p][d]
  BY TreeType
<1>2. /\ Above0(0) = {}
      /\ \A j \in 1 .. n : Above0(j) = {j} \cup Above0(up[j])
      /\ \A j \in 0 .. n : /\ Above0(j) \subseteq 1 .. j
                           /\ \A h \in Above0(j) : Above0(h) \subseteq Above0(j)
  BY AboveIs, AboveType
<1>3. \A h, j \in 1 .. n : j \in Below0(h) <=> h \in Above0(j)
  BY <1>1 DEF Below0
<1>4. \A h : Below0(h) \subseteq 1 .. n BY <1>1 DEF Below0
<1>5. \A j \in 1 .. n : \A k \in 1 .. n : k \in Above0(j) => k <= j
  <2> SUFFICES ASSUME NEW j \in 1 .. n, NEW k \in 1 .. n, k \in Above0(j) PROVE k <= j
    OBVIOUS
  <2>1. k \in 1 .. j
    <3>1. j \in 0 .. n BY <1>1
    <3> QED BY <1>2, <3>1
  <2> QED BY <2>1
<1>6. i \in 1 .. n OBVIOUS
<1> HIDE DEF n
<1>7. ASSUME NEW j \in 0 .. n, \A k \in 0 .. j - 1 : k \in S PROVE P(j)
  <2> SUFFICES ASSUME NEW h \in Above0(j), h # j
               PROVE  \E k \in 1 .. n : up[k] = h /\ k \in Above0(j)
    OBVIOUS
  <2>1. j \in 1 .. n
    <3>1. j # 0 BY <1>2
    <3> QED BY <1>1, <3>1
  <2>2. /\ up[j] \in 0 .. j - 1 /\ h \in Above0(up[j]) /\ j \in Above0(j)
        /\ Above0(up[j]) \subseteq Above0(j)
    BY <1>1, <1>2, <2>1
  <2>3. CASE up[j] = h BY <2>1, <2>2, <2>3
  <2>4. CASE up[j] # h
    <3>1. P(up[j]) BY <1>7, <2>2
    <3> QED BY <2>2, <2>4, <3>1
  <2> QED BY <2>3, <2>4
<1>8. \A j \in 0 .. n : j \in S
  <2>1. \A j \in 0 .. n : (\A k \in 0 .. j - 1 : k \in S) => j \in S
    <3> HIDE DEF P
    <3> QED BY <1>7
  <2> HIDE DEF S
  <2> QED BY <1>1, <2>1, FromBelow
<1>9. i \in Above0(i) BY <1>2, <1>6
<1>10. i \in Below0(i) /\ Below0(i) \subseteq i .. n
  <2>1. i \in Below0(i) BY <1>3, <1>6, <1>9
  <2>2. ASSUME NEW j \in Below0(i) PROVE j \in i .. n
    <3>1. j \in 1 .. n /\ i \in Above0(j) BY <1>3, <1>4, <1>6
    <3>2. i <= j BY <1>5, <1>6, <3>1
    <3> QED BY <1>1, <1>6, <3>1, <3>2
  <2> QED BY <2>1, <2>2
<1>11. ASSUME NEW j \in Below0(i), j # i
       PROVE  \E c \in 1 .. Len(down[i]) : j \in Below0(down[i][c])
  <2>1. j \in 1 .. n /\ j \in 0 .. n /\ i \in Above0(j) BY <1>1, <1>3, <1>4, <1>6
  <2>2. P(j) BY <1>8, <2>1
  <2>3. PICK k \in 1 .. n : up[k] = i /\ k \in Above0(j) BY <1>11, <2>1, <2>2
  <2>4. i # 0 BY <1>6
  <2>5. PICK c \in 1 .. Len(down[i]) : down[i][c] = k BY <1>1, <2>3, <2>4
  <2>6. j \in Below0(k) BY <1>3, <2>1, <2>3
  <2> QED BY <2>5, <2>6
<1>12. ASSUME NEW c \in 1 .. Len(down[i])
       PROVE  Below0(down[i][c]) \subseteq Below0(i)
  <2> DEFINE k == down[i][c]
  <2>1. k \in i + 1 .. n /\ up[k] = i BY <1>1, <1>6
  <2> HIDE DEF k
  <2>2. k \in 1 .. n BY <1>6, <2>1
  <2>3. ASSUME NEW j \in Below0(k) PROVE j \in Below0(i)
    <3>1. j \in 1 .. n /\ j \in 0 .. n /\ k \in Above0(j) BY <1>1, <1>3, <1>4, <2>2
    <3>2. i \in Above0(k) BY <1>2, <1>9, <2>1, <2>2
    <3>3. i \in Above0(j) BY <1>2, <3>1, <3>2
    <3> QED BY <1>3, <1>6, <3>1, <3>3
  <2> QED BY <2>3 DEF k
<1>13. ASSUME NEW c \in 1 .. Len(down[i]), NEW d \in 1 .. Len(down[i]), c < d,
              NEW j \in Below0(down[i][c])
       PROVE  j < down[i][d]
  <2> DEFINE k == down[i][c]
             l == down[i][d]
  <2>1. k \in i + 1 .. n /\ l \in i + 1 .. n /\ up[l] = i /\ k < l
    BY <1>1, <1>6, <1>13
  <2>2. j \in Below0(k) OBVIOUS
  <2> HIDE DEF k, l
  <2>3. k \in 1 .. n /\ l \in 1 .. n /\ i \in 0 .. n BY <1>1, <1>6, <2>1
  <2>4. j \in 1 .. n /\ k \in Above0(j) BY <1>3, <1>4, <2>2, <2>3
  <2>5. CASE j < l BY <2>5 DEF l
  <2>6. CASE ~(j < l)
    <3>1. l \in k .. j BY <2>1, <2>3, <2>4, <2>6
    <3>2. k \in Above0(l) BY <2>4, <3>1, NoGap DEF n
    <3>3. k \in Above0(i) BY <1>2, <2>1, <2>3, <3>2
    <3>4. k \in 1 .. i BY <1>2, <2>3, <3>3
    <3> QED BY <1>6, <2>1, <3>4
  <2> QED BY <2>5, <2>6
<1> QED BY <1>10, <1>11, <1>12, <1>13 DEF n

-----------------------------------------------------------------------------
(* The terminals around a declaration. *)

IsRise(D, f) ==
  f = [j \in D |-> IF up[j] = 0 THEN 0 ELSE IF IsTerminal(up[j]) THEN up[j] ELSE f[up[j]]]
Rise == CHOOSE f : IsRise(Indices, f)

LEMMA RiseExists ==
  ASSUME HeapInv
  PROVE  IsRise(Indices, Rise)
<1> DEFINE n == Len(flat)
           S == {m \in Nat : \E f : IsRise(1 .. m, f)}
           B(f, j) == IF up[j] = 0 THEN 0 ELSE IF IsTerminal(up[j]) THEN up[j] ELSE f[up[j]]
<1>1. n \in Nat /\ \A i \in 1 .. n : up[i] \in 0 .. i - 1 BY TreeType
<1> HIDE DEF n
<1>2. ASSUME NEW m \in 0 .. n, \A j \in 0 .. m - 1 : j \in S PROVE m \in S
  <2>1. CASE m = 0
    <3> DEFINE f == [i \in 1 .. 0 |-> 0]
    <3>1. \A i \in 1 .. 0 : FALSE OBVIOUS
    <3>2. IsRise(1 .. 0, f) BY <3>1 DEF IsRise
    <3> QED BY <2>1, <3>2
  <2>2. CASE m # 0
    <3>1. m \in 1 .. n /\ m \in Nat /\ m - 1 \in 0 .. m - 1 BY <1>1, <2>2
    <3>2. PICK f : IsRise(1 .. m - 1, f) BY <1>2, <3>1
    <3>3. \A i \in 1 .. m - 1 : f[i] = B(f, i) BY <3>2 DEF IsRise
    <3> DEFINE g == [i \in 1 .. m |-> IF i # m THEN f[i] ELSE B(f, i)]
    <3>4. \A i \in 1 .. m - 1 : g[i] = f[i] BY <3>1
    <3>5. g[m] = B(f, m) BY <3>1
    <3>6. g = [i \in 1 .. m |-> g[i]] OBVIOUS
    <3> HIDE DEF g
    <3>7. ASSUME NEW i \in 1 .. m PROVE g[i] = B(g, i)
      <4>1. i \in 1 .. n BY <1>1, <3>1
      <4>2. up[i] \in 0 .. i - 1 BY <1>1, <4>1
      <4>3. up[i] = 0 \/ up[i] \in 1 .. m - 1 BY <3>1, <4>2
      <4>4. B(g, i) = B(f, i) BY <3>4, <4>3
      <4>5. g[i] = B(f, i)
        <5>1. CASE i = m BY <3>5, <5>1
        <5>2. CASE i # m
          <6>1. i \in 1 .. m - 1 BY <3>1, <5>2
          <6> HIDE DEF B
          <6> QED BY <3>3, <3>4, <6>1
        <5> QED BY <5>1, <5>2
      <4> HIDE DEF B
      <4> QED BY <4>4, <4>5
    <3>8. IsRise(1 .. m, g) BY <3>6, <3>7 DEF IsRise
    <3> QED BY <3>1, <3>8
  <2> QED BY <2>1, <2>2
<1>3. n \in S
  <2>1. n \in 0 .. n BY <1>1
  <2> HIDE DEF S
  <2> QED BY <1>1, <1>2, <2>1, FromBelow
<1>4. Indices = 1 .. n BY DEF Indices, n
<1> QED BY <1>3, <1>4 DEF Rise

\* The search above finds a terminal if there is one.
LEMMA UpIs ==
  ASSUME HeapInv
  PROVE  \A i \in 0 .. Len(flat) :
           i # 0 => (WalkUp(i) # 0 <=> \E t \in Above0(up[i]) : IsTerminal(t))
<1> DEFINE n == Len(flat)
           P(i) == i # 0 => (WalkUp(i) # 0 <=> \E t \in Above0(up[i]) : IsTerminal(t))
           S == {i \in 0 .. n : P(i)}
<1>1. n \in Nat /\ Indices = 1 .. n /\ \A i \in 1 .. n : up[i] \in 0 .. i - 1 BY TreeType
<1>2. /\ Above0(0) = {}
      /\ \A j \in 1 .. n : Above0(j) = {j} \cup Above0(up[j])
  BY AboveIs
<1>3. \A i : WalkUp(i) = Rise[i] BY DEF WalkUp, Rise, IsRise
<1>4. \A i \in 1 .. n :
        WalkUp(i) = IF up[i] = 0 THEN 0 ELSE IF IsTerminal(up[i]) THEN up[i] ELSE WalkUp(up[i])
  BY <1>1, <1>3, RiseExists DEF IsRise
<1> HIDE DEF n
<1>5. ASSUME NEW i \in 0 .. n, \A j \in 0 .. i - 1 : j \in S PROVE P(i)
  <2> SUFFICES ASSUME i # 0
               PROVE  WalkUp(i) # 0 <=> \E t \in Above0(up[i]) : IsTerminal(t)
    OBVIOUS
  <2>1. i \in 1 .. n BY <1>1
  <2> DEFINE u == up[i]
  <2>2. u \in 0 .. i - 1 /\ u \in S BY <1>1, <1>5, <2>1
  <2>3. WalkUp(i) = IF u = 0 THEN 0 ELSE IF IsTerminal(u) THEN u ELSE WalkUp(u)
    BY <1>4, <2>1
  <2>4. P(u) BY <2>2
  <2>5. u # 0 => Above0(u) = {u} \cup Above0(up[u])
    <3>1. u # 0 => u \in 1 .. n BY <2>1, <2>2
    <3> QED BY <1>2, <3>1
  <2> HIDE DEF u
  <2>6. CASE u = 0 BY <1>2, <2>3, <2>6 DEF u
  <2>7. CASE u # 0 BY <2>3, <2>4, <2>5, <2>7 DEF u
  <2> QED BY <2>6, <2>7
<1>6. \A i \in 0 .. n : i \in S
  <2>1. \A i \in 0 .. n : (\A j \in 0 .. i - 1 : j \in S) => i \in S
    <3> HIDE DEF P
    <3> QED BY <1>5
  <2> HIDE DEF S
  <2> QED BY <1>1, <2>1, FromBelow
<1> QED BY <1>6 DEF n

Holding(f, j) == {c \in DOMAIN down[j] : f[down[j][c]] # 0}
FallAt(f, j) ==
  IF IsTerminal(j) THEN j
  ELSE IF Holding(f, j) = {} THEN 0 ELSE f[down[j][First(Holding(f, j))]]
IsFall(D, f) == f = [j \in D |-> FallAt(f, j)]
Fall == CHOOSE f : IsFall(Indices, f)

LEMMA FallExists ==
  ASSUME HeapInv
  PROVE  IsFall(Indices, Fall)
<1> DEFINE n == Len(flat)
           S == {m \in Nat : \E f : IsFall(m .. n, f)}
<1>1. /\ n \in Nat /\ Indices = 1 .. n
      /\ \A p \in 1 .. n :
           /\ Len(down[p]) \in Nat /\ DOMAIN down[p] = 1 .. Len(down[p])
           /\ \A c \in 1 .. Len(down[p]) : down[p][c] \in p + 1 .. n
  BY TreeType
<1> HIDE DEF n
<1>2. ASSUME NEW m \in 1 .. n, \A j \in m + 1 .. n : j \in S PROVE m \in S
  <2>1. \E f : IsFall(m + 1 .. n, f)
    <3>1. CASE m = n
      <4> DEFINE f == [j \in m + 1 .. n |-> 0]
      <4>1. m + 1 .. n = {} BY <1>1, <3>1
      <4>2. IsFall(m + 1 .. n, f) BY <4>1 DEF IsFall
      <4> QED BY <4>2
    <3>2. CASE m # n
      <4>1. m + 1 \in m + 1 .. n BY <1>1, <3>2
      <4> QED BY <1>2, <4>1
    <3> QED BY <3>1, <3>2
  <2>2. PICK f : IsFall(m + 1 .. n, f) BY <2>1
  <2>3. \A j \in m + 1 .. n : f[j] = FallAt(f, j) BY <2>2 DEF IsFall
  <2> DEFINE g == [j \in m .. n |-> IF j # m THEN f[j] ELSE FallAt(f, j)]
  <2>4. \A j \in m + 1 .. n : g[j] = f[j] BY <1>1
  <2>5. g[m] = FallAt(f, m) BY <1>1
  <2>6. g = [j \in m .. n |-> g[j]] OBVIOUS
  <2> HIDE DEF g
  <2>7. ASSUME NEW j \in m .. n PROVE g[j] = FallAt(g, j)
    <3>1. j \in 1 .. n BY <1>1
    <3>2. \A c \in DOMAIN down[j] : g[down[j][c]] = f[down[j][c]]
      <4> SUFFICES ASSUME NEW c \in DOMAIN down[j]
                   PROVE  g[down[j][c]] = f[down[j][c]]
        OBVIOUS
      <4>1. down[j][c] \in j + 1 .. n BY <1>1, <3>1
      <4>2. down[j][c] \in m + 1 .. n BY <1>1, <4>1
      <4> QED BY <2>4, <4>2
    <3>3. Holding(g, j) = Holding(f, j) BY <3>2 DEF Holding
    <3>4. Holding(f, j) # {} => First(Holding(f, j)) \in DOMAIN down[j]
      <4> DEFINE h == Holding(f, j)
      <4>1. h \subseteq DOMAIN down[j] BY DEF Holding
      <4>2. h \in SUBSET Nat BY <1>1, <3>1, <4>1
      <4> HIDE DEF h
      <4>3. h # {} => First(h) \in h BY <4>2, FirstExists DEF IsFirst
      <4> QED BY <4>1, <4>3 DEF h
    <3>5. FallAt(g, j) = FallAt(f, j) BY <3>2, <3>3, <3>4 DEF FallAt
    <3>6. g[j] = FallAt(f, j)
      <4>1. CASE j = m BY <2>5, <4>1
      <4>2. CASE j # m
        <5>1. j \in m + 1 .. n BY <1>1, <4>2
        <5> QED BY <2>3, <2>4, <5>1
      <4> QED BY <4>1, <4>2
    <3> QED BY <3>5, <3>6
  <2>8. IsFall(m .. n, g) BY <2>6, <2>7 DEF IsFall
  <2> QED BY <2>8
<1>3. \E f : IsFall(1 .. n, f)
  <2>1. CASE n = 0
    <3> DEFINE f == [j \in 1 .. n |-> 0]
    <3>1. 1 .. n = {} BY <2>1
    <3>2. IsFall(1 .. n, f) BY <3>1 DEF IsFall
    <3> QED BY <3>2
  <2>2. CASE n # 0
    <3>1. 1 \in 1 .. n BY <1>1, <2>2
    <3>2. 1 \in S
      <4> HIDE DEF S
      <4> QED BY <1>1, <1>2, <3>1, FromTop
    <3> QED BY <3>2
  <2> QED BY <2>1, <2>2
<1> QED BY <1>1, <1>3 DEF Fall

LEMMA WalkDownIs ==
  ASSUME HeapInv, NEW i \in 1 .. Len(flat)
  PROVE  LET h == {c \in 1 .. Len(down[i]) : WalkDown(down[i][c]) # 0}
         IN  WalkDown(i) = IF IsTerminal(i) THEN i
                           ELSE IF h = {} THEN 0 ELSE WalkDown(down[i][First(h)])
<1>1. \A j : WalkDown(j) = Fall[j] BY DEF WalkDown, Fall, IsFall, FallAt, Holding
<1>2. Indices = 1 .. Len(flat) /\ DOMAIN down[i] = 1 .. Len(down[i]) BY TreeType
<1>3. Fall[i] = FallAt(Fall, i) BY <1>2, FallExists DEF IsFall
<1>4. Holding(Fall, i) = {c \in 1 .. Len(down[i]) : WalkDown(down[i][c]) # 0}
  BY <1>1, <1>2 DEF Holding
<1> QED BY <1>1, <1>3, <1>4 DEF FallAt

\* The search below finds the first terminal in the order of the stream.
LEMMA DownIs ==
  ASSUME HeapInv, NearInv
  PROVE  \A i \in 1 .. Len(flat) :
           LET T == {t \in Below0(i) : IsTerminal(t)}
           IN  IF T = {} THEN WalkDown(i) = 0 ELSE IsFirst(T, WalkDown(i))
<1> DEFINE n == Len(flat)
           T(i) == {t \in Below0(i) : IsTerminal(t)}
           P(i) == IF T(i) = {} THEN WalkDown(i) = 0 ELSE IsFirst(T(i), WalkDown(i))
           S == {i \in 1 .. n : P(i)}
<1>1. /\ n \in Nat
      /\ \A p \in 1 .. n : Len(down[p]) \in Nat
                           /\ \A c \in 1 .. Len(down[p]) : down[p][c] \in p + 1 .. n
  BY TreeType
<1>2. ASSUME NEW i \in 1 .. n, \A j \in i + 1 .. n : j \in S PROVE P(i)
  <2> DEFINE k(c) == down[i][c]
             h == {c \in 1 .. Len(down[i]) : WalkDown(k(c)) # 0}
             w == WalkDown(i)
  <2>1. w = IF IsTerminal(i) THEN i ELSE IF h = {} THEN 0 ELSE WalkDown(k(First(h)))
    BY WalkDownIs
  <2>2. /\ i \in Below0(i) /\ Below0(i) \subseteq i .. n
        /\ \A j \in Below0(i) : j # i => \E c \in 1 .. Len(down[i]) : j \in Below0(k(c))
        /\ \A c \in 1 .. Len(down[i]) : Below0(k(c)) \subseteq Below0(i)
        /\ \A c, d \in 1 .. Len(down[i]) : c < d => \A j \in Below0(k(c)) : j < k(d)
    BY BelowIs
  <2>3. \A c \in 1 .. Len(down[i]) : k(c) \in i + 1 .. n /\ k(c) \in 1 .. n /\ P(k(c))
    <3> SUFFICES ASSUME NEW c \in 1 .. Len(down[i])
                 PROVE  k(c) \in i + 1 .. n /\ k(c) \in 1 .. n /\ P(k(c))
      OBVIOUS
    <3>1. k(c) \in i + 1 .. n BY <1>1
    <3>2. k(c) \in 1 .. n BY <1>1, <3>1
    <3>3. k(c) \in S BY <1>2, <3>1
    <3> QED BY <3>1, <3>2, <3>3
  <2>4. \A c \in 1 .. Len(down[i]) : \A j \in Below0(k(c)) : j >= k(c) /\ j \in Nat
    <3> SUFFICES ASSUME NEW c \in 1 .. Len(down[i]), NEW j \in Below0(k(c))
                 PROVE  j >= k(c) /\ j \in Nat
      OBVIOUS
    <3>1. k(c) \in 1 .. n BY <2>3
    <3>2. j \in k(c) .. n BY <3>1, BelowIs DEF n
    <3> QED BY <1>1, <3>1, <3>2
  <2>5. \A c \in 1 .. Len(down[i]) : c \in h <=> T(k(c)) # {}
    <3> SUFFICES ASSUME NEW c \in 1 .. Len(down[i]) PROVE c \in h <=> T(k(c)) # {}
      OBVIOUS
    <3>1. P(k(c)) /\ k(c) \in 1 .. n BY <2>3
    <3>2. ASSUME T(k(c)) # {} PROVE WalkDown(k(c)) # 0
      <4>1. WalkDown(k(c)) \in Below0(k(c)) BY <3>1, <3>2 DEF IsFirst
      <4>2. WalkDown(k(c)) >= k(c) /\ WalkDown(k(c)) \in Nat BY <2>4, <4>1
      <4> QED BY <3>1, <4>2
    <3> QED BY <3>1, <3>2
  <2>6. CASE IsTerminal(i)
    <3>1. i \in T(i) /\ \A t \in T(i) : i <= t BY <2>2, <2>6
    <3> QED BY <2>1, <2>6, <3>1 DEF IsFirst
  <2>7. CASE ~IsTerminal(i) /\ h = {}
    <3>1. T(i) = {}
      <4> SUFFICES ASSUME NEW t \in T(i) PROVE FALSE
        OBVIOUS
      <4>1. t \in Below0(i) /\ IsTerminal(t) /\ t # i BY <2>7
      <4>2. PICK c \in 1 .. Len(down[i]) : t \in Below0(k(c)) BY <2>2, <4>1
      <4>3. t \in T(k(c)) BY <4>1, <4>2
      <4>4. c \in h BY <2>5, <4>3
      <4> QED BY <2>7, <4>4
    <3> QED BY <2>1, <2>7, <3>1
  <2>8. CASE ~IsTerminal(i) /\ h # {}
    <3> DEFINE c == First(h)
    <3>1. IsFirst(h, c)
      <4>1. h \in SUBSET Nat OBVIOUS
      <4> HIDE DEF h
      <4> QED BY <2>8, <4>1, FirstExists
    <3>2. c \in 1 .. Len(down[i]) /\ c \in h /\ \A d \in h : c <= d BY <3>1 DEF IsFirst
    <3>3. w = WalkDown(k(c)) BY <2>1, <2>8
    <3> HIDE DEF c
    <3>4. T(k(c)) # {} /\ P(k(c)) BY <2>3, <2>5, <3>2
    <3>5. IsFirst(T(k(c)), w) BY <3>3, <3>4
    <3>6. w \in Below0(k(c)) /\ IsTerminal(w) /\ \A t \in T(k(c)) : w <= t
      BY <3>5 DEF IsFirst
    <3>7. w \in T(i) BY <2>2, <3>2, <3>6
    <3>8. ASSUME NEW t \in T(i) PROVE w <= t
      <4>1. t \in Below0(i) /\ IsTerminal(t) /\ t # i BY <2>8
      <4>2. PICK d \in 1 .. Len(down[i]) : t \in Below0(k(d)) BY <2>2, <4>1
      <4>3. t \in T(k(d)) BY <4>1, <4>2
      <4>4. d \in h BY <2>5, <4>3
      <4>5. c <= d BY <3>2, <4>4
      <4>6. CASE c = d BY <3>6, <4>3, <4>6
      <4>7. CASE c # d
        <5>1. c < d BY <3>2, <4>5, <4>7
        <5>2. w < k(d) BY <2>2, <3>2, <3>6, <5>1
        <5>3. t >= k(d) /\ t \in Nat BY <2>4, <4>2
        <5>4. k(d) \in 1 .. n BY <2>3
        <5>5. w \in Nat BY <2>4, <3>2, <3>6
        <5> HIDE DEF w, k
        <5> QED BY <5>2, <5>3, <5>4, <5>5
      <4> QED BY <4>6, <4>7
    <3> QED BY <3>7, <3>8 DEF IsFirst
  <2> QED BY <2>6, <2>7, <2>8
<1>3. \A i \in 1 .. n : i \in S
  <2>1. \A i \in 1 .. n : (\A j \in i + 1 .. n : j \in S) => i \in S
    <3> HIDE DEF P
    <3> QED BY <1>2
  <2> HIDE DEF S
  <2> QED BY <1>1, <2>1, FromTop
<1> QED BY <1>3

LEMMA AnchorOf ==
  ASSUME HeapInv, NearInv, NEW id, Declarations(id) # {}
  PROVE  LET d == ObjectIndex(id)
             inside == {t \in Below0(d) : IsTerminal(t)}
             around == {t \in Above0(d) : IsTerminal(t)}
             a == WireTerminalAnchor(id)
         IN  CASE inside # {} -> a = First(inside)
               [] inside = {} /\ around # {} -> a = d
               [] OTHER -> IF Carriers(id) = {} THEN a = 0
                           ELSE IsTerminal(a) /\ \E c \in Indices : up[c] = a /\ IsStub(c, id)
<1> DEFINE n == Len(flat)
           d == ObjectIndex(id)
           inside == {t \in Below0(d) : IsTerminal(t)}
           around == {t \in Above0(d) : IsTerminal(t)}
           a == WireTerminalAnchor(id)
           C == Carriers(id)
<1>1. n \in Nat /\ Indices = 1 .. n BY TreeType
<1>2. d \in 1 .. n
  <2> DEFINE D == {k \in 1 .. n : flat[k].id = id}
             E == {k \in 1 .. n : flat[k].id = id /\ IsCanonicalDeclaration(k)}
  <2>1. D # {} BY <1>1 DEF Declarations
  <2>2. d = Scan(id)[n] BY DEF ObjectIndex, Scan, IsScan
  <2>3. n \in 0 .. n BY <1>1
  <2>4. \/ D = {} /\ d = 0
        \/ E # {} /\ IsFirst(E, d)
        \/ E = {} /\ IsFirst(D, d)
    BY <1>1, <2>2, <2>3, ScanStands
  <2>5. D \subseteq 1 .. n /\ E \subseteq 1 .. n OBVIOUS
  <2> HIDE DEF D, E, d
  <2> QED BY <2>1, <2>4, <2>5 DEF IsFirst
<1>3. IF inside = {} THEN WalkDown(d) = 0 ELSE IsFirst(inside, WalkDown(d))
  BY <1>2, DownIs
<1>4. inside \subseteq d .. n
  BY <1>2, BelowIs
<1>5. WalkUp(d) # 0 <=> \E t \in Above0(up[d]) : IsTerminal(t)
  <2>1. d \in 0 .. n /\ d # 0 BY <1>1, <1>2
  <2> QED BY <2>1, UpIs
<1>6. Above0(d) = {d} \cup Above0(up[d]) /\ (IsTerminal(d) => d \in inside)
  BY <1>2, AboveIs, BelowIs
<1>7. inside = {} => (WalkUp(d) # 0 <=> around # {}) BY <1>5, <1>6
<1>8. C \subseteq 1 .. n /\ C \in SUBSET Nat BY <1>1 DEF Carriers
<1>9. a = IF d # 0 /\ WalkDown(d) # 0 THEN WalkDown(d)
          ELSE IF d # 0 /\ WalkUp(d) # 0 THEN d
          ELSE IF C = {} THEN 0 ELSE First(C)
  BY DEF WireTerminalAnchor, TerminalCarrying, First
<1>10. ASSUME NEW b \in C
       PROVE  IsTerminal(b) /\ \E c \in Indices : up[c] = b /\ IsStub(c, id)
  <2>1. b \in 1 .. n /\ IsTerminal(b) /\ \E c \in DOMAIN down[b] : IsStub(down[b][c], id)
    BY <1>1 DEF Carriers
  <2>2. PICK c \in DOMAIN down[b] : IsStub(down[b][c], id) BY <2>1
  <2>3. down[b][c] \in b + 1 .. n /\ up[down[b][c]] = b BY <2>1, TreeType
  <2>4. down[b][c] \in Indices BY <1>1, <2>1, <2>3
  <2> QED BY <2>1, <2>2, <2>3, <2>4
<1>11. C # {} => First(C) \in C BY <1>8, FirstExists DEF IsFirst
<1>12. inside # {} => First(inside) = WalkDown(d) /\ WalkDown(d) # 0
  <2> DEFINE x == WalkDown(d)
  <2>1. inside # {} => IsFirst(inside, x) BY <1>3
  <2>2. inside \in SUBSET Nat BY <1>1, <1>2, <1>4
  <2>3. 0 \notin inside BY <1>1, <1>2, <1>4
  <2> HIDE DEF inside, x
  <2>4. inside # {} => First(inside) = x /\ x \in inside BY <2>1, <2>2, FirstIs DEF IsFirst
  <2> QED BY <2>3, <2>4 DEF x
<1>13. d # 0 BY <1>2
<1>14. CASE inside # {}
  <2>1. a = First(inside) BY <1>9, <1>12, <1>13, <1>14
  <2> QED BY <1>14, <2>1
<1>15. CASE inside = {} /\ around # {}
  <2>1. a = d BY <1>3, <1>7, <1>9, <1>13, <1>15
  <2> QED BY <1>15, <2>1
<1>16. CASE inside = {} /\ around = {}
  <2>1. a = IF C = {} THEN 0 ELSE First(C) BY <1>3, <1>7, <1>9, <1>16
  <2>2. IF C = {} THEN a = 0
        ELSE IsTerminal(a) /\ \E c \in Indices : up[c] = a /\ IsStub(c, id)
    <3> HIDE DEF C, a
    <3> QED BY <1>10, <1>11, <2>1
  <2> QED BY <1>16, <2>2
<1> QED BY <1>14, <1>15, <1>16

LEMMA AnchorsAreClosest == HeapInv /\ NearInv => AnchorIsClosest
<1> DEFINE inside(id) == {t \in Below0(ObjectIndex(id)) : IsTerminal(t)}
           around(id) == {t \in Above0(ObjectIndex(id)) : IsTerminal(t)}
           a(id) == WireTerminalAnchor(id)
           other(id) == IF Carriers(id) = {} THEN a(id) = 0
                        ELSE /\ IsTerminal(a(id))
                             /\ \E c \in Indices : up[c] = a(id) /\ IsStub(c, id)
<1>1. ASSUME HeapInv, NearInv, NEW id \in Ids
      PROVE  CASE inside(id) # {} -> a(id) = First(inside(id))
               [] inside(id) = {} /\ around(id) # {} -> a(id) = ObjectIndex(id)
               [] OTHER -> other(id)
  <2>1. Declarations(id) # {} BY DEF Ids, Declarations
  <2> QED BY <1>1, <2>1, AnchorOf
<1>2. ASSUME HeapInv, NearInv, NEW id \in Ids
      PROVE  CASE inside(id) # {} -> a(id) = First(inside(id))
               [] inside(id) = {} /\ around(id) # {} -> StubOnly(id) \/ a(id) = ObjectIndex(id)
               [] OTHER -> other(id)
  <2> HIDE DEF inside, around, a, other
  <2> QED BY <1>1, <1>2
<1> QED BY <1>2 DEF AnchorIsClosest

\* In every heap the end of a wire is drawn at the first terminal the declaration
\* of its ID holds, at the declaration if it only stands inside a terminal, else at
\* a terminal with a stub of the ID, or nowhere (wire_anchor.go:33); but for an ID
\* that is mentioned by stubs alone, the first of them inside a terminal.
THEOREM AnchorsAlwaysClosest == Spec => []AnchorIsClosest
<1>1. Init => NearInv BY DEF Init, NearInv
<1> QED BY <1>1, AnchorsAreClosest, InitIsInv, StepKeepsInv, NearStep, PTL DEF Spec

-----------------------------------------------------------------------------
\* The children of an entry are the entries attached to it.
LEMMA KidsAre ==
  ASSUME HeapInv
  PROVE  /\ \A j \in 1 .. Len(flat) :
              ToSet(down[j]) = {c \in 1 .. Len(flat) : up[c] = j}
         /\ ToSet(roots) = {c \in 1 .. Len(flat) : up[c] = 0}
<1>1. /\ Len(flat) \in Nat
      /\ \A i \in 1 .. Len(flat) : up[i] # 0 => \E c \in 1 .. Len(down[up[i]]) : down[up[i]][c] = i
      /\ \A p \in 1 .. Len(flat) :
           /\ Len(down[p]) \in Nat /\ DOMAIN down[p] = 1 .. Len(down[p])
           /\ \A c \in 1 .. Len(down[p]) :
                down[p][c] \in p + 1 .. Len(flat) /\ up[down[p][c]] = p
  BY TreeType
<1>2. ASSUME NEW j \in 1 .. Len(flat)
      PROVE  ToSet(down[j]) = {c \in 1 .. Len(flat) : up[c] = j}
  <2>1. ToSet(down[j]) = {down[j][c] : c \in 1 .. Len(down[j])} BY <1>1 DEF ToSet
  <2>2. \A c \in 1 .. Len(down[j]) : down[j][c] \in 1 .. Len(flat) /\ up[down[j][c]] = j
    <3> SUFFICES ASSUME NEW c \in 1 .. Len(down[j])
                 PROVE  down[j][c] \in 1 .. Len(flat) /\ up[down[j][c]] = j
      OBVIOUS
    <3>1. down[j][c] \in j + 1 .. Len(flat) /\ up[down[j][c]] = j BY <1>1
    <3> QED BY <1>1, <3>1
  <2>3. \A i \in 1 .. Len(flat) : up[i] = j => \E c \in 1 .. Len(down[j]) : down[j][c] = i
    <3>1. j # 0 BY <1>1
    <3> QED BY <1>1, <3>1
  <2> QED BY <2>1, <2>2, <2>3
<1>3. ToSet(roots) = {c \in 1 .. Len(flat) : up[c] = 0}
  <2>1. DOMAIN roots = 1 .. Len(roots) BY DEF HeapInv
  <2>2. ToSet(roots) = {roots[c] : c \in 1 .. Len(roots)} BY <2>1 DEF ToSet
  <2>3. Indices = 1 .. Len(flat) BY DEF Indices
  <2>4. \A c \in 1 .. Len(roots) : roots[c] \in 1 .. Len(flat) BY <2>3 DEF HeapInv
  <2>5. \A i \in 1 .. Len(flat) : up[i] = 0 <=> \E c \in 1 .. Len(roots) : roots[c] = i
    BY <2>3 DEF HeapInv, LinksAgree
  <2> QED BY <2>2, <2>4, <2>5
<1> QED BY <1>2, <1>3

\* The tree as the lemmas below use it: above and below, one step at a time.
LEMMA TreeIs ==
  ASSUME HeapInv, NearInv
  PROVE  /\ Len(flat) \in Nat /\ Indices = 1 .. Len(flat)
         /\ \A i \in 1 .. Len(flat) :
              /\ up[i] \in 0 .. i - 1
              /\ up[i] # 0 => up[i] \in 1 .. Len(flat) /\ flat[up[i]].scope = "open"
              /\ flat[i].scope \in {"open", "leaf", "close"}
              /\ Above0(i) = {i} \cup Above0(up[i])
              /\ Above0(i) \subseteq 1 .. i /\ Above0(up[i]) \subseteq 1 .. i - 1
         /\ \A j \in 1 .. Len(flat) :
              /\ ToSet(down[j]) = {c \in 1 .. Len(flat) : up[c] = j}
              /\ ToSet(down[j]) \subseteq j + 1 .. Len(flat)
              /\ Below0(j) = {i \in 1 .. Len(flat) : j \in Above0(i)}
              /\ Below0(j) = {j} \cup UNION {Below0(c) : c \in ToSet(down[j])}
              /\ Below0(j) \subseteq j .. Len(flat)
              /\ flat[j].scope # "open" => ToSet(down[j]) = {}
<1> DEFINE n == Len(flat)
<1>1. /\ n \in Nat /\ Indices = 1 .. n
      /\ \A i \in 1 .. n : up[i] \in 0 .. i - 1
      /\ \A p \in 1 .. n : \A c \in 1 .. Len(down[p]) : down[p][c] \in p + 1 .. n
      /\ \A p \in 1 .. n : DOMAIN down[p] = 1 .. Len(down[p])
  BY TreeType
<1>2. \A i \in 1 .. n : up[i] # 0 => up[i] \in 1 .. n BY <1>1
<1>3. \A i \in 1 .. n : up[i] # 0 => flat[up[i]].scope = "open"
  BY DEF HeapInv, LinksAgree, Indices
<1>4. \A i \in 1 .. n : flat[i].scope \in {"open", "leaf", "close"}
  BY EntriesAssumption DEF HeapInv
<1>5. \A i \in 1 .. n : Above0(i) = {i} \cup Above0(up[i]) BY AboveIs
<1>6. \A i \in 0 .. n : Above0(i) \subseteq 1 .. i BY AboveType
<1>7. ASSUME NEW i \in 1 .. n
      PROVE  Above0(i) \subseteq 1 .. i /\ Above0(up[i]) \subseteq 1 .. i - 1
  <2>1. up[i] \in 0 .. n /\ i \in 0 .. n /\ 1 .. up[i] \subseteq 1 .. i - 1 BY <1>1
  <2> QED BY <1>6, <2>1
<1>8. /\ \A j \in 1 .. n : ToSet(down[j]) = {c \in 1 .. n : up[c] = j}
  BY KidsAre
<1>9. \A j \in 1 .. n : ToSet(down[j]) = {down[j][c] : c \in 1 .. Len(down[j])}
  BY <1>1 DEF ToSet
<1>10. ASSUME NEW j \in 1 .. n PROVE ToSet(down[j]) \subseteq j + 1 .. n
  <2>1. \A c \in 1 .. Len(down[j]) : down[j][c] \in j + 1 .. n BY <1>1
  <2>2. ToSet(down[j]) = {down[j][c] : c \in 1 .. Len(down[j])} BY <1>9
  <2> QED BY <2>1, <2>2
<1>11. \A j : Below0(j) = {i \in 1 .. n : j \in Above0(i)} BY <1>1 DEF Below0
<1>12. ASSUME NEW j \in 1 .. n
       PROVE  /\ Below0(j) = {j} \cup UNION {Below0(c) : c \in ToSet(down[j])}
              /\ Below0(j) \subseteq j .. n
  <2>1. /\ j \in Below0(j) /\ Below0(j) \subseteq j .. n
        /\ \A i \in Below0(j) : i # j => \E c \in 1 .. Len(down[j]) : i \in Below0(down[j][c])
        /\ \A c \in 1 .. Len(down[j]) : Below0(down[j][c]) \subseteq Below0(j)
    BY BelowIs
  <2>2. ToSet(down[j]) = {down[j][c] : c \in 1 .. Len(down[j])} BY <1>9
  <2> QED BY <2>1, <2>2
<1>13. \A j \in 1 .. n : flat[j].scope # "open" => ToSet(down[j]) = {}
  BY <1>3, <1>8
<1> QED BY <1>1, <1>2, <1>3, <1>4, <1>5, <1>7, <1>8, <1>10, <1>11, <1>12, <1>13

\* Every entry stands below a root.
LEMMA RootAbove ==
  ASSUME HeapInv
  PROVE  \A i \in 1 .. Len(flat) : \E r \in Above0(i) : up[r] = 0
<1> DEFINE n == Len(flat)
           S == {i \in 0 .. n : i # 0 => \E r \in Above0(i) : up[r] = 0}
<1>1. n \in Nat /\ \A i \in 1 .. n : up[i] \in 0 .. i - 1 BY TreeType
<1>2. \A i \in 1 .. n : Above0(i) = {i} \cup Above0(up[i]) BY AboveIs
<1> HIDE DEF n
<1>3. ASSUME NEW i \in 0 .. n, \A j \in 0 .. i - 1 : j \in S PROVE i \in S
  <2>1. CASE i = 0 BY <1>1, <2>1
  <2>2. CASE i # 0
    <3>1. i \in 1 .. n /\ up[i] \in 0 .. i - 1 BY <1>1, <2>2
    <3>2. up[i] \in S BY <1>3, <3>1
    <3> QED BY <1>2, <3>1, <3>2
  <2> QED BY <2>1, <2>2
<1>4. \A i \in 0 .. n : i \in S
  <2> HIDE DEF S
  <2> QED BY <1>1, <1>3, FromBelow
<1>5. \A i \in 1 .. n : i \in 0 .. n /\ i # 0 BY <1>1
<1> QED BY <1>4, <1>5 DEF n

\* No entry above i lies between c, which is above i, and the parent of c.
LEMMA NoneBetween ==
  ASSUME HeapInv, NearInv,
         NEW i \in 1 .. Len(flat), NEW c \in Above0(i), NEW t \in Above0(i), t < c
  PROVE  t \in Above0(up[c])
<1>1. c \in 1 .. Len(flat) /\ c <= i /\ t \in 1 .. Len(flat)
  <2>1. Above0(i) \subseteq 1 .. i /\ Len(flat) \in Nat BY TreeIs
  <2> QED BY <2>1
<1>2. c \in t .. i BY <1>1
<1>3. t \in Above0(c) BY <1>2, NoGap
<1>4. Above0(c) = {c} \cup Above0(up[c]) BY <1>1, AboveIs
<1> QED BY <1>1, <1>3, <1>4

-----------------------------------------------------------------------------
(***************************************************************************)
(* The nodes of the scene.  Each of the searches down the tree is a        *)
(* recursive function; that it exists, and what it is, is shown with the   *)
(* set it is meant to compute, which satisfies the recursion, and with the *)
(* recursion having one solution only.                                     *)
(***************************************************************************)

HoldsAt(f, j) == \E c \in ToSet(down[j]) : IsTerminal(c) \/ f[c]
Holds == CHOOSE f : f = [j \in Indices |-> HoldsAt(f, j)]

LEMMA SubtreeIs ==
  ASSUME HeapInv, NearInv, NEW i \in 1 .. Len(flat)
  PROVE  SubtreeHasTerminal(i) <=> \E t \in Below0(i) : t # i /\ IsTerminal(t)
<1> DEFINE n == Len(flat)
           g == [j \in 1 .. n |-> \E t \in Below0(j) : t # j /\ IsTerminal(t)]
<1>1. /\ n \in Nat /\ Indices = 1 .. n
      /\ \A j \in 1 .. n : /\ ToSet(down[j]) \subseteq j + 1 .. n
                           /\ Below0(j) = {j} \cup UNION {Below0(c) : c \in ToSet(down[j])}
                           /\ Below0(j) \subseteq j .. n
  BY TreeIs
<1>2. ASSUME NEW j \in 1 .. n PROVE g[j] <=> HoldsAt(g, j)
  <2> DEFINE K == ToSet(down[j])
  <2>1. \A c \in K : c \in 1 .. n /\ c > j /\ c \in Below0(c) /\ j \notin Below0(c)
    <3> SUFFICES ASSUME NEW c \in K PROVE c \in 1 .. n /\ c > j /\ c \in Below0(c) /\ j \notin Below0(c)
      OBVIOUS
    <3>1. c \in j + 1 .. n BY <1>1
    <3>2. c \in 1 .. n /\ c > j BY <1>1, <3>1
    <3>3. c \in Below0(c) /\ Below0(c) \subseteq c .. n BY <1>1, <3>2
    <3> QED BY <3>2, <3>3
  <2>2. \A t : t \in Below0(j) <=> t = j \/ \E c \in K : t \in Below0(c) BY <1>1
  <2>3. g[j] <=> \E t \in Below0(j) : t # j /\ IsTerminal(t) OBVIOUS
  <2>4. \A c \in K : g[c] <=> \E t \in Below0(c) : t # c /\ IsTerminal(t) BY <2>1
  <2>5. HoldsAt(g, j) <=> \E c \in K : IsTerminal(c) \/ g[c] BY DEF HoldsAt
  <2> HIDE DEF g, K
  <2> QED BY <2>1, <2>2, <2>3, <2>4, <2>5
<1>3. g = [j \in Indices |-> HoldsAt(g, j)]
  <2>1. \A j \in 1 .. n : g[j] = HoldsAt(g, j)
    <3>1. \A j \in 1 .. n : g[j] \in BOOLEAN /\ HoldsAt(g, j) \in BOOLEAN BY DEF HoldsAt
    <3> HIDE DEF g
    <3> QED BY <1>2, <3>1
  <2>2. g = [j \in 1 .. n |-> g[j]] OBVIOUS
  <2> HIDE DEF g
  <2> QED BY <1>1, <2>1, <2>2
<1> HIDE DEF g
<1>4. Holds = [j \in 1 .. n |-> HoldsAt(Holds, j)] BY <1>1, <1>3 DEF Holds
<1>5. \A j \in 1 .. n : Holds[j] = HoldsAt(Holds, j) /\ g[j] = HoldsAt(g, j) BY <1>1, <1>3, <1>4
<1> DEFINE S == {j \in 1 .. n : Holds[j] = g[j]}
<1>6. ASSUME NEW j \in 1 .. n, \A k \in j + 1 .. n : k \in S PROVE j \in S
  <2>1. \A c \in ToSet(down[j]) : Holds[c] = g[c] BY <1>1, <1>6
  <2>2. HoldsAt(Holds, j) = HoldsAt(g, j) BY <2>1 DEF HoldsAt
  <2> QED BY <1>5, <2>2
<1>7. \A j \in 1 .. n : j \in S
  <2> HIDE DEF S
  <2> QED BY <1>1, <1>6, FromTop
<1>8. SubtreeHasTerminal(i) = Holds[i] BY DEF SubtreeHasTerminal, Holds, HoldsAt
<1> QED BY <1>7, <1>8 DEF g

NestedAt(f, j) ==
  IF flat[j].scope # "open" THEN {}
  ELSE (IF Nested(j) THEN {Node("terminal", j)} ELSE {}) \cup UNION {f[c] : c \in ToSet(down[j])}
NestedFrom == CHOOSE f : f = [j \in Indices |-> NestedAt(f, j)]

\* Below a terminal exactly the entries that are to be drawn there are collected.
LEMMA NestedIs ==
  ASSUME HeapInv, NearInv, NEW i \in 1 .. Len(flat)
  PROVE  NestedTerminals(i) = {Node("terminal", t) : t \in {t \in Below0(i) : Nested(t)}}
<1> DEFINE n == Len(flat)
           N(j) == {Node("terminal", t) : t \in {t \in Below0(j) : Nested(t)}}
           g == [j \in 1 .. n |-> N(j)]
<1>1. /\ n \in Nat /\ Indices = 1 .. n
      /\ \A j \in 1 .. n : /\ ToSet(down[j]) \subseteq j + 1 .. n
                           /\ Below0(j) = {j} \cup UNION {Below0(c) : c \in ToSet(down[j])}
                           /\ flat[j].scope # "open" => ToSet(down[j]) = {}
  BY TreeIs
<1>2. ASSUME NEW j \in 1 .. n PROVE g[j] = NestedAt(g, j)
  <2> DEFINE K == ToSet(down[j])
  <2>1. K \subseteq 1 .. n BY <1>1
  <2>2. Nested(j) => flat[j].scope = "open"
    BY DEF Nested, IsTerminal, IsPerEndpointCanonical, IsCanonicalDeclaration
  <2>3. \A x : x \in N(j) <=> \/ Nested(j) /\ x = Node("terminal", j)
                              \/ \E c \in K : x \in N(c)
    <3>1. \A t : t \in Below0(j) <=> t = j \/ \E c \in K : t \in Below0(c) BY <1>1
    <3> QED BY <3>1
  <2>4. flat[j].scope # "open" => K = {} BY <1>1
  <2>5. NestedAt(g, j) = IF flat[j].scope # "open" THEN {}
                         ELSE (IF Nested(j) THEN {Node("terminal", j)} ELSE {})
                              \cup UNION {N(c) : c \in K}
    <3>1. \A c \in K : g[c] = N(c) BY <2>1
    <3> HIDE DEF g, N
    <3>2. {g[c] : c \in K} = {N(c) : c \in K} BY <3>1
    <3> QED BY <3>2 DEF NestedAt
  <2>6. g[j] = N(j) OBVIOUS
  <2> HIDE DEF g, N, K
  <2> QED BY <2>2, <2>3, <2>4, <2>5, <2>6
<1>3. g = [j \in Indices |-> NestedAt(g, j)]
  <2>1. g = [j \in 1 .. n |-> g[j]] OBVIOUS
  <2> HIDE DEF g
  <2> QED BY <1>1, <1>2, <2>1
<1>4. g[i] = N(i) OBVIOUS
<1> HIDE DEF g
<1>5. NestedFrom = [j \in 1 .. n |-> NestedAt(NestedFrom, j)] BY <1>1, <1>3 DEF NestedFrom
<1>6. \A j \in 1 .. n : NestedFrom[j] = NestedAt(NestedFrom, j) BY <1>5
<1> DEFINE S == {j \in 1 .. n : NestedFrom[j] = g[j]}
<1>7. ASSUME NEW j \in 1 .. n, \A k \in j + 1 .. n : k \in S PROVE j \in S
  <2>1. \A c \in ToSet(down[j]) : NestedFrom[c] = g[c] BY <1>1, <1>7
  <2>2. {NestedFrom[c] : c \in ToSet(down[j])} = {g[c] : c \in ToSet(down[j])} BY <2>1
  <2>3. NestedAt(NestedFrom, j) = NestedAt(g, j) BY <2>2 DEF NestedAt
  <2> QED BY <1>2, <1>6, <2>3
<1>8. \A j \in 1 .. n : j \in S
  <2> HIDE DEF S
  <2> QED BY <1>1, <1>7, FromTop
<1>9. NestedTerminals(i) = NestedFrom[i] BY DEF NestedTerminals, NestedFrom, NestedAt
<1> QED BY <1>4, <1>8, <1>9

\* Entry i stands in a terminal that is j or comes behind it.
Within(j, i) == \E t \in Above0(up[i]) : t >= j /\ IsTerminal(t)

TerminalsBelow(j) ==
  {i \in Below0(j) : IsTerminal(i) \/ (Within(j, i) /\ Nested(i))}
GroupsBelow(j) ==
  {i \in Below0(j) : ~Within(j, i) /\ flat[i].scope = "open" /\ ~IsTerminal(i)}
LabelsBelow(j) ==
  {i \in Below0(j) : ~Within(j, i) /\ flat[i].scope = "leaf" /\ (i = j \/ flat[i].tag # "bounds")}
ItemOf(j) ==
       {Node("terminal", i) : i \in TerminalsBelow(j)}
  \cup {Node("group", i) : i \in GroupsBelow(j)}
  \cup {Node("label", i) : i \in LabelsBelow(j)}

\* The three sets of an entry that is no terminal are those of its children, but for
\* itself and for the children that are not drawn.
LEMMA WithinSteps ==
  ASSUME HeapInv, NearInv, NEW j \in 1 .. Len(flat)
  PROVE  /\ ~Within(j, j)
         /\ \A c \in ToSet(down[j]) : \A i \in Below0(c) :
              Within(j, i) <=> IsTerminal(j) \/ Within(c, i)
<1> DEFINE n == Len(flat)
<1>1. /\ n \in Nat /\ Indices = 1 .. n
      /\ \A i \in 1 .. n : /\ up[i] \in 0 .. i - 1
                           /\ Above0(i) = {i} \cup Above0(up[i])
                           /\ Above0(i) \subseteq 1 .. i /\ Above0(up[i]) \subseteq 1 .. i - 1
      /\ \A k \in 1 .. n : /\ ToSet(down[k]) = {c \in 1 .. n : up[c] = k}
                           /\ ToSet(down[k]) \subseteq k + 1 .. n
                           /\ Below0(k) = {i \in 1 .. n : k \in Above0(i)}
  BY TreeIs
<1>2. ~Within(j, j)
  <2>1. Above0(up[j]) \subseteq 1 .. j - 1 BY <1>1
  <2> QED BY <2>1 DEF Within
<1>3. ASSUME NEW c \in ToSet(down[j]), NEW i \in Below0(c)
      PROVE  Within(j, i) <=> IsTerminal(j) \/ Within(c, i)
  <2>1. c \in 1 .. n /\ up[c] = j /\ c > j
    <3>1. c \in 1 .. n /\ up[c] = j /\ c \in j + 1 .. n BY <1>1
    <3> QED BY <3>1
  <2>2. i \in 1 .. n /\ c \in Above0(i) BY <1>1, <2>1
  <2>3. Above0(c) = {c} \cup Above0(j) /\ Above0(j) = {j} \cup Above0(up[j]) BY <1>1, <2>1
  <2>4. Above0(c) \subseteq Above0(i)
    <3>1. i \in 0 .. n BY <2>2
    <3> QED BY <2>2, <3>1, AboveType
  <2>5. j \in Above0(up[i])
    <3>1. Above0(i) = {i} \cup Above0(up[i]) BY <1>1, <2>2
    <3>2. j \in Above0(i) BY <2>3, <2>4
    <3>3. c <= i /\ i \in Nat BY <1>1, <2>2
    <3>4. j # i BY <2>1, <3>3
    <3> QED BY <3>1, <3>2, <3>4
  <2>6. ASSUME IsTerminal(j) PROVE Within(j, i) BY <2>5, <2>6 DEF Within
  <2>7. ASSUME Within(c, i) PROVE Within(j, i)
    <3>1. PICK t \in Above0(up[i]) : t >= c /\ IsTerminal(t) BY <2>7 DEF Within
    <3>2. t \in 1 .. i - 1 BY <1>1, <2>2
    <3>3. t >= j BY <2>1, <3>1, <3>2
    <3> QED BY <3>1, <3>3 DEF Within
  <2>8. ASSUME Within(j, i), ~IsTerminal(j) PROVE Within(c, i)
    <3>1. PICK t \in Above0(up[i]) : t >= j /\ IsTerminal(t) BY <2>8 DEF Within
    <3>2. t \in 1 .. i - 1 /\ t \in Above0(i) /\ t # j
      <4>1. Above0(i) = {i} \cup Above0(up[i]) /\ Above0(up[i]) \subseteq 1 .. i - 1
        BY <1>1, <2>2
      <4>2. t # j BY <2>8, <3>1
      <4> QED BY <4>1, <4>2
    <3>3. ~(t < c)
      <4> SUFFICES ASSUME t < c PROVE FALSE
        OBVIOUS
      <4>1. t \in Above0(j) BY <2>1, <2>2, <3>2, NoneBetween
      <4>2. t \in 1 .. j BY <1>1, <4>1
      <4> QED BY <3>1, <3>2, <4>2
    <3>4. t >= c BY <2>1, <3>2, <3>3
    <3> QED BY <3>1, <3>4 DEF Within
  <2> QED BY <2>6, <2>7, <2>8
<1> QED BY <1>2, <1>3

ItemAt(f, j) ==
  IF IsTerminal(j)
    THEN {Node("terminal", j)} \cup UNION {NestedTerminals(c) : c \in ToSet(down[j])}
  ELSE IF flat[j].scope = "open"
    THEN {Node("group", j)} \cup UNION {f[c] : c \in DrawnBelow(j)}
  ELSE IF flat[j].scope = "leaf" THEN {Node("label", j)} ELSE {}
ItemFrom == CHOOSE f : f = [j \in Indices |-> ItemAt(f, j)]

LEMMA ItemSteps ==
  ASSUME HeapInv, NearInv, NEW j \in 1 .. Len(flat),
         NEW g, \A c \in ToSet(down[j]) : g[c] = ItemOf(c)
  PROVE  ItemOf(j) = ItemAt(g, j)
<1> DEFINE n == Len(flat)
           K == ToSet(down[j])
<1>1. /\ n \in Nat
      /\ flat[j].scope \in {"open", "leaf", "close"}
      /\ K \subseteq j + 1 .. n
      /\ Below0(j) = {j} \cup UNION {Below0(c) : c \in K}
      /\ flat[j].scope # "open" => K = {}
      /\ \A c \in 1 .. n : /\ flat[c].scope \in {"open", "leaf", "close"}
                           /\ flat[c].scope # "open" => ToSet(down[c]) = {}
                           /\ Below0(c) = {c} \cup UNION {Below0(d) : d \in ToSet(down[c])}
                           /\ Below0(c) \subseteq c .. n
  BY TreeIs
<1>2. ~Within(j, j) /\ \A c \in K : \A i \in Below0(c) : Within(j, i) <=> IsTerminal(j) \/ Within(c, i)
  BY WithinSteps
<1>3. \A c \in K : c \in 1 .. n /\ \A i \in Below0(c) : i # j
  <2> SUFFICES ASSUME NEW c \in K PROVE c \in 1 .. n /\ \A i \in Below0(c) : i # j
    OBVIOUS
  <2>1. c \in j + 1 .. n BY <1>1
  <2>2. c \in 1 .. n /\ c > j BY <2>1
  <2>3. Below0(c) \subseteq c .. n BY <1>1, <2>2
  <2> QED BY <2>2, <2>3
<1>4. \A i : i \in Below0(j) <=> i = j \/ \E c \in K : i \in Below0(c) BY <1>1
<1>5. \A c \in K : NestedTerminals(c) = {Node("terminal", t) : t \in {t \in Below0(c) : Nested(t)}}
  BY <1>3, NestedIs
<1>6. \A i : IsTerminal(i) => flat[i].scope = "open" /\ Nested(i) BY DEF IsTerminal, Nested
<1>7. \A c \in K : flat[c].scope # "open" => Below0(c) = {c} BY <1>1, <1>3
<1> HIDE DEF K, n
<1>8. CASE IsTerminal(j)
  <2>1. TerminalsBelow(j) = {j} \cup UNION {{t \in Below0(c) : Nested(t)} : c \in K}
    BY <1>2, <1>4, <1>6, <1>8 DEF TerminalsBelow
  <2>2. GroupsBelow(j) = {} /\ LabelsBelow(j) = {}
    BY <1>2, <1>4, <1>6, <1>8 DEF GroupsBelow, LabelsBelow
  <2>3. ItemOf(j) = {Node("terminal", i) : i \in TerminalsBelow(j)} BY <2>2 DEF ItemOf
  <2>4. {Node("terminal", i) : i \in TerminalsBelow(j)}
          = {Node("terminal", j)} \cup UNION {NestedTerminals(c) : c \in K}
    BY <2>1, <1>5
  <2>5. ItemAt(g, j) = {Node("terminal", j)} \cup UNION {NestedTerminals(c) : c \in K}
    <3>1. flat[j].scope = "open" BY <1>6, <1>8
    <3> QED BY <1>8, <3>1 DEF ItemAt, K
  <2> QED BY <2>3, <2>4, <2>5
<1>9. CASE flat[j].scope = "open" /\ ~IsTerminal(j)
  <2> DEFINE D == {c \in K : Drawn(c)}
  <2>1. TerminalsBelow(j) = UNION {TerminalsBelow(c) : c \in K}
    BY <1>2, <1>4, <1>9 DEF TerminalsBelow
  <2>2. GroupsBelow(j) = {j} \cup UNION {GroupsBelow(c) : c \in K}
    BY <1>2, <1>4, <1>9 DEF GroupsBelow
  <2>3. LabelsBelow(j) = UNION {{i \in LabelsBelow(c) : flat[i].tag # "bounds"} : c \in K}
    <3>1. \A i : i \in LabelsBelow(j) =>
             \E c \in K : i \in LabelsBelow(c) /\ flat[i].tag # "bounds"
      BY <1>2, <1>4, <1>9 DEF LabelsBelow
    <3>2. \A c \in K : \A i \in LabelsBelow(c) : flat[i].tag # "bounds" => i \in LabelsBelow(j)
      BY <1>2, <1>4, <1>9 DEF LabelsBelow
    <3> QED BY <3>1, <3>2
  \* A child that is not drawn has nothing to show.
  <2>4. ASSUME NEW c \in K, ~Drawn(c)
        PROVE  /\ TerminalsBelow(c) = {} /\ GroupsBelow(c) = {}
               /\ \A i \in LabelsBelow(c) : flat[i].tag = "bounds"
    <3>1. flat[c].scope # "open" /\ (flat[c].scope = "leaf" => flat[c].tag = "bounds")
      BY <2>4 DEF Drawn
    <3>2. Below0(c) = {c} BY <1>7, <3>1
    <3>3. ~IsTerminal(c) /\ ~Nested(c)
      BY <3>1 DEF Nested, IsTerminal, IsPerEndpointCanonical, IsCanonicalDeclaration
    <3> QED BY <3>1, <3>2, <3>3 DEF TerminalsBelow, GroupsBelow, LabelsBelow
  \* One that is drawn is no bounds.
  <2>5. ASSUME NEW c \in D PROVE \A i \in LabelsBelow(c) : flat[i].tag # "bounds"
    <3>1. flat[c].scope = "open" \/ flat[c].tag # "bounds" BY DEF Drawn
    <3> QED BY <3>1 DEF LabelsBelow
  <2>6. /\ TerminalsBelow(j) = UNION {TerminalsBelow(c) : c \in D}
        /\ GroupsBelow(j) = {j} \cup UNION {GroupsBelow(c) : c \in D}
        /\ LabelsBelow(j) = UNION {LabelsBelow(c) : c \in D}
    <3>1. \A i : i \in TerminalsBelow(j) <=> \E c \in D : i \in TerminalsBelow(c) BY <2>1, <2>4
    <3>2. \A i : i \in GroupsBelow(j) <=> i = j \/ \E c \in D : i \in GroupsBelow(c) BY <2>2, <2>4
    <3>3. \A i : i \in LabelsBelow(j) <=> \E c \in D : i \in LabelsBelow(c) BY <2>3, <2>4, <2>5
    <3> QED BY <3>1, <3>2, <3>3
  <2>7. {g[c] : c \in D} = {ItemOf(c) : c \in D}
    <3>1. \A c \in D : g[c] = ItemOf(c) BY DEF K
    <3> HIDE DEF D
    <3> QED BY <3>1
  <2>8. ItemAt(g, j) = {Node("group", j)} \cup UNION {g[c] : c \in D}
    BY <1>9 DEF ItemAt, DrawnBelow, K
  <2> HIDE DEF D
  <2>9. ItemOf(j) = {Node("group", j)} \cup UNION {ItemOf(c) : c \in D}
    <3>1. \A x : x \in ItemOf(j) <=> \/ \E i \in TerminalsBelow(j) : x = Node("terminal", i)
                                     \/ \E i \in GroupsBelow(j) : x = Node("group", i)
                                     \/ \E i \in LabelsBelow(j) : x = Node("label", i)
      BY DEF ItemOf
    <3>2. \A c : \A x : x \in ItemOf(c) <=> \/ \E i \in TerminalsBelow(c) : x = Node("terminal", i)
                                            \/ \E i \in GroupsBelow(c) : x = Node("group", i)
                                            \/ \E i \in LabelsBelow(c) : x = Node("label", i)
      BY DEF ItemOf
    <3>3. \A x : x \in ItemOf(j) <=> x = Node("group", j) \/ \E c \in D : x \in ItemOf(c)
      BY <2>6, <3>1, <3>2
    <3> QED BY <3>3
  <2> QED BY <2>7, <2>8, <2>9
<1>10. CASE flat[j].scope = "leaf"
  <2>1. Below0(j) = {j} /\ ~IsTerminal(j) /\ ~Within(j, j) BY <1>1, <1>2, <1>6, <1>10
  <2>2. TerminalsBelow(j) = {} /\ GroupsBelow(j) = {} /\ LabelsBelow(j) = {j}
    BY <1>10, <2>1 DEF TerminalsBelow, GroupsBelow, LabelsBelow
  <2>3. ItemAt(g, j) = {Node("label", j)} BY <1>10, <2>1 DEF ItemAt
  <2> QED BY <2>2, <2>3 DEF ItemOf
<1>11. CASE flat[j].scope = "close"
  <2>1. Below0(j) = {j} /\ ~IsTerminal(j) /\ ~Within(j, j) BY <1>1, <1>2, <1>6, <1>11
  <2>2. TerminalsBelow(j) = {} /\ GroupsBelow(j) = {} /\ LabelsBelow(j) = {}
    BY <1>11, <2>1 DEF TerminalsBelow, GroupsBelow, LabelsBelow
  <2>3. ItemAt(g, j) = {} BY <1>11, <2>1 DEF ItemAt
  <2> QED BY <2>2, <2>3 DEF ItemOf
<1> QED BY <1>1, <1>8, <1>9, <1>10, <1>11

LEMMA ItemIs ==
  ASSUME HeapInv, NearInv, NEW i \in 1 .. Len(flat)
  PROVE  LayoutItem(i) = ItemOf(i)
<1> DEFINE n == Len(flat)
           g == [j \in 1 .. n |-> ItemOf(j)]
<1>1. /\ n \in Nat /\ Indices = 1 .. n
      /\ \A j \in 1 .. n : ToSet(down[j]) \subseteq j + 1 .. n
  BY TreeIs
<1>2. ASSUME NEW j \in 1 .. n PROVE g[j] = ItemAt(g, j)
  <2>1. \A c \in ToSet(down[j]) : g[c] = ItemOf(c) BY <1>1
  <2>2. g[j] = ItemOf(j) OBVIOUS
  <2> HIDE DEF g
  <2> QED BY <2>1, <2>2, ItemSteps
<1>3. g = [j \in Indices |-> ItemAt(g, j)]
  <2>1. g = [j \in 1 .. n |-> g[j]] OBVIOUS
  <2> HIDE DEF g
  <2> QED BY <1>1, <1>2, <2>1
<1>4. g[i] = ItemOf(i) OBVIOUS
<1> HIDE DEF g
<1>5. ItemFrom = [j \in 1 .. n |-> ItemAt(ItemFrom, j)] BY <1>1, <1>3 DEF ItemFrom
<1>6. \A j \in 1 .. n : ItemFrom[j] = ItemAt(ItemFrom, j) BY <1>5
<1> DEFINE S == {j \in 1 .. n : ItemFrom[j] = g[j]}
<1>7. ASSUME NEW j \in 1 .. n, \A k \in j + 1 .. n : k \in S PROVE j \in S
  <2>1. \A c \in ToSet(down[j]) : ItemFrom[c] = g[c] BY <1>1, <1>7
  <2>2. {ItemFrom[c] : c \in DrawnBelow(j)} = {g[c] : c \in DrawnBelow(j)}
    BY <2>1 DEF DrawnBelow
  <2>3. ItemAt(ItemFrom, j) = ItemAt(g, j) BY <2>2 DEF ItemAt
  <2> QED BY <1>2, <1>6, <2>3
<1>8. \A j \in 1 .. n : j \in S
  <2> HIDE DEF S
  <2> QED BY <1>1, <1>7, FromTop
<1>9. LayoutItem(i) = ItemFrom[i] BY DEF LayoutItem, ItemFrom, ItemAt
<1> QED BY <1>4, <1>8, <1>9

\* What the scene shows of the whole heap.
LEMMA SceneIs ==
  ASSUME HeapInv, NearInv
  PROVE  LET inside == {i \in Indices : \E t \in Above0(up[i]) : IsTerminal(t)}
         IN  SceneNodes =
                  {Node("terminal", i) : i \in {i \in Indices : IsTerminal(i) \/ (i \in inside /\ Nested(i))}}
             \cup {Node("group", i) :
                     i \in {i \in Indices \ inside : flat[i].scope = "open" /\ ~IsTerminal(i)}}
             \cup {Node("label", i) :
                     i \in {i \in Indices \ inside :
                              flat[i].scope = "leaf" /\ (flat[i].tag = "bounds" => up[i] = 0)}}
<1> DEFINE n == Len(flat)
           R == {c \in 1 .. n : up[c] = 0}
           inside == {i \in Indices : \E t \in Above0(up[i]) : IsTerminal(t)}
<1>1. /\ n \in Nat /\ Indices = 1 .. n
      /\ \A i \in 1 .. n : /\ up[i] \in 0 .. i - 1
                           /\ Above0(i) = {i} \cup Above0(up[i])
                           /\ Above0(i) \subseteq 1 .. i /\ Above0(up[i]) \subseteq 1 .. i - 1
      /\ \A k \in 1 .. n : Below0(k) = {i \in 1 .. n : k \in Above0(i)}
  BY TreeIs
<1>2. SceneNodes = UNION {ItemOf(r) : r \in R}
  <2>1. ToSet(roots) = R BY KidsAre
  <2>2. \A r \in R : LayoutItem(r) = ItemOf(r) BY ItemIs
  <2>3. {LayoutItem(r) : r \in R} = {ItemOf(r) : r \in R} BY <2>2
  <2> QED BY <2>1, <2>3 DEF SceneNodes
<1>3. \A i \in 1 .. n : \E r \in R : i \in Below0(r)
  <2> SUFFICES ASSUME NEW i \in 1 .. n PROVE \E r \in R : i \in Below0(r)
    OBVIOUS
  <2>1. PICK r \in Above0(i) : up[r] = 0 BY RootAbove
  <2>2. r \in 1 .. n
    <3>1. r \in 1 .. i BY <1>1
    <3> QED BY <1>1, <3>1
  <2> QED BY <1>1, <2>1, <2>2
<1>4. ASSUME NEW r \in R, NEW i \in Below0(r)
      PROVE  /\ i \in 1 .. n
             /\ Within(r, i) <=> i \in inside
             /\ i = r <=> up[i] = 0
  <2>1. i \in 1 .. n /\ r \in Above0(i) /\ r \in 1 .. n /\ up[r] = 0 BY <1>1
  <2>2. Above0(up[r]) = {} BY <2>1, AboveIs
  <2>3. ASSUME NEW t \in Above0(up[i]) PROVE t >= r
    <3>1. t \in 1 .. i - 1 /\ t \in Above0(i) BY <1>1, <2>1
    <3>2. ~(t < r)
      <4> SUFFICES ASSUME t < r PROVE FALSE
        OBVIOUS
      <4>1. t \in Above0(up[r]) BY <2>1, <3>1, NoneBetween
      <4> QED BY <2>2, <4>1
    <3> QED BY <2>1, <3>1, <3>2
  <2>4. Within(r, i) <=> i \in inside BY <1>1, <2>1, <2>3 DEF Within
  <2>5. up[i] = 0 => i = r
    <3>1. Above0(i) = {i} \cup Above0(up[i]) /\ Above0(0) = {} BY <1>1, <2>1, AboveIs
    <3> QED BY <2>1, <3>1
  <2> QED BY <2>1, <2>4, <2>5
<1> DEFINE T == {i \in Indices : IsTerminal(i) \/ (i \in inside /\ Nested(i))}
           G == {i \in Indices \ inside : flat[i].scope = "open" /\ ~IsTerminal(i)}
           L == {i \in Indices \ inside :
                   flat[i].scope = "leaf" /\ (flat[i].tag = "bounds" => up[i] = 0)}
<1>5. /\ \A i : i \in T <=> \E r \in R : i \in TerminalsBelow(r)
      /\ \A i : i \in G <=> \E r \in R : i \in GroupsBelow(r)
      /\ \A i : i \in L <=> \E r \in R : i \in LabelsBelow(r)
  <2> HIDE DEF R, n, inside
  <2>1. \A i : i \in Indices <=> \E r \in R : i \in Below0(r) BY <1>1, <1>3, <1>4
  <2>2. \A i : i \in T <=> \E r \in R : i \in TerminalsBelow(r)
    BY <1>4, <2>1 DEF TerminalsBelow
  <2>3. \A i : i \in G <=> \E r \in R : i \in GroupsBelow(r)
    BY <1>4, <2>1 DEF GroupsBelow
  <2>4. \A i : i \in L <=> \E r \in R : i \in LabelsBelow(r)
    BY <1>4, <2>1 DEF LabelsBelow
  <2> QED BY <2>2, <2>3, <2>4
<1> HIDE DEF R, T, G, L, n, inside
<1>6. \A x : x \in SceneNodes <=> \/ \E i \in T : x = Node("terminal", i)
                                  \/ \E i \in G : x = Node("group", i)
                                  \/ \E i \in L : x = Node("label", i)
  <2>1. \A r : \A x : x \in ItemOf(r) <=> \/ \E i \in TerminalsBelow(r) : x = Node("terminal", i)
                                          \/ \E i \in GroupsBelow(r) : x = Node("group", i)
                                          \/ \E i \in LabelsBelow(r) : x = Node("label", i)
    BY DEF ItemOf
  <2>2. \A x : x \in SceneNodes <=> \E r \in R : x \in ItemOf(r) BY <1>2
  <2> QED BY <1>5, <2>1, <2>2
<1>7. SceneNodes = {Node("terminal", i) : i \in T} \cup {Node("group", i) : i \in G}
                   \cup {Node("label", i) : i \in L}
  BY <1>6
<1> QED BY <1>7 DEF T, G, L, inside

LEMMA SceneComplete == HeapInv /\ NearInv => SceneIsComplete
<1> SUFFICES ASSUME HeapInv, NearInv
             PROVE  LET inside == {i \in Indices : \E t \in Above0(up[i]) : IsTerminal(t)}
                        holding == {i \in Indices : \E t \in Below0(i) : IsTerminal(t)}
                    IN  SceneNodes =
                             {Node("terminal", i) : i \in {i \in Indices : IsTerminal(i)}}
                        \cup {Node("terminal", i) :
                                i \in {i \in inside \ holding : IsPerEndpointCanonical(i)}}
                        \cup {Node("group", i) :
                                i \in {i \in Indices \ inside :
                                         flat[i].scope = "open" /\ ~IsTerminal(i)}}
                        \cup {Node("label", i) :
                                i \in {i \in Indices \ inside :
                                         flat[i].scope = "leaf"
                                         /\ (flat[i].tag = "bounds" => up[i] = 0)}}
  BY DEF SceneIsComplete
<1> DEFINE inside == {i \in Indices : \E t \in Above0(up[i]) : IsTerminal(t)}
           holding == {i \in Indices : \E t \in Below0(i) : IsTerminal(t)}
           T == {i \in Indices : IsTerminal(i) \/ (i \in inside /\ Nested(i))}
           A == {i \in Indices : IsTerminal(i)}
           B == {i \in inside \ holding : IsPerEndpointCanonical(i)}
<1>1. T = A \cup B
  <2> SUFFICES ASSUME NEW i \in Indices
               PROVE  i \in T <=> IsTerminal(i) \/ i \in B
    OBVIOUS
  <2>1. i \in 1 .. Len(flat) BY TreeIs
  <2>2. SubtreeHasTerminal(i) <=> \E t \in Below0(i) : t # i /\ IsTerminal(t) BY <2>1, SubtreeIs
  <2>3. i \in Below0(i) BY <2>1, BelowIs
  <2> QED BY <2>2, <2>3 DEF Nested
<1>2. {Node("terminal", i) : i \in T} = {Node("terminal", i) : i \in A} \cup {Node("terminal", i) : i \in B}
  <2> HIDE DEF T, A, B
  <2> QED BY <1>1
<1> QED BY <1>2, SceneIs

\* Whatever the heap, the scene shows each of its entries in the one way it should,
\* and nothing else: no terminal is lost however deep it stands, and no group or
\* label comes from inside a terminal (scene.go:312).
THEOREM SceneAlwaysComplete == Spec => []SceneIsComplete
<1>1. Init => NearInv BY DEF Init, NearInv
<1> QED BY <1>1, SceneComplete, InitIsInv, StepKeepsInv, NearStep, PTL DEF Spec

-----------------------------------------------------------------------------
(* Wires. *)

\* The end of a wire that is declared in or around a terminal is drawn.
LEMMA DeclaredEnd ==
  ASSUME HeapInv, NearInv, NEW id, NEW d \in Declarations(id), IsPerEndpointCanonical(d),
         \A e \in Declarations(id) : IsCanonicalDeclaration(e) => e = d,
         \E t \in Above0(d) \cup Below0(d) : IsTerminal(t)
  PROVE  WireTerminalAnchor(id) \in SceneTerminals
<1> DEFINE n == Len(flat)
           a == WireTerminalAnchor(id)
           below == {t \in Below0(d) : IsTerminal(t)}
           above == {t \in Above0(d) : IsTerminal(t)}
           inside == {i \in Indices : \E t \in Above0(up[i]) : IsTerminal(t)}
<1>1. n \in Nat /\ Indices = 1 .. n BY TreeIs
<1>2. d \in 1 .. n BY <1>1 DEF Declarations
<1>3. /\ Above0(d) = {d} \cup Above0(up[d])
      /\ Below0(d) \subseteq d .. n /\ d \in Below0(d)
  BY <1>2, TreeIs, BelowIs
<1>4. \A i \in 1 .. n : IsTerminal(i) \/ (i \in inside /\ Nested(i)) => i \in SceneTerminals
  BY <1>1, SceneIs DEF SceneTerminals
<1>5. ObjectIndex(id) = d
  <2>1. {i \in Declarations(id) : IsCanonicalDeclaration(i)} = {d}
    BY DEF IsPerEndpointCanonical
  <2>2. First({d}) = d BY DEF First
  <2> QED BY <1>1, <1>2, <2>1, <2>2, CanonicalOf
<1>6. /\ below # {} => a = First(below)
      /\ below = {} /\ above # {} => a = d
  BY <1>5, AnchorOf
<1>7. CASE below # {}
  <2>1. below \subseteq Nat /\ below \subseteq 1 .. n BY <1>1, <1>2, <1>3
  <2>2. First(below) \in below BY <1>7, <2>1, FirstExists DEF IsFirst
  <2> QED BY <1>4, <1>6, <1>7, <2>1, <2>2
<1>8. CASE below = {}
  <2>1. ~IsTerminal(d) BY <1>3, <1>8
  <2>2. d \in inside BY <1>1, <1>2, <1>3, <1>8, <2>1
  <2>3. Nested(d) BY <1>2, <1>8, SubtreeIs DEF Nested
  <2>4. above # {} BY <1>8
  <2> QED BY <1>2, <1>4, <1>6, <1>8, <2>2, <2>3, <2>4
<1> QED BY <1>7, <1>8

\* A wire has as many ends as its list mentions.
LEMMA EndsAre ==
  ASSUME HeapInv, NearInv, NEW w \in 1 .. Len(flat)
  PROVE  LET ids == WireTerminalIDs(w)
         IN  /\ Len(ids) \in Nat /\ DOMAIN ids = 1 .. Len(ids)
             /\ Len(WireEnds(w)) = Len(ids)
             /\ \A k \in 1 .. Len(ids) :
                  LET a == WireTerminalAnchor(ids[k])
                  IN  WireEnds(w)[k] = IF a \in SceneTerminals THEN a ELSE 0
<1> DEFINE n == Len(flat)
           ids == WireTerminalIDs(w)
<1>1. /\ n \in Nat /\ Indices = 1 .. n
      /\ \A j \in 1 .. n : ToSet(down[j]) \subseteq j + 1 .. n
  BY TreeIs
<1>2. Len(ids) \in Nat /\ DOMAIN ids = 1 .. Len(ids)
  <2>1. CASE up[w] = 0 \/ TermLists(w) = {}
    BY <2>1 DEF WireTerminalIDs
  <2>2. CASE ~(up[w] = 0 \/ TermLists(w) = {})
    <3> DEFINE list == First(TermLists(w))
               named == {c \in ToSet(down[list]) : flat[c].id # None}
               Mention(k) == CHOOSE c \in named : Cardinality({d \in named : d <= c}) = k
    <3>1. list \in 1 .. n
      <4>1. TermLists(w) \subseteq Nat /\ TermLists(w) \subseteq 1 .. n BY <1>1 DEF TermLists
      <4> QED BY <2>2, <4>1, FirstExists DEF IsFirst
    <3>2. Cardinality(named) \in Nat
      <4>1. named \subseteq 1 .. n BY <1>1, <3>1
      <4>2. IsFiniteSet(1 .. n) BY <1>1, FS_Interval
      <4>3. IsFiniteSet(named) BY <4>1, <4>2, FS_Subset
      <4> QED BY <4>3, FS_CardinalityType
    <3>3. ids = [k \in 1 .. Cardinality(named) |-> flat[Mention(k)].id]
      BY <2>2 DEF WireTerminalIDs
    <3> HIDE DEF named, Mention
    <3> QED BY <3>2, <3>3
  <2> QED BY <2>1, <2>2
<1> DEFINE End(id) == LET a == WireTerminalAnchor(id) IN IF a \in SceneTerminals THEN a ELSE 0
<1>3. WireEnds(w) = [k \in 1 .. Len(ids) |-> End(ids[k])] BY <1>2 DEF WireEnds
<1> HIDE DEF ids
<1>4. Len(WireEnds(w)) = Len(ids) BY <1>2, <1>3
<1> QED BY <1>2, <1>3, <1>4 DEF ids

LEMMA WiresDrawn == HeapInv /\ NearInv => DeclaredWiresAreDrawn
<1> DEFINE Declared(id) ==
             \E d \in Declarations(id) :
               /\ IsPerEndpointCanonical(d)
               /\ \A e \in Declarations(id) : IsCanonicalDeclaration(e) => e = d
               /\ \E t \in Above0(d) \cup Below0(d) : IsTerminal(t)
<1> SUFFICES ASSUME HeapInv, NearInv, NEW w \in Indices, IsChain(w),
                    Len(WireTerminalIDs(w)) >= 2,
                    Declared(WireTerminalIDs(w)[1]), Declared(WireTerminalIDs(w)[2])
             PROVE  Outcome(w) \in {"Rendered", "SharedAnchorSkipped"}
  BY DEF DeclaredWiresAreDrawn
<1> DEFINE ids == WireTerminalIDs(w)
           ends == WireEnds(w)
<1>1. w \in 1 .. Len(flat) BY TreeIs
<1>2. /\ Len(ids) \in Nat /\ Len(ends) = Len(ids)
      /\ \A k \in 1 .. Len(ids) : LET a == WireTerminalAnchor(ids[k])
                                  IN  ends[k] = IF a \in SceneTerminals THEN a ELSE 0
  BY <1>1, EndsAre
<1>3. \A id : Declared(id) => WireTerminalAnchor(id) \in SceneTerminals
  BY DeclaredEnd
<1>4. /\ ends[1] = WireTerminalAnchor(ids[1]) /\ ends[1] \in SceneTerminals
      /\ ends[2] = WireTerminalAnchor(ids[2]) /\ ends[2] \in SceneTerminals
  BY <1>2, <1>3
<1>5. SceneTerminals \subseteq Indices BY DEF SceneTerminals
<1>6. ends[1] # 0 /\ ends[2] # 0
  <2>1. 0 \notin Indices BY TreeIs
  <2> QED BY <1>4, <1>5, <2>1
<1>7. SceneTerminals # {} BY <1>4
<1>8. ~(Len(ends) < 2) BY <1>2
<1> HIDE DEF ids, ends, Declared
<1> QED BY <1>6, <1>7, <1>8 DEF Outcome, ends

\* No wire is lost to an end that the scene does not show: where both ends have their
\* canonical declaration in or around a terminal, the wire is drawn or joins a
\* terminal to itself (scene.go:688).
THEOREM DeclaredWiresAlwaysDrawn == Spec => []DeclaredWiresAreDrawn
<1>1. Init => NearInv BY DEF Init, NearInv
<1> QED BY <1>1, WiresDrawn, InitIsInv, StepKeepsInv, NearStep, PTL DEF Spec

-----------------------------------------------------------------------------
(***************************************************************************)
(* The types of literals and limits (TypedHeap).                           *)
(***************************************************************************)

LEMMA MaxIs ==
  ASSUME NEW S \in SUBSET Nat, NEW m \in S, \A j \in S : j <= m
  PROVE  Max(S) = m
<1>1. \A i \in S : (\A j \in S : i >= j) => i = m OBVIOUS
<1>2. \E i \in S : \A j \in S : i >= j OBVIOUS
<1> QED BY <1>1, <1>2 DEF Max

LEMMA MaxExists ==
  ASSUME NEW n \in Nat, NEW S \in SUBSET (0 .. n), S # {}
  PROVE  Max(S) \in S /\ \A j \in S : j <= Max(S)
<1> DEFINE T == {k \in 0 .. n : n - k \in S}
<1>1. T # {}
  <2>1. PICK s \in S : TRUE OBVIOUS
  <2>2. n - s \in 0 .. n /\ n - (n - s) = s OBVIOUS
  <2> QED BY <2>1, <2>2
<1>2. T \subseteq Nat OBVIOUS
<1>3. PICK k : IsFirst(T, k) BY <1>1, <1>2, LeastNumber
<1>4. k \in 0 .. n /\ n - k \in S /\ \A j \in T : k <= j BY <1>3 DEF IsFirst
<1>5. \A j \in S : j <= n - k
  <2> SUFFICES ASSUME NEW j \in S PROVE j <= n - k
    OBVIOUS
  <2>1. n - j \in 0 .. n /\ n - (n - j) = j OBVIOUS
  <2>2. n - j \in T BY <2>1
  <2>3. k <= n - j BY <1>4, <2>2
  <2> QED BY <1>4, <2>1, <2>3
<1>6. Max(S) = n - k BY <1>4, <1>5, MaxIs
<1> QED BY <1>4, <1>5, <1>6

LEMMA MinIsFirst == ASSUME NEW S PROVE Min(S) = First(S)
BY DEF Min, First

\* The innermost scope of the stream around an entry is the one it is attached to.
LEMMA ScopeIs ==
  ASSUME HeapInv, NestInv
  PROVE  \A i \in 1 .. Len(flat) : ScopeAround(i) = up[i]
<1> SUFFICES ASSUME NEW i \in 1 .. Len(flat) PROVE ScopeAround(i) = up[i]
  OBVIOUS
<1> DEFINE around == {j \in Indices : Encloses(j, i)}
<1>1. Indices = 1 .. Len(flat) BY TreeType
<1>2. IF around = {} THEN up[i] = 0
      ELSE up[i] \in around /\ \A j \in around : j <= up[i]
  BY <1>1, NestIsTree DEF TreeIsNesting
<1>3. around \subseteq Nat BY <1>1
<1>4. around # {} => Max(around) = up[i] BY <1>2, <1>3, MaxIs
<1> QED BY <1>2, <1>4 DEF ScopeAround

DescendsAt(f, a, j) == j # 0 /\ (j = a \/ f[up[j]])
Descends(a) == CHOOSE f : f = [j \in 0 .. Len(flat) |-> DescendsAt(f, a, j)]

LEMMA DescendantIs ==
  ASSUME HeapInv, NEW a \in Nat \ {0}, NEW i \in 0 .. Len(flat)
  PROVE  DescendantOrSelf(i, a) <=> a \in Above0(i)
<1> DEFINE n == Len(flat)
           g == [j \in 0 .. n |-> a \in Above0(j)]
           f == Descends(a)
           S == {j \in 0 .. n : f[j] = g[j]}
<1>1. /\ n \in Nat
      /\ \A j \in 1 .. n : up[j] \in 0 .. j - 1
  BY TreeType
<1>2. Above0(0) = {} /\ \A j \in 1 .. n : Above0(j) = {j} \cup Above0(up[j]) BY AboveIs
<1>3. ASSUME NEW j \in 0 .. n PROVE g[j] = DescendsAt(g, a, j)
  <2>1. CASE j = 0 BY <1>2, <2>1 DEF DescendsAt
  <2>2. CASE j # 0
    <3>1. j \in 1 .. n BY <1>1, <2>2
    <3>2. up[j] \in 0 .. n BY <1>1, <3>1
    <3>3. g[up[j]] <=> a \in Above0(up[j]) BY <3>2
    <3>4. g[j] <=> a \in Above0(j) OBVIOUS
    <3>5. g[j] \in BOOLEAN /\ DescendsAt(g, a, j) \in BOOLEAN BY DEF DescendsAt
    <3> HIDE DEF g
    <3>6. g[j] <=> DescendsAt(g, a, j) BY <1>2, <2>2, <3>1, <3>3, <3>4 DEF DescendsAt
    <3> QED BY <3>5, <3>6
  <2> QED BY <2>1, <2>2
<1>4. g = [j \in 0 .. n |-> DescendsAt(g, a, j)]
  <2>1. g = [j \in 0 .. n |-> g[j]] OBVIOUS
  <2> HIDE DEF g
  <2> QED BY <1>3, <2>1
<1>5. g[i] = (a \in Above0(i)) OBVIOUS
<1> HIDE DEF g
<1>6. f = [j \in 0 .. n |-> DescendsAt(f, a, j)] BY <1>4 DEF Descends
<1> HIDE DEF f
<1>7. \A j \in 0 .. n : f[j] = DescendsAt(f, a, j) BY <1>6
<1>8. ASSUME NEW j \in 0 .. n, \A k \in 0 .. j - 1 : k \in S PROVE j \in S
  <2>1. j # 0 => up[j] \in S
    <3> SUFFICES ASSUME j # 0 PROVE up[j] \in S
      OBVIOUS
    <3>1. up[j] \in 0 .. j - 1 BY <1>1
    <3> QED BY <1>8, <3>1
  <2>2. DescendsAt(f, a, j) = DescendsAt(g, a, j) BY <2>1 DEF DescendsAt
  <2> QED BY <1>3, <1>7, <2>2
<1>9. \A j \in 0 .. n : j \in S
  <2> HIDE DEF S
  <2> QED BY <1>1, <1>8, FromBelow
<1>10. DescendantOrSelf(i, a) = f[i] BY DEF DescendantOrSelf, Descends, DescendsAt, f
<1> QED BY <1>5, <1>9, <1>10

\* What governs a literal is what stands between it and the start of its object.
LEMMA GoverningIs ==
  ASSUME HeapInv, NearInv, NEW v \in 1 .. Len(flat)
  PROVE  GoverningDesc(v) = {i \in up[v] + 1 .. v - 1 : IsTypeDesc(i)}
<1> DEFINE p == up[v]
<1>1. /\ Len(flat) \in Nat /\ p \in 0 .. v - 1
      /\ p # 0 => flat[p].scope = "open"
      /\ Above0(v) = {v} \cup Above0(p)
      /\ \A i \in 1 .. Len(flat) : Above0(i) \subseteq 1 .. i /\ i \in Above0(i)
  BY TreeIs
<1>2. ASSUME NEW i \in 1 .. v - 1, IsTypeDesc(i), p # 0
      PROVE  DescendantOrSelf(i, p) <=> i > p
  <2>1. i \in 1 .. Len(flat) /\ i \in 0 .. Len(flat) /\ p \in Nat \ {0} /\ p \in 1 .. Len(flat)
    BY <1>1, <1>2
  <2>2. DescendantOrSelf(i, p) <=> p \in Above0(i) BY <2>1, DescendantIs
  <2>3. p \in Above0(i) => p <= i
    <3>1. Above0(i) \subseteq 1 .. i BY <1>1, <2>1
    <3> QED BY <3>1
  <2>4. i # p BY <1>1, <1>2 DEF IsTypeDesc, IsLeaf
  <2>5. p \in Above0(v) BY <1>1, <2>1
  <2>6. i > p => p \in Above0(i)
    <3> SUFFICES ASSUME i > p PROVE p \in Above0(i)
      OBVIOUS
    <3>1. i \in p .. v BY <1>1, <2>1
    <3> QED BY <2>5, <3>1, NoGap
  <2> QED BY <1>1, <2>1, <2>2, <2>3, <2>4, <2>6
<1>3. CASE p = 0 BY <1>3 DEF GoverningDesc
<1>4. CASE p # 0
  <2>1. \A i : i \in GoverningDesc(v) <=> i \in 1 .. v - 1 /\ IsTypeDesc(i) /\ i > p
    BY <1>2, <1>4 DEF GoverningDesc
  <2>2. \A i : i \in 1 .. v - 1 /\ i > p <=> i \in p + 1 .. v - 1 BY <1>1
  <2> QED BY <2>1, <2>2
<1> QED BY <1>3, <1>4

LEMMA LiteralTypes ==
  ASSUME HeapInv, NearInv, NestInv, NEW v \in 1 .. Len(flat)
  PROVE  Constant(v).index =
           IF NamedBefore(v) = {} THEN {}
           ELSE Resolved(UNION {t.index :
                           t \in {t \in FrontPanelTypes : t.node = Max(NamedBefore(v))}})
<1> DEFINE m == Max(NamedBefore(v))
           X(i) == {Tops[t + 1] : t \in TopOrdinal(i)}
<1>1. Len(flat) \in Nat /\ Indices = 1 .. Len(flat) /\ up[v] \in 0 .. v - 1 BY TreeIs
<1>2. NamedBefore(v) = {i \in up[v] + 1 .. v - 1 : IsTypeDesc(i)} BY ScopeIs DEF NamedBefore
<1>3. Constant(v).index = Resolved(ConstTypeIndex(v)) BY DEF Constant
<1>4. GoverningDesc(v) = NamedBefore(v) BY <1>2, GoverningIs
<1>5. CASE NamedBefore(v) = {}
  <2>1. ConstTypeIndex(v) = {} BY <1>4, <1>5 DEF ConstTypeIndex
  <2> QED BY <1>3, <1>5, <2>1 DEF Resolved
<1>6. CASE NamedBefore(v) # {}
  <2>1. m \in NamedBefore(v)
    <3>1. NamedBefore(v) \subseteq 0 .. v /\ v \in Nat BY <1>1, <1>2
    <3> QED BY <1>6, <3>1, MaxExists
  <2>2. m \in Indices /\ IsTypeDesc(m) BY <1>1, <1>2, <2>1
  <2> DEFINE R(i) == [node |-> i, parent |-> up[i], top |-> TopOrdinal(i), index |-> X(i),
                      type |-> {Descs[d + 1].type : d \in Resolved(X(i))}]
  <2>3. /\ \A t \in FrontPanelTypes : t.node = m => t.index = X(m)
        /\ \E t \in FrontPanelTypes : t.node = m
    <3>1. FrontPanelTypes = {R(i) : i \in {i \in Indices : IsTypeDesc(i)}}
      BY Zenon DEF FrontPanelTypes
    <3>2. \A i : R(i).node = i /\ R(i).index = X(i) OBVIOUS
    <3> HIDE DEF R, X, m
    <3> QED BY <2>2, <3>1, <3>2
  <2>4. UNION {t.index : t \in {t \in FrontPanelTypes : t.node = m}} = X(m)
    <3> HIDE DEF m, X
    <3> QED BY <2>3
  <2>5. ConstTypeIndex(v) = X(m) BY <1>4, <1>6 DEF ConstTypeIndex
  <2> QED BY <1>3, <1>6, <2>4, <2>5
<1> QED BY <1>5, <1>6

LEMMA LimitTypes ==
  ASSUME HeapInv, NearInv, NestInv, NEW v \in 1 .. Len(flat)
  PROVE  HeapDataFill(v).index =
           IF ScopeAround(v) = 0 \/ NamedBeside(v) = {} THEN {}
           ELSE Shifted(NamedId(Min(NamedBeside(v))))
<1>1. Len(flat) \in Nat /\ Indices = 1 .. Len(flat) /\ up[v] \in 0 .. v - 1 BY TreeIs
<1>2. \A i \in 1 .. Len(flat) : ScopeAround(i) = up[i] BY ScopeIs
<1>3. HeapDataFill(v).index = Shifted(TypeDescSibling(v))
  BY DEF HeapDataFill, LimitTypeIndex
<1>4. up[v] # 0 => {c \in ToSet(down[up[v]]) : flat[c].tag = "typeDesc"} = NamedBeside(v)
  <2> SUFFICES ASSUME up[v] # 0
               PROVE  {c \in ToSet(down[up[v]]) : flat[c].tag = "typeDesc"} = NamedBeside(v)
    OBVIOUS
  <2>1. up[v] \in 1 .. Len(flat) BY <1>1
  <2>2. ToSet(down[up[v]]) = {c \in 1 .. Len(flat) : up[c] = up[v]} BY <2>1, KidsAre
  <2> QED BY <1>1, <1>2, <2>2 DEF NamedBeside
<1>5. CASE up[v] = 0 \/ NamedBeside(v) = {}
  <2>1. TypeDescSibling(v) = {} BY <1>4, <1>5 DEF TypeDescSibling
  <2>2. Shifted({}) = {} BY DEF Shifted, Resolved
  <2> QED BY <1>2, <1>3, <1>5, <2>1, <2>2
<1>6. CASE ~(up[v] = 0 \/ NamedBeside(v) = {})
  <2>1. TypeDescSibling(v) = TypeNumber(First(NamedBeside(v)))
    BY <1>4, <1>6 DEF TypeDescSibling
  <2>2. HeapDataFill(v).index = Shifted(TypeNumber(Min(NamedBeside(v))))
    BY <1>3, <2>1, MinIsFirst
  <2>3. TypeNumber(Min(NamedBeside(v))) = NamedId(Min(NamedBeside(v))) BY DEF TypeNumber, NamedId
  <2> QED BY <1>2, <1>6, <2>2, <2>3
<1> QED BY <1>5, <1>6

LEMMA OwnTypes == HeapInv /\ NearInv /\ NestInv => TypesComeFromOwnObject
<1>1. Len(flat) \in Nat => Indices = 1 .. Len(flat) BY DEF Indices
<1>2. HeapInv => Len(flat) \in Nat BY TreeType
<1> QED BY <1>1, <1>2, LiteralTypes, LimitTypes DEF TypesComeFromOwnObject

\* A literal has the type named last before it in its own object, and a limit the one
\* its own object names first, if its number fits an ID: no type reaches a value from
\* another object, whatever the heap (const_value.go:118, heapdefault.go:182,
\* datafill.go:177).
THEOREM TypesAlwaysComeFromOwnObject == Spec => []TypesComeFromOwnObject
<1>1. Init => NearInv BY DEF Init, NearInv
<1>2. Init => NestInv BY EmptyNests DEF Init
<1> QED BY <1>1, <1>2, OwnTypes, InitIsInv, StepKeepsInv, NearStep, StepNests, PTL DEF Spec

-----------------------------------------------------------------------------
(***************************************************************************)
(* The texts and their context (Texts).                                    *)
(***************************************************************************)

\* The scopes open around an entry in the stream are the entries above it in the tree.
LEMMA AroundIs ==
  ASSUME HeapInv, NestInv
  PROVE  \A i \in 1 .. Len(flat) : {j \in Indices : Encloses(j, i)} = Above0(up[i])
<1> DEFINE n == Len(flat)
           Around(i) == {j \in Indices : Encloses(j, i)}
           S == {i \in 0 .. n : i # 0 => Around(i) = Above0(up[i])}
<1>1. n \in Nat /\ Indices = 1 .. n /\ \A i \in 1 .. n : up[i] \in 0 .. i - 1 BY TreeType
<1>2. Above0(0) = {} /\ \A i \in 1 .. n : Above0(i) = {i} \cup Above0(up[i]) BY AboveIs
<1>3. \A i \in 1 .. n : Around(i) = OpenAt(flat, i) \ {i} BY <1>1, AroundIsOpen
<1>4. \A i \in 1 .. n : Innermost(Around(i), up[i]) BY <1>1, <1>3 DEF NestInv
<1> HIDE DEF Around
<1>5. ASSUME NEW i \in 0 .. n, \A j \in 0 .. i - 1 : j \in S PROVE i \in S
  <2> SUFFICES ASSUME i # 0 PROVE Around(i) = Above0(up[i])
    OBVIOUS
  <2> DEFINE p == up[i]
  <2>1. i \in 1 .. n /\ p \in 0 .. i - 1 BY <1>1
  <2>2. CASE p = 0
    <3>1. 0 \notin Around(i) BY <1>1 DEF Around
    <3>2. Around(i) = {} BY <1>4, <2>1, <2>2, <3>1 DEF Innermost
    <3> QED BY <1>2, <2>2, <3>2
  <2>3. CASE p # 0
    <3>1. p \in 1 .. n /\ p \in 0 .. i - 1 /\ p \in Nat BY <1>1, <2>1, <2>3
    <3>2. p \in Around(i) /\ \A j \in Around(i) : j <= p
      BY <1>4, <2>1, <2>3, <3>1 DEF Innermost
    <3>3. p \in OpenAt(flat, i) BY <1>3, <2>1, <3>2
    <3>4. \A j \in Nat : j < p => (j \in OpenAt(flat, i) <=> j \in OpenAt(flat, p))
      BY <2>1, <3>3, OpenOutside
    <3>5. Around(p) \subseteq Nat /\ \A j \in Around(p) : j < p
      BY <1>1, <3>1 DEF Around, Encloses
    <3>6. Around(i) \subseteq Nat BY <1>1 DEF Around
    <3>7. \A j \in Nat : j \in Around(i) <=> j = p \/ j \in Around(p)
      <4> SUFFICES ASSUME NEW j \in Nat
                   PROVE  j \in Around(i) <=> j = p \/ j \in Around(p)
        OBVIOUS
      <4>1. CASE j < p
        <5>1. j # i /\ j # p BY <2>1, <4>1
        <5> QED BY <1>3, <2>1, <3>1, <3>4, <4>1, <5>1
      <4>2. CASE j = p BY <3>2, <4>2
      <4>3. CASE j > p
        <5>1. ~(j <= p) /\ ~(j < p) /\ j # p BY <3>1, <4>3
        <5> QED BY <3>2, <3>5, <5>1
      <4> QED BY <3>1, <4>1, <4>2, <4>3
    <3>8. Around(i) = {p} \cup Around(p) BY <3>1, <3>5, <3>6, <3>7
    <3>9. Around(p) = Above0(up[p]) BY <1>5, <2>3, <3>1
    <3> QED BY <1>2, <3>1, <3>8, <3>9
  <2> QED BY <2>2, <2>3
<1>6. \A i \in 0 .. n : i \in S
  <2> HIDE DEF S
  <2> QED BY <1>1, <1>5, FromBelow
<1>7. \A i \in 1 .. n : i \in 0 .. n /\ i # 0 BY <1>1
<1> QED BY <1>6, <1>7 DEF Around

\* Of entry j and those above it the first m.
Nearby(m, j) == {k \in Above0(j) : Cardinality({l \in Above0(j) : l >= k}) <= m}

LEMMA NearbyIs ==
  ASSUME HeapInv
  PROVE  /\ \A m \in Nat : Nearby(m, 0) = {}
         /\ \A j \in 0 .. Len(flat) : Nearby(0, j) = {}
         /\ \A m \in Nat : \A j \in 1 .. Len(flat) :
              m # 0 => Nearby(m, j) = {j} \cup Nearby(m - 1, up[j])
<1> DEFINE n == Len(flat)
           Upto(k, j) == {l \in Above0(j) : l >= k}
<1>1. n \in Nat /\ \A i \in 1 .. n : up[i] \in 0 .. i - 1 BY TreeType
<1>2. Above0(0) = {} /\ \A i \in 1 .. n : Above0(i) = {i} \cup Above0(up[i]) BY AboveIs
<1>3. ASSUME NEW j \in 0 .. n
      PROVE  /\ Above0(j) \subseteq 1 .. j
             /\ \A k : IsFiniteSet(Upto(k, j)) /\ Cardinality(Upto(k, j)) \in Nat
             /\ \A k \in Above0(j) : Cardinality(Upto(k, j)) # 0
  <2>1. Above0(j) \subseteq 1 .. j BY AboveType
  <2>2. ASSUME NEW k PROVE IsFiniteSet(Upto(k, j)) /\ Cardinality(Upto(k, j)) \in Nat
    <3>1. Upto(k, j) \subseteq 1 .. j BY <2>1
    <3>2. IsFiniteSet(1 .. j) BY <1>1, FS_Interval
    <3>3. IsFiniteSet(Upto(k, j)) BY <3>1, <3>2, FS_Subset
    <3> QED BY <3>3, FS_CardinalityType
  <2>3. ASSUME NEW k \in Above0(j) PROVE Cardinality(Upto(k, j)) # 0
    <3>1. k \in Upto(k, j) BY <1>1, <2>1
    <3> HIDE DEF Upto
    <3> QED BY <2>2, <3>1, FS_EmptySet
  <2> QED BY <2>1, <2>2, <2>3
<1>4. \A m \in Nat : Nearby(m, 0) = {} BY <1>2 DEF Nearby
<1>5. ASSUME NEW j \in 0 .. n PROVE Nearby(0, j) = {}
  <2>1. \A k \in Above0(j) : ~(Cardinality(Upto(k, j)) <= 0)
    <3> HIDE DEF Upto
    <3> QED BY <1>3
  <2> QED BY <2>1 DEF Nearby
<1>6. ASSUME NEW m \in Nat, NEW j \in 1 .. n, m # 0
      PROVE  Nearby(m, j) = {j} \cup Nearby(m - 1, up[j])
  <2> DEFINE p == up[j]
  <2>1. p \in 0 .. n /\ p \in 0 .. j - 1 /\ j \in 0 .. n /\ j \in Nat
    <3>1. p \in 0 .. j - 1 BY <1>1
    <3> QED BY <1>1, <3>1
  <2>2. Above0(j) = {j} \cup Above0(p) /\ Above0(p) \subseteq 1 .. p BY <1>2, <1>3, <2>1
  <2>3. Cardinality(Upto(j, j)) <= m
    <3>1. Upto(j, j) = {j} BY <2>1, <2>2
    <3>2. Cardinality({j}) = 1 BY FS_Singleton
    <3> HIDE DEF Upto
    <3> QED BY <1>6, <3>1, <3>2
  <2>4. ASSUME NEW k \in Above0(p)
        PROVE  Cardinality(Upto(k, j)) <= m <=> Cardinality(Upto(k, p)) <= m - 1
    <3>1. Upto(k, j) = Upto(k, p) \cup {j} /\ j \notin Upto(k, p) BY <2>1, <2>2
    <3>2. IsFiniteSet(Upto(k, p)) /\ Cardinality(Upto(k, p)) \in Nat BY <1>3, <2>1
    <3> HIDE DEF Upto
    <3>3. Cardinality(Upto(k, j)) = Cardinality(Upto(k, p)) + 1
      BY <3>1, <3>2, FS_AddElement
    <3> QED BY <1>6, <3>2, <3>3
  <2>5. \A k : k \in Nearby(m, j) <=> k \in Above0(j) /\ Cardinality(Upto(k, j)) <= m
    BY DEF Nearby
  <2>6. \A k : k \in Nearby(m - 1, p) <=> k \in Above0(p) /\ Cardinality(Upto(k, p)) <= m - 1
    BY DEF Nearby
  <2> HIDE DEF Upto
  <2>7. \A k : k \in Nearby(m, j) <=> k = j \/ k \in Nearby(m - 1, p)
    BY <2>2, <2>3, <2>4, <2>5, <2>6
  <2> QED BY <2>7
<1> QED BY <1>4, <1>5, <1>6

NearAt(f, S, m, j) == IF m = 0 \/ j = 0 THEN 0 ELSE IF j \in S THEN j ELSE f[m - 1][up[j]]
Nears(S) ==
  CHOOSE f : f = [m \in 0 .. MaxClimb |-> [j \in 0 .. Len(flat) |-> NearAt(f, S, m, j)]]

Last0(S) == IF S = {} THEN 0 ELSE Max(S)

\* The search upwards finds the innermost of the entries it looks at.
LEMMA NearestIs ==
  ASSUME HeapInv, NEW S, NEW i \in 0 .. Len(flat)
  PROVE  Nearest(i, S) = Last0(S \cap Nearby(MaxClimb, i))
<1> DEFINE n == Len(flat)
           M == 0 .. MaxClimb
           D == 0 .. n
           T(m, j) == Last0(S \cap Nearby(m, j))
           g == [m \in M |-> [j \in D |-> T(m, j)]]
           f == Nears(S)
<1>1. n \in Nat /\ MaxClimb \in Nat /\ \A j \in 1 .. n : up[j] \in 0 .. j - 1
  BY TreeType, ClimbAssumption
<1>2. ASSUME NEW m \in M, NEW j \in D PROVE g[m][j] = T(m, j) OBVIOUS
<1>3. ASSUME NEW m \in M, NEW j \in D PROVE T(m, j) = NearAt(g, S, m, j)
  <2>1. CASE m = 0 \/ j = 0
    <3>1. Nearby(m, j) = {} BY <1>1, <2>1, NearbyIs
    <3> QED BY <2>1, <3>1 DEF NearAt, Last0
  <2>2. CASE ~(m = 0 \/ j = 0)
    <3>1. j \in 1 .. n /\ m - 1 \in M /\ m \in Nat BY <1>1, <2>2
    <3>2. up[j] \in 0 .. j - 1 BY <1>1, <3>1
    <3>3. up[j] \in D BY <1>1, <3>2
    <3>4. Nearby(m, j) = {j} \cup Nearby(m - 1, up[j]) BY <2>2, <3>1, NearbyIs
    <3>5. NearAt(g, S, m, j) = IF j \in S THEN j ELSE T(m - 1, up[j])
      <4>1. g[m - 1][up[j]] = T(m - 1, up[j]) BY <1>2, <3>1, <3>3
      <4> HIDE DEF g, T
      <4> QED BY <2>2, <4>1 DEF NearAt
    <3>6. CASE j \in S
      <4>1. Nearby(m - 1, up[j]) \subseteq 1 .. up[j] BY <3>3, AboveType DEF Nearby
      <4>2. \A k \in S \cap Nearby(m, j) : k \in Nat /\ k <= j BY <3>1, <3>2, <3>4, <4>1
      <4>3. j \in S \cap Nearby(m, j) BY <3>4, <3>6
      <4> DEFINE X == S \cap Nearby(m, j)
      <4>4. X \in SUBSET Nat /\ X # {} BY <4>2, <4>3
      <4>5. Max(X) = j BY <4>2, <4>3, <4>4, MaxIs
      <4> HIDE DEF X
      <4>6. Last0(X) = j BY <4>4, <4>5 DEF Last0
      <4> QED BY <3>5, <3>6, <4>6 DEF X
    <3>7. CASE j \notin S
      <4>1. S \cap Nearby(m, j) = S \cap Nearby(m - 1, up[j]) BY <3>4, <3>7
      <4> QED BY <3>5, <3>7, <4>1
    <3> QED BY <3>6, <3>7
  <2> QED BY <2>1, <2>2
<1>4. g = [m \in M |-> [j \in D |-> NearAt(g, S, m, j)]]
  <2> HIDE DEF T
  <2>1. \A m \in M : [j \in D |-> T(m, j)] = [j \in D |-> NearAt(g, S, m, j)]
    <3> HIDE DEF g
    <3> QED BY <1>3
  <2>2. g = [m \in M |-> [j \in D |-> T(m, j)]] OBVIOUS
  <2> HIDE DEF g
  <2> QED BY <2>1, <2>2
<1> HIDE DEF g, T
<1>5. f = [m \in M |-> [j \in D |-> NearAt(f, S, m, j)]] BY <1>4 DEF Nears
<1> HIDE DEF f
<1>6. \A m \in M : \A j \in D : f[m][j] = NearAt(f, S, m, j) BY <1>5
<1> DEFINE U == {m \in M : \A j \in D : f[m][j] = T(m, j)}
<1>7. ASSUME NEW m \in 0 .. MaxClimb, \A k \in 0 .. m - 1 : k \in U PROVE m \in U
  <2> SUFFICES ASSUME NEW j \in D PROVE f[m][j] = T(m, j)
    OBVIOUS
  <2>1. CASE m = 0 \/ j = 0 BY <1>3, <1>6, <2>1 DEF NearAt
  <2>2. CASE ~(m = 0 \/ j = 0)
    <3>1. j \in 1 .. n /\ m - 1 \in 0 .. m - 1 /\ m - 1 \in M BY <1>1, <2>2
    <3>2. up[j] \in D
      <4>1. up[j] \in 0 .. j - 1 BY <1>1, <3>1
      <4> QED BY <1>1, <4>1
    <3>3. f[m - 1][up[j]] = g[m - 1][up[j]]
      <4>1. m - 1 \in U BY <1>7, <3>1
      <4> QED BY <1>2, <3>1, <3>2, <4>1
    <3>4. NearAt(f, S, m, j) = NearAt(g, S, m, j) BY <3>3 DEF NearAt
    <3> QED BY <1>3, <1>6, <3>4
  <2> QED BY <2>1, <2>2
<1>8. \A m \in 0 .. MaxClimb : m \in U
  <2> HIDE DEF U
  <2> QED BY <1>1, <1>7, FromBelow
<1>9. Nearest(i, S) = f[MaxClimb][i] BY DEF Nearest, Nears, NearAt, f
<1>10. MaxClimb \in M BY <1>1
<1> QED BY <1>8, <1>9, <1>10 DEF T

\* The concatenation of sequences, one after the other.
FlattenAt(f, u, i) == IF i = 1 THEN u[i] ELSE f[i - 1] \o u[i]
Flattens(u) == CHOOSE f : f = [i \in 1 .. Len(u) |-> FlattenAt(f, u, i)]

LEMMA FlattenExists ==
  ASSUME NEW u, Len(u) \in Nat
  PROVE  \A i \in 1 .. Len(u) : Flattens(u)[i] = FlattenAt(Flattens(u), u, i)
<1> DEFINE n == Len(u)
           P(m, f) == f = [i \in 1 .. m |-> FlattenAt(f, u, i)]
           S == {m \in 0 .. n : \E f : P(m, f)}
<1>1. ASSUME NEW m \in 0 .. n, \A k \in 0 .. m - 1 : k \in S PROVE m \in S
  <2>1. CASE m = 0
    <3> DEFINE f == [i \in 1 .. 0 |-> 0]
    <3>1. 1 .. 0 = {} OBVIOUS
    <3>2. P(0, f) BY <3>1
    <3> HIDE DEF P, f
    <3> QED BY <2>1, <3>2
  <2>2. CASE m # 0
    <3>1. m - 1 \in 0 .. m - 1 /\ m \in Nat BY <2>2
    <3>2. PICK f : P(m - 1, f) BY <1>1, <3>1
    <3>3. \A i \in 1 .. m - 1 : f[i] = FlattenAt(f, u, i) BY <3>2
    <3> DEFINE g == [i \in 1 .. m |-> IF i = m THEN FlattenAt(f, u, m) ELSE f[i]]
    <3>4. g[m] = FlattenAt(f, u, m) /\ \A i \in 1 .. m - 1 : g[i] = f[i] BY <3>1
    <3>5. g = [i \in 1 .. m |-> g[i]] OBVIOUS
    <3> HIDE DEF g
    <3>6. ASSUME NEW i \in 1 .. m PROVE g[i] = FlattenAt(g, u, i)
      <4>1. i = 1 \/ i - 1 \in 1 .. m - 1 BY <3>1
      <4>2. FlattenAt(g, u, i) = FlattenAt(f, u, i) BY <3>4, <4>1 DEF FlattenAt
      <4>3. i = m \/ i \in 1 .. m - 1 BY <3>1
      <4> QED BY <3>3, <3>4, <4>2, <4>3
    <3>7. P(m, g) BY <3>5, <3>6
    <3> HIDE DEF P
    <3> QED BY <3>7
  <2> QED BY <2>1, <2>2
<1>2. n \in S
  <2>1. n \in Nat /\ n \in 0 .. n OBVIOUS
  <2> HIDE DEF S, n
  <2> QED BY <1>1, <2>1, FromBelow
<1>3. P(n, Flattens(u)) BY <1>2 DEF Flattens
<1> QED BY <1>3

LEMMA FlattenCons ==
  ASSUME NEW S, NEW s \in Seq(S), NEW t \in Seq(Seq(S)), FlattenSeq(t) \in Seq(S)
  PROVE  /\ FlattenSeq(<< s >> \o t) = s \o FlattenSeq(t)
         /\ FlattenSeq(<< s >> \o t) \in Seq(S)
<1> DEFINE u == << s >> \o t
           n == Len(t)
           F == Flattens(u)
           G == Flattens(t)
<1>1. /\ n \in Nat /\ u \in Seq(Seq(S)) /\ Len(u) = n + 1
      /\ u[1] = s /\ \A i \in 1 .. n : u[i + 1] = t[i] /\ t[i] \in Seq(S)
  OBVIOUS
<1>2. /\ FlattenSeq(t) = IF n = 0 THEN t ELSE G[n]
      /\ FlattenSeq(u) = F[n + 1]
  <2>1. \A v : FlattenSeq(v) = IF Len(v) = 0 THEN v ELSE Flattens(v)[Len(v)]
    BY DEF FlattenSeq, Flattens, FlattenAt
  <2> HIDE DEF u
  <2> QED BY <1>1, <2>1
<1>3. /\ \A i \in 1 .. n + 1 : F[i] = FlattenAt(F, u, i)
      /\ \A i \in 1 .. n : G[i] = FlattenAt(G, t, i)
  <2> HIDE DEF u
  <2> QED BY <1>1, FlattenExists
<1> HIDE DEF u, n, F, G
<1>4. F[1] = s BY <1>1, <1>3 DEF FlattenAt
<1> DEFINE T == {i \in 0 .. n : i # 0 => G[i] \in Seq(S) /\ F[i + 1] = s \o G[i]}
<1>5. ASSUME NEW i \in 0 .. n, \A k \in 0 .. i - 1 : k \in T PROVE i \in T
  <2> SUFFICES ASSUME i # 0 PROVE G[i] \in Seq(S) /\ F[i + 1] = s \o G[i]
    OBVIOUS
  <2>1. i \in 1 .. n /\ i + 1 \in 1 .. n + 1 /\ i + 1 # 1 /\ (i + 1) - 1 = i BY <1>1
  <2>2. F[i + 1] = F[i] \o t[i] BY <1>1, <1>3, <2>1 DEF FlattenAt
  <2>3. CASE i = 1 BY <1>1, <1>3, <1>4, <2>1, <2>2, <2>3 DEF FlattenAt
  <2>4. CASE i # 1
    <3>1. i - 1 \in 0 .. i - 1 /\ i - 1 # 0 /\ (i - 1) + 1 = i BY <2>1, <2>4
    <3>2. G[i - 1] \in Seq(S) /\ F[i] = s \o G[i - 1]
      <4>1. i - 1 \in T BY <1>5, <3>1
      <4> QED BY <3>1, <4>1
    <3>3. G[i] = G[i - 1] \o t[i] BY <1>3, <2>1, <2>4 DEF FlattenAt
    <3>4. t[i] \in Seq(S) BY <1>1, <2>1
    <3>5. G[i] \in Seq(S) BY <3>2, <3>3, <3>4, ConcatProperties
    <3>6. (s \o G[i - 1]) \o t[i] = s \o (G[i - 1] \o t[i])
      <4> DEFINE x == G[i - 1]
                 y == t[i]
      <4>1. x \in Seq(S) /\ y \in Seq(S) BY <3>2, <3>4
      <4> HIDE DEF x, y, T
      <4>2. (s \o x) \o y = s \o (x \o y) BY <4>1, ConcatAssociative
      <4> QED BY <4>2 DEF x, y
    <3> QED BY <2>2, <3>2, <3>3, <3>5, <3>6
  <2> QED BY <2>3, <2>4
<1>6. n \in T
  <2> HIDE DEF T
  <2>1. n \in 0 .. n BY <1>1
  <2> QED BY <1>1, <1>5, <2>1, FromBelow
<1>7. F[n + 1] = s \o FlattenSeq(t)
  <2>1. CASE n = 0
    <3>1. t = << >> BY <2>1, EmptySeq DEF n
    <3>2. s \o << >> = s BY ConcatEmptySeq
    <3> QED BY <1>2, <1>4, <2>1, <3>1, <3>2
  <2>2. CASE n # 0 BY <1>2, <1>6, <2>2
  <2> QED BY <2>1, <2>2
<1>8. s \o FlattenSeq(t) \in Seq(S) BY ConcatProperties
<1> QED BY <1>2, <1>7, <1>8 DEF u

\* A list of lines, as far as it can be read from position i of b.
ListAt(f, b, i) ==
  IF i > Len(b) THEN [lines |-> << >>, ok |-> TRUE]
  ELSE IF i + b[i] > Len(b) THEN [lines |-> << >>, ok |-> FALSE]
  ELSE [f[i + b[i] + 1] EXCEPT !.lines = << SubSeq(b, i + 1, i + b[i]) >> \o @]
Lists(b) == CHOOSE f : f = [i \in 1 .. Len(b) + 1 |-> ListAt(f, b, i)]

LEMMA ListExists ==
  ASSUME NEW b \in Seq(Nat)
  PROVE  \A i \in 1 .. Len(b) + 1 : Lists(b)[i] = ListAt(Lists(b), b, i)
<1> DEFINE n == Len(b) + 1
           P(m, f) == f = [i \in m .. n |-> ListAt(f, b, i)]
           S == {m \in 1 .. n : \E f : P(m, f)}
<1>1. n \in Nat /\ 1 \in 1 .. n /\ \A i \in 1 .. Len(b) : b[i] \in Nat OBVIOUS
<1>2. ASSUME NEW m \in 1 .. n, \A k \in m + 1 .. n : k \in S PROVE m \in S
  <2>1. \E f : P(m + 1, f)
    <3>1. CASE m = n
      <4> DEFINE f == [i \in m + 1 .. n |-> 0]
      <4>1. m + 1 .. n = {} BY <1>1, <3>1
      <4>2. P(m + 1, f) BY <4>1
      <4> HIDE DEF P, f
      <4> QED BY <4>2
    <3>2. CASE m # n
      <4>1. m + 1 \in m + 1 .. n BY <1>1, <3>2
      <4> QED BY <1>2, <4>1
    <3> QED BY <3>1, <3>2
  <2>2. PICK f : P(m + 1, f) BY <2>1
  <2>3. \A i \in m + 1 .. n : f[i] = ListAt(f, b, i) BY <2>2
  <2> DEFINE g == [i \in m .. n |-> IF i = m THEN ListAt(f, b, m) ELSE f[i]]
  <2>4. g[m] = ListAt(f, b, m) /\ \A i \in m + 1 .. n : g[i] = f[i] BY <1>1
  <2>5. g = [i \in m .. n |-> g[i]] OBVIOUS
  <2> HIDE DEF g
  <2>6. ASSUME NEW i \in m .. n PROVE g[i] = ListAt(g, b, i)
    <3>1. ~(i > Len(b)) /\ ~(i + b[i] > Len(b)) => i + b[i] + 1 \in m + 1 .. n
      <4> SUFFICES ASSUME ~(i > Len(b)), ~(i + b[i] > Len(b)) PROVE i + b[i] + 1 \in m + 1 .. n
        OBVIOUS
      <4>1. i \in 1 .. Len(b) /\ Len(b) \in Nat BY <1>1
      <4>2. b[i] \in Nat BY <1>1, <4>1
      <4> QED BY <4>1, <4>2
    <3>2. ListAt(g, b, i) = ListAt(f, b, i)
      <4>1. CASE i > Len(b) BY <4>1 DEF ListAt
      <4>2. CASE ~(i > Len(b)) /\ i + b[i] > Len(b) BY <4>2 DEF ListAt
      <4>3. CASE ~(i > Len(b)) /\ ~(i + b[i] > Len(b))
        <5>1. g[i + b[i] + 1] = f[i + b[i] + 1] BY <2>4, <3>1, <4>3
        <5> QED BY <4>3, <5>1 DEF ListAt
      <4> QED BY <4>1, <4>2, <4>3
    <3>3. i = m \/ i \in m + 1 .. n BY <1>1
    <3> QED BY <2>3, <2>4, <3>2, <3>3
  <2>7. P(m, g) BY <2>5, <2>6
  <2> HIDE DEF P
  <2> QED BY <2>7
<1>3. 1 \in S
  <2> HIDE DEF S, n
  <2> QED BY <1>1, <1>2, FromTop
<1>4. P(1, Lists(b)) BY <1>3 DEF Lists
<1> QED BY <1>4

Pas(lines) == [k \in DOMAIN lines |-> << Len(lines[k]) >> \o lines[k]]

LEMMA PasCons ==
  ASSUME NEW s \in Seq(Nat), NEW t \in Seq(Seq(Nat))
  PROVE  /\ Pas(t) \in Seq(Seq(Nat))
         /\ << s >> \o t \in Seq(Seq(Nat))
         /\ Pas(<< s >> \o t) = << << Len(s) >> \o s >> \o Pas(t)
<1> DEFINE n == Len(t)
           P(x) == << Len(x) >> \o x
           u == << s >> \o t
<1>1. n \in Nat /\ DOMAIN t = 1 .. n /\ \A k \in 1 .. n : t[k] \in Seq(Nat) OBVIOUS
<1>2. \A x \in Seq(Nat) : P(x) \in Seq(Nat) OBVIOUS
<1>3. /\ u \in Seq(Seq(Nat)) /\ Len(u) = n + 1 /\ DOMAIN u = 1 .. n + 1
      /\ u[1] = s /\ \A k \in 2 .. n + 1 : u[k] = t[k - 1]
  OBVIOUS
<1> HIDE DEF P, u
<1>4. Pas(t) = [k \in 1 .. n |-> P(t[k])] BY <1>1 DEF Pas, P
<1>5. Pas(u) = [k \in 1 .. n + 1 |-> P(u[k])] BY <1>3 DEF Pas, P
<1>6. Pas(t) \in Seq(Seq(Nat)) /\ Len(Pas(t)) = n /\ \A k \in 1 .. n : Pas(t)[k] = P(t[k])
  BY <1>1, <1>2, <1>4
<1> DEFINE v == << P(s) >> \o Pas(t)
<1>7. /\ v \in Seq(Seq(Nat)) /\ Len(v) = n + 1
      /\ v[1] = P(s) /\ \A k \in 2 .. n + 1 : v[k] = Pas(t)[k - 1]
  <2>1. P(s) \in Seq(Nat) BY <1>2
  <2>2. << P(s) >> \in Seq(Seq(Nat)) /\ Len(<< P(s) >>) = 1 /\ << P(s) >>[1] = P(s) BY <2>1
  <2> QED BY <1>1, <1>6, <2>2, ConcatProperties
<1>8. \A k \in 1 .. n + 1 : v[k] = P(u[k])
  <2> SUFFICES ASSUME NEW k \in 1 .. n + 1 PROVE v[k] = P(u[k])
    OBVIOUS
  <2>1. CASE k = 1 BY <1>3, <1>7, <2>1
  <2>2. CASE k # 1
    <3>1. k \in 2 .. n + 1 /\ k - 1 \in 1 .. n BY <1>1, <2>2
    <3> QED BY <1>3, <1>6, <1>7, <3>1
  <2> QED BY <2>1, <2>2
<1>9. v = [k \in 1 .. n + 1 |-> P(u[k])]
  <2>1. v = [k \in 1 .. Len(v) |-> v[k]] BY <1>7
  <2> HIDE DEF v
  <2> QED BY <1>7, <1>8, <2>1
<1> QED BY <1>3, <1>5, <1>6, <1>9 DEF u, P

\* The positions of b from i on fall into lines.
WholeFrom(b, i) ==
  \/ i = Len(b) + 1
  \/ \E heads \in SUBSET DOMAIN b :
       i \in heads /\ \A p \in heads : p + b[p] + 1 \in heads \cup {Len(b) + 1}

LEMMA WholeStep ==
  ASSUME NEW b \in Seq(Nat), NEW i \in 1 .. Len(b)
  PROVE  WholeFrom(b, i) <=> i + b[i] <= Len(b) /\ WholeFrom(b, i + b[i] + 1)
<1> DEFINE n == Len(b)
           j == i + b[i] + 1
<1>1. n \in Nat /\ DOMAIN b = 1 .. n /\ b[i] \in Nat /\ i \in 1 .. n OBVIOUS
<1>2. ASSUME WholeFrom(b, i) PROVE i + b[i] <= n /\ WholeFrom(b, j)
  <2>1. PICK heads \in SUBSET DOMAIN b :
          i \in heads /\ \A p \in heads : p + b[p] + 1 \in heads \cup {n + 1}
    BY <1>1, <1>2 DEF WholeFrom
  <2>2. j \in heads \/ j = n + 1 BY <2>1
  <2>3. j \in 1 .. n + 1 BY <1>1, <2>1, <2>2
  <2>4. i + b[i] <= n BY <1>1, <2>3
  <2>5. WholeFrom(b, j)
    <3> HIDE DEF j
    <3> QED BY <2>1, <2>2 DEF WholeFrom
  <2> QED BY <2>4, <2>5
<1>3. ASSUME i + b[i] <= n, WholeFrom(b, j) PROVE WholeFrom(b, i)
  <2>1. CASE j = n + 1
    <3>1. {i} \in SUBSET DOMAIN b BY <1>1
    <3>2. i \in {i} /\ \A p \in {i} : p + b[p] + 1 \in {i} \cup {n + 1} BY <2>1
    <3> QED BY <3>1, <3>2 DEF WholeFrom
  <2>2. CASE j # n + 1
    <3>1. PICK heads \in SUBSET DOMAIN b :
            j \in heads /\ \A p \in heads : p + b[p] + 1 \in heads \cup {n + 1}
      BY <1>3, <2>2 DEF WholeFrom
    <3>2. {i} \cup heads \in SUBSET DOMAIN b BY <1>1, <3>1
    <3>3. \A p \in {i} \cup heads : p + b[p] + 1 \in ({i} \cup heads) \cup {n + 1} BY <3>1
    <3> QED BY <3>2, <3>3 DEF WholeFrom
  <2> QED BY <2>1, <2>2
<1> QED BY <1>2, <1>3

\* A list is read to its end exactly if it falls into lines, and the lines are all of it.
LEMMA ListIs ==
  ASSUME NEW b \in Seq(Nat)
  PROVE  /\ PStrList(b).ok <=> WholeFrom(b, 1)
         /\ PStrList(b).ok => b = FlattenSeq(Pas(PStrList(b).lines))
<1> DEFINE n == Len(b) + 1
           f == Lists(b)
           Good(i) ==
             /\ f[i] \in [lines : Seq(Seq(Nat)), ok : BOOLEAN]
             /\ f[i].ok <=> WholeFrom(b, i)
             /\ FlattenSeq(Pas(f[i].lines)) \in Seq(Nat)
             /\ f[i].ok => FlattenSeq(Pas(f[i].lines)) = SubSeq(b, i, Len(b))
           S == {i \in 1 .. n : Good(i)}
<1>1. n \in Nat /\ 1 \in 1 .. n /\ \A i \in 1 .. Len(b) : b[i] \in Nat OBVIOUS
<1>2. \A i \in 1 .. n : f[i] = ListAt(f, b, i) BY ListExists
<1> HIDE DEF f
<1>3. Pas(<< >>) = << >> /\ FlattenSeq(<< >>) = << >> BY DEF Pas, FlattenSeq
<1>4. ASSUME NEW i \in 1 .. n, \A k \in i + 1 .. n : k \in S PROVE Good(i)
  <2>1. CASE i > Len(b)
    <3>1. i = n BY <1>1, <2>1
    <3>2. f[i] = [lines |-> << >>, ok |-> TRUE] BY <1>2, <2>1 DEF ListAt
    <3>3. SubSeq(b, i, Len(b)) = << >> BY <3>1
    <3>4. WholeFrom(b, i) BY <3>1 DEF WholeFrom
    <3>5. f[i].lines = << >> /\ f[i].ok = TRUE /\ f[i] \in [lines : Seq(Seq(Nat)), ok : BOOLEAN]
      BY <3>2
    <3>6. << >> \in Seq(Nat) OBVIOUS
    <3> HIDE DEF S
    <3> QED BY <1>3, <3>3, <3>4, <3>5, <3>6
  <2>2. CASE ~(i > Len(b)) /\ i + b[i] > Len(b)
    <3>1. i \in 1 .. Len(b) /\ b[i] \in Nat /\ Len(b) \in Nat BY <1>1, <2>2
    <3>2. f[i] = [lines |-> << >>, ok |-> FALSE] BY <1>2, <2>2 DEF ListAt
    <3>3. ~(i + b[i] <= Len(b)) BY <2>2, <3>1
    <3>4. ~WholeFrom(b, i) BY <3>1, <3>3, WholeStep
    <3>5. f[i].lines = << >> /\ f[i].ok = FALSE /\ f[i] \in [lines : Seq(Seq(Nat)), ok : BOOLEAN]
      BY <3>2
    <3>6. << >> \in Seq(Nat) OBVIOUS
    <3> HIDE DEF S
    <3> QED BY <1>3, <3>4, <3>5, <3>6
  <2>3. CASE ~(i > Len(b)) /\ ~(i + b[i] > Len(b))
    <3> DEFINE j == i + b[i] + 1
               l == b[i]
               s == SubSeq(b, i + 1, i + b[i])
               r == f[j]
               w == Pas(r.lines)
    <3>1. i \in 1 .. Len(b) /\ l \in Nat /\ Len(b) \in Nat /\ i + l <= Len(b)
      BY <1>1, <2>3
    <3>2. j \in i + 1 .. n BY <3>1
    <3>3. Good(j)
      <4> HIDE DEF Good, j
      <4> QED BY <1>4, <3>2
    <3>4. s \in Seq(Nat) /\ Len(s) = l
      BY <3>1
    <3>5. f[i] = [r EXCEPT !.lines = << s >> \o @] BY <1>2, <2>3 DEF ListAt
    <3>6. /\ r.lines \in Seq(Seq(Nat)) /\ r.ok \in BOOLEAN
          /\ f[i].lines = << s >> \o r.lines /\ f[i].ok = r.ok
          /\ DOMAIN f[i] = {"lines", "ok"}
          /\ f[i] = [lines |-> << s >> \o r.lines, ok |-> r.ok]
      <4> HIDE DEF j, s
      <4> QED BY <3>3, <3>5
    <3> HIDE DEF s
    <3>7. /\ w \in Seq(Seq(Nat)) /\ << s >> \o r.lines \in Seq(Seq(Nat))
          /\ Pas(f[i].lines) = << << l >> \o s >> \o w
      BY <3>4, <3>6, PasCons
    <3>8. << l >> \o s \in Seq(Nat) BY <3>1, <3>4
    <3>9. FlattenSeq(w) \in Seq(Nat) BY <3>3
    <3>10. /\ FlattenSeq(Pas(f[i].lines)) = (<< l >> \o s) \o FlattenSeq(w)
           /\ FlattenSeq(Pas(f[i].lines)) \in Seq(Nat)
      <4> HIDE DEF w, j, l
      <4> QED BY <3>7, <3>8, <3>9, FlattenCons
    <3>11. f[i].ok <=> WholeFrom(b, i) BY <3>1, <3>3, <3>6, WholeStep
    <3>12. f[i].ok => FlattenSeq(Pas(f[i].lines)) = SubSeq(b, i, Len(b))
      <4> SUFFICES ASSUME f[i].ok PROVE FlattenSeq(Pas(f[i].lines)) = SubSeq(b, i, Len(b))
        OBVIOUS
      <4>1. FlattenSeq(w) = SubSeq(b, j, Len(b)) BY <3>3, <3>6
      <4>2. << l >> \o s = SubSeq(b, i, i + l)
        <5>1. << l >> = SubSeq(b, i, i) BY <3>1
        <5>2. i \in 1 .. Len(b) + 1 /\ i \in i - 1 .. Len(b) /\ i + l \in i .. Len(b) BY <3>1
        <5>3. SubSeq(b, i, i) \o SubSeq(b, i + 1, i + l) = SubSeq(b, i, i + l)
          <6> HIDE DEF l
          <6> QED BY <5>2, ConcatAdjacentSubSeq
        <5> QED BY <5>1, <5>3 DEF s
      <4>3. SubSeq(b, i, i + l) \o SubSeq(b, i + l + 1, Len(b)) = SubSeq(b, i, Len(b))
        <5>1. i \in 1 .. Len(b) + 1 /\ i + l \in i - 1 .. Len(b) /\ Len(b) \in i + l .. Len(b)
          BY <3>1
        <5> HIDE DEF l
        <5> QED BY <5>1, ConcatAdjacentSubSeq
      <4> QED BY <3>10, <4>1, <4>2, <4>3
    <3> QED BY <3>6, <3>7, <3>10, <3>11, <3>12
  <2> QED BY <2>1, <2>2, <2>3
<1>5. Good(1)
  <2> HIDE DEF Good
  <2>1. \A i \in 1 .. n : (\A k \in i + 1 .. n : k \in S) => i \in S BY <1>4
  <2> HIDE DEF S, n
  <2>2. 1 \in S BY <1>1, <2>1, FromTop
  <2> QED BY <2>2 DEF S
<1>6. PStrList(b) = f[1] BY DEF PStrList, Lists, ListAt, f
<1>7. SubSeq(b, 1, Len(b)) = b OBVIOUS
<1> QED BY <1>5, <1>6, <1>7

\* What is said of entry i by the scopes around it.
LEMMA ContextIs ==
  ASSUME HeapInv, NestInv, NEW i \in 1 .. Len(flat)
  PROVE  /\ ParentTopClass(up[i]) =
              IF ClassedNear(i) = {} THEN DefaultClass ELSE flat[Max(ClassedNear(i))].class
         /\ NearestTextOwner(up[i]) =
              IF OwnersNear(i) = {} THEN None ELSE flat[Max(OwnersNear(i))].class
         /\ NearestPartRole(up[i]) =
              IF PartsNear(i) = {} THEN PartIDNone ELSE PartID(Min(RolesIn(Max(PartsNear(i)))))
<1> DEFINE n == Len(flat)
           near == ScopesNear(i)
<1>1. n \in Nat /\ Indices = 1 .. n /\ up[i] \in 0 .. i - 1 /\ up[i] \in 0 .. n
  <2>1. n \in Nat /\ Indices = 1 .. n /\ up[i] \in 0 .. i - 1 BY TreeType
  <2> QED BY <2>1
<1>2. near = Nearby(MaxClimb, up[i]) BY AroundIs DEF ScopesNear, Nearby
<1>3. near \subseteq 1 .. n
  <2>1. Above0(up[i]) \subseteq 1 .. up[i] BY <1>1, AboveType
  <2> QED BY <1>1, <1>2, <2>1 DEF Nearby
<1>4. ASSUME NEW S, NEW X, S \cap near = X
      PROVE  /\ X = {} => Nearest(up[i], S) = 0
             /\ X # {} => /\ Nearest(up[i], S) = Max(X) /\ Nearest(up[i], S) # 0
                          /\ Max(X) \in X
  <2>1. Nearest(up[i], S) = Last0(X) BY <1>1, <1>2, <1>4, NearestIs
  <2>2. X # {} => Max(X) \in X
    <3>1. X \in SUBSET (0 .. n) BY <1>3, <1>4
    <3> QED BY <1>1, <3>1, MaxExists
  <2>3. 0 \notin X BY <1>3, <1>4
  <2> QED BY <2>1, <2>2, <2>3 DEF Last0
<1>5. ParentTopClass(up[i]) =
        IF ClassedNear(i) = {} THEN DefaultClass ELSE flat[Max(ClassedNear(i))].class
  <2> DEFINE S == {k \in Indices : flat[k].class # None}
  <2>1. S \cap near = ClassedNear(i) BY <1>1, <1>3 DEF ClassedNear
  <2>2. ParentTopClass(up[i]) = IF Nearest(up[i], S) = 0 THEN DefaultClass
                                ELSE flat[Nearest(up[i], S)].class
    BY DEF ParentTopClass
  <2> HIDE DEF S
  <2> QED BY <1>4, <2>1, <2>2
<1>6. NearestTextOwner(up[i]) =
        IF OwnersNear(i) = {} THEN None ELSE flat[Max(OwnersNear(i))].class
  <2> DEFINE S == {k \in Indices : flat[k].class \notin TextWrappers \cup {None}}
  <2>1. S \cap near = OwnersNear(i) BY <1>1, <1>3 DEF OwnersNear, ClassedNear
  <2>2. NearestTextOwner(up[i]) = IF Nearest(up[i], S) = 0 THEN None
                                  ELSE flat[Nearest(up[i], S)].class
    BY DEF NearestTextOwner
  <2> HIDE DEF S
  <2> QED BY <1>4, <2>1, <2>2
<1>7. ASSUME NEW j \in 1 .. n PROVE PartFields(j) = RolesIn(j)
  <2>1. ToSet(down[j]) = {k \in 1 .. n : up[k] = j} BY KidsAre
  <2>2. \A k \in 1 .. n : ScopeAround(k) = up[k] BY ScopeIs
  <2>3. \A k \in 1 .. n : flat[k].tag = "partId" =>
          (ScalarContent(flat[k].data) # {} <=> Len(flat[k].data) <= MaxWord)
    <3> SUFFICES ASSUME NEW k \in 1 .. n
                 PROVE  ScalarContent(flat[k].data) # {} <=> Len(flat[k].data) <= MaxWord
      OBVIOUS
    <3>1. flat[k] \in Entries BY DEF HeapInv
    <3>2. Len(flat[k].data) \in Nat BY <3>1, DataAssumption
    <3> DEFINE d == flat[k].data
               u == BigEndian(d)
               c == [width |-> Len(d), unsigned |-> u,
                     signed |-> IF d = << >> THEN 0 ELSE SignExtend(u, Len(d))]
    <3>3. ScalarContent(d) = IF Len(d) > MaxWord THEN {} ELSE {c} BY Zenon DEF ScalarContent
    <3> HIDE DEF c
    <3> QED BY <3>2, <3>3 DEF MaxWord
  <2> QED BY <1>1, <2>1, <2>2, <2>3 DEF PartFields, RolesIn
<1>8. NearestPartRole(up[i]) =
        IF PartsNear(i) = {} THEN PartIDNone ELSE PartID(Min(RolesIn(Max(PartsNear(i)))))
  <2> DEFINE S == {k \in Indices : PartFields(k) # {}}
             j == Nearest(up[i], S)
  <2>1. S \cap near = PartsNear(i) BY <1>1, <1>3, <1>7 DEF PartsNear
  <2>2. NearestPartRole(up[i]) = IF j = 0 THEN PartIDNone ELSE PartID(First(PartFields(j)))
    BY DEF NearestPartRole
  <2> HIDE DEF S, j
  <2>3. CASE PartsNear(i) = {}
    <3>1. j = 0 BY <1>4, <2>1, <2>3 DEF j
    <3> QED BY <2>2, <2>3, <3>1
  <2>4. CASE PartsNear(i) # {}
    <3>1. j = Max(PartsNear(i)) /\ j # 0 /\ j \in PartsNear(i) BY <1>4, <2>1, <2>4 DEF j
    <3>2. j \in 1 .. n BY <1>3, <3>1 DEF PartsNear
    <3>3. First(PartFields(j)) = Min(RolesIn(j)) BY <1>7, <3>2, MinIsFirst
    <3> QED BY <2>2, <2>4, <3>1, <3>3
  <2> QED BY <2>3, <2>4
<1> QED BY <1>5, <1>6, <1>8

LEMMA TextsKept == HeapInv /\ NestInv => TextsKeepContext
<1> DEFINE Class(i) == IF ClassedNear(i) = {} THEN DefaultClass ELSE flat[Max(ClassedNear(i))].class
           Owner(i) == IF OwnersNear(i) = {} THEN None ELSE flat[Max(OwnersNear(i))].class
           Part(i) == IF PartsNear(i) = {} THEN PartIDNone
                      ELSE PartID(Min(RolesIn(Max(PartsNear(i)))))
<1> SUFFICES ASSUME HeapInv, NestInv, NEW i \in Indices
             PROVE  /\ TextsAt(i) # {} <=>
                         \/ flat[i].tag = "nodeName"
                         \/ flat[i].tag = "text" /\ Class(i) \in {TextHair, FontRun}
                         \/ flat[i].tag = "buf" /\ Class(i) = MultiLabel /\ IsWhole(flat[i].data)
                    /\ \A t \in TextsAt(i) :
                         /\ t.owner = Owner(i)
                         /\ t.role = Part(i)
                         /\ flat[i].data = IF t.kind = "string" THEN t.lines[1] ELSE Flattened(t.lines)
  BY DEF TextsKeepContext
<1> DEFINE b == flat[i].data
           A == HeapText(i, "string", << b >>)
           L == HeapText(i, "label-list", PStrList(b).lines)
<1>1. i \in 1 .. Len(flat) BY TreeType
<1>2. /\ ParentTopClass(up[i]) = Class(i) /\ NearestTextOwner(up[i]) = Owner(i)
      /\ NearestPartRole(up[i]) = Part(i)
  BY <1>1, ContextIs
<1>3. b \in Seq(Nat)
  <2>1. flat[i] \in Entries BY <1>1 DEF HeapInv
  <2> QED BY <2>1, DataAssumption
<1> HIDE DEF Class, Owner, Part
<1>4. \A t : t \in TextsAt(i) <=> \/ IsHeapString(i) /\ t = A
                                  \/ IsLabelList(i) /\ PStrList(b).ok /\ t = L
  <2>1. \A k, kind, lines : HeapText(k, kind, lines).node = k BY DEF HeapText
  <2>2. \A t : t \in HeapTexts <=>
          \/ \E k \in Indices : IsHeapString(k) /\ t = HeapText(k, "string", << flat[k].data >>)
          \/ \E k \in Indices : /\ IsLabelList(k) /\ PStrList(flat[k].data).ok
                                /\ t = HeapText(k, "label-list", PStrList(flat[k].data).lines)
    BY DEF HeapTexts
  <2> SUFFICES ASSUME NEW t
               PROVE  t \in TextsAt(i) <=> \/ IsHeapString(i) /\ t = A
                                           \/ IsLabelList(i) /\ PStrList(b).ok /\ t = L
    OBVIOUS
  <2>3. t \in TextsAt(i) <=> t \in HeapTexts /\ t.node = i BY DEF TextsAt
  <2>4. ASSUME t \in HeapTexts, t.node = i
        PROVE  \/ IsHeapString(i) /\ t = A
               \/ IsLabelList(i) /\ PStrList(b).ok /\ t = L
    <3>1. CASE \E k \in Indices : IsHeapString(k) /\ t = HeapText(k, "string", << flat[k].data >>)
      <4>1. PICK k \in Indices : IsHeapString(k) /\ t = HeapText(k, "string", << flat[k].data >>)
        BY <3>1
      <4>2. k = i BY <2>1, <2>4, <4>1
      <4> QED BY <4>1, <4>2
    <3>2. CASE \E k \in Indices : /\ IsLabelList(k) /\ PStrList(flat[k].data).ok
                                  /\ t = HeapText(k, "label-list", PStrList(flat[k].data).lines)
      <4>1. PICK k \in Indices : /\ IsLabelList(k) /\ PStrList(flat[k].data).ok
                                 /\ t = HeapText(k, "label-list", PStrList(flat[k].data).lines)
        BY <3>2
      <4>2. k = i BY <2>1, <2>4, <4>1
      <4> QED BY <4>1, <4>2
    <3> QED BY <2>2, <2>4, <3>1, <3>2
  <2>5. A.node = i /\ L.node = i BY <2>1
  <2>6. IsHeapString(i) => A \in HeapTexts BY <2>2
  <2>7. IsLabelList(i) /\ PStrList(b).ok => L \in HeapTexts BY <2>2
  <2> HIDE DEF A, L
  <2> QED BY <2>3, <2>4, <2>5, <2>6, <2>7
<1>5. /\ A.owner = Owner(i) /\ A.role = Part(i) /\ A.kind = "string" /\ A.lines = << b >>
      /\ L.owner = Owner(i) /\ L.role = Part(i) /\ L.kind = "label-list"
      /\ L.lines = PStrList(b).lines
  BY <1>2 DEF HeapText
<1>6. IsHeapString(i) <=> \/ flat[i].tag = "nodeName"
                          \/ flat[i].tag = "text" /\ Class(i) \in {TextHair, FontRun}
  BY <1>2 DEF IsHeapString, ResolveTagName, TextClasses
<1>7. IsLabelList(i) <=> flat[i].tag = "buf" /\ Class(i) = MultiLabel BY <1>2 DEF IsLabelList
<1>8. PStrList(b).ok <=> IsWhole(b)
  <2>1. WholeFrom(b, 1) <=> IsWhole(b)
    <3>1. 1 = Len(b) + 1 <=> b = << >> BY <1>3
    <3> QED BY <3>1 DEF WholeFrom, IsWhole
  <2> QED BY <1>3, <2>1, ListIs
<1>9. PStrList(b).ok => b = Flattened(PStrList(b).lines) BY <1>3, ListIs DEF Flattened, Pas
<1> HIDE DEF A, L, b
<1>10. TextsAt(i) # {} <=> \/ flat[i].tag = "nodeName"
                           \/ flat[i].tag = "text" /\ Class(i) \in {TextHair, FontRun}
                           \/ flat[i].tag = "buf" /\ Class(i) = MultiLabel /\ IsWhole(b)
  <2>1. TextsAt(i) # {} <=> IsHeapString(i) \/ (IsLabelList(i) /\ PStrList(b).ok) BY <1>4
  <2> QED BY <1>6, <1>7, <1>8, <2>1
<1>11. ASSUME NEW t \in TextsAt(i)
       PROVE  /\ t.owner = Owner(i) /\ t.role = Part(i)
              /\ b = IF t.kind = "string" THEN t.lines[1] ELSE Flattened(t.lines)
  <2>1. CASE t = A
    <3>1. << b >>[1] = b OBVIOUS
    <3> QED BY <1>5, <2>1, <3>1
  <2>2. CASE IsLabelList(i) /\ PStrList(b).ok /\ t = L BY <1>5, <1>9, <2>2
  <2> QED BY <1>4, <2>1, <2>2
<1> QED BY <1>10, <1>11 DEF b

\* Every text is listed with its own lines, and with the class, owner and role that
\* the scopes around it give it, however they are nested and wherever in them the
\* role stands (text.go:66).
THEOREM TextsAlwaysKeepContext == Spec => []TextsKeepContext
<1>1. Init => NestInv BY EmptyNests DEF Init
<1> QED BY <1>1, TextsKept, InitIsInv, StepKeepsInv, StepNests, PTL DEF Spec

=============================================================================
