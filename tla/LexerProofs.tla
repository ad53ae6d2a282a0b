---------------------------- MODULE LexerProofs -----------------------------
(***************************************************************************)
(* Proofs about Lexer, for every alphabet, whatever its letters, digits,   *)
(* spaces and keywords are, and every text: each step takes a piece of the *)
(* text that lies before its end, and the tokens are the text that has     *)
(* been passed, without its spaces (TokensAreTheText).                     *)
(*                                                                         *)
(* Both sides of TokensAreTheText are folds.  A step appends a piece to    *)
(* the text that has been passed; the fold of the one without spaces goes  *)
(* on with it as with one item, since the rules for tokens match no space  *)
(* and the one for spaces matches nothing else.                            *)
(***************************************************************************)
EXTENDS Lexer, SequenceTheorems, WellFoundedInduction, TLAPS

-----------------------------------------------------------------------------
(* Folds.  A fold is a recursive function on the sets of positions, which  *)
(* is shown to exist, and to have the values that a function on positions  *)
(* has which goes on from each to the next.                                *)

(* Every set of numbers with 0, and with what follows its members up to n. *)
LEMMA UpTo ==
  ASSUME NEW n \in Nat, NEW S, 0 \in S, \A i \in 0 .. n - 1 : i \in S => i + 1 \in S
  PROVE  \A i \in 0 .. n : i \in S
<1>. DEFINE T == {i \in 0 .. n : i \notin S}
<1>. SUFFICES ASSUME T # {} PROVE FALSE
  OBVIOUS
<1>1. IsWellFoundedOn(OpToRel(<, Nat), Nat)
  BY NatLessThanWellFounded
<1>2. T \subseteq Nat
  OBVIOUS
<1>3. PICK x \in T : \A y \in T : ~ (<<y, x>> \in OpToRel(<, Nat))
  <2>. HIDE DEF OpToRel, T
  <2>. QED  BY <1>1, <1>2, WFMin
<1>4. \A y \in T : ~ (y < x)
  BY <1>2, <1>3 DEF OpToRel
<1>5. x # 0 /\ x - 1 \in 0 .. n - 1 /\ x - 1 \notin T
  BY <1>4
<1>. QED  BY <1>5

(* The greatest of the positions up to n.                                  *)
LEMMA MaxUpTo ==
  ASSUME NEW n \in Nat, NEW s \in SUBSET (1 .. n), n \in s
  PROVE  Max(s) = n
<1>1. \A y \in s : n >= y
  OBVIOUS
<1>2. \A x \in s : (\A y \in s : x >= y) => x = n
  OBVIOUS
<1>. QED  BY <1>1, <1>2 DEF Max

\* The folds of the model, by kind, all of which start with nothing: how they
\* go on with an item.
Step(kind, y, item) ==
  CASE kind = "joined" -> y \o item.text
    [] kind = "dense"  -> IF item \in Spaces \cup {NUL} THEN y ELSE Append(y, item)

Start == <<>>

\* The recursive function of a fold over the first n items.
Folds(f, n, items, kind) ==
  f = [s \in SUBSET (1 .. n) |->
         IF s = {} THEN Start ELSE Step(kind, f[s \ {Max(s)}], items[Max(s)])]

Folded(items, n, kind) == (CHOOSE f : Folds(f, n, items, kind))[1 .. n]

LEMMA FoldsExist ==
  ASSUME NEW items, NEW kind, NEW n \in Nat
  PROVE  \E f : Folds(f, n, items, kind)
<1>. DEFINE S == {i \in 0 .. n : \E f : Folds(f, i, items, kind)}
<1>1. 0 \in S
  <2>. DEFINE f == [s \in SUBSET (1 .. 0) |-> Start]
  <2>1. 1 .. 0 = {}
    OBVIOUS
  <2>2. Folds(f, 0, items, kind)
    BY <2>1 DEF Folds
  <2>. QED  BY <2>2
<1>2. ASSUME NEW i \in 0 .. n - 1, i \in S PROVE i + 1 \in S
  <2>1. PICK f : Folds(f, i, items, kind)
    BY <1>2
  <2>. DEFINE h == [s \in SUBSET (1 .. i + 1) |->
                      IF i + 1 \in s THEN Step(kind, f[s \ {i + 1}], items[i + 1]) ELSE f[s]]
  <2>2. ASSUME NEW s \in SUBSET (1 .. i + 1), s # {}
        PROVE  h[s] = Step(kind, h[s \ {Max(s)}], items[Max(s)])
    <3>1. CASE i + 1 \in s
      <4>1. Max(s) = i + 1
        BY <3>1, MaxUpTo
      <4>2. s \ {i + 1} \in SUBSET (1 .. i + 1) /\ i + 1 \notin s \ {i + 1}
        OBVIOUS
      <4>3. h[s \ {i + 1}] = f[s \ {i + 1}]
        BY <4>2
      <4>4. h[s] = Step(kind, f[s \ {i + 1}], items[i + 1])
        BY <3>1
      <4>. HIDE DEF h
      <4>. QED  BY <4>1, <4>3, <4>4
    <3>2. CASE i + 1 \notin s
      <4>1. s \in SUBSET (1 .. i)
        BY <3>2
      <4>2. f[s] = Step(kind, f[s \ {Max(s)}], items[Max(s)])
        BY <2>1, <2>2, <4>1 DEF Folds
      <4>3. s \ {Max(s)} \in SUBSET (1 .. i + 1) /\ i + 1 \notin s \ {Max(s)}
        BY <3>2
      <4>4. h[s \ {Max(s)}] = f[s \ {Max(s)}] /\ h[s] = f[s]
        BY <3>2, <4>3
      <4>. HIDE DEF h
      <4>. QED  BY <4>2, <4>4
    <3>. QED  BY <3>1, <3>2
  <2>3. h[{}] = Start
    BY <2>1 DEF Folds
  <2>4. Folds(h, i + 1, items, kind)
    <3>. DEFINE e == [s \in SUBSET (1 .. i + 1) |->
           IF s = {} THEN Start ELSE Step(kind, h[s \ {Max(s)}], items[Max(s)])]
    <3>1. \A s \in SUBSET (1 .. i + 1) : h[s] = e[s]
      <4>. SUFFICES ASSUME NEW s \in SUBSET (1 .. i + 1) PROVE h[s] = e[s]
        OBVIOUS
      <4>1. e[s] = IF s = {} THEN Start ELSE Step(kind, h[s \ {Max(s)}], items[Max(s)])
        OBVIOUS
      <4>. HIDE DEF h, e
      <4>. QED  BY <2>2, <2>3, <4>1
    <3>2. h = e
      BY <3>1
    <3>. QED  BY <3>2 DEF Folds
  <2>. QED  BY <2>4
<1>. HIDE DEF S
<1>3. n \in S
  BY <1>1, <1>2, UpTo
<1>. QED  BY <1>3 DEF S

(* A fold goes on from each item to the next.                              *)
LEMMA FoldValues ==
  ASSUME NEW items, NEW kind, NEW n \in Nat
  PROVE  \E g : /\ g[0] = Start
                /\ \A i \in 1 .. n : g[i] = Step(kind, g[i - 1], items[i])
                /\ g[n] = Folded(items, n, kind)
<1>. DEFINE f == CHOOSE h : Folds(h, n, items, kind)
            g == [i \in 0 .. n |-> f[1 .. i]]
<1>1. Folds(f, n, items, kind)
  BY FoldsExist
<1>2. g[0] = Start
  <2>1. 1 .. 0 = {} /\ {} \in SUBSET (1 .. n)
    OBVIOUS
  <2>2. g[0] = f[{}]
    BY <2>1
  <2>. HIDE DEF f, g
  <2>. QED  BY <1>1, <2>1, <2>2 DEF Folds
<1>3. ASSUME NEW i \in 1 .. n PROVE g[i] = Step(kind, g[i - 1], items[i])
  <2>. DEFINE s == 1 .. i
  <2>1. s \in SUBSET (1 .. n) /\ s # {} /\ i \in s /\ s \ {i} = 1 .. i - 1 /\ s \in SUBSET (1 .. i)
    OBVIOUS
  <2>2. Max(s) = i
    <3>. HIDE DEF s
    <3>. QED  BY <2>1, MaxUpTo
  <2>3. g[i] = f[s] /\ g[i - 1] = f[1 .. i - 1]
    OBVIOUS
  <2>4. f[s] = Step(kind, f[s \ {Max(s)}], items[Max(s)])
    <3>. HIDE DEF f, s
    <3>. QED  BY <1>1, <2>1 DEF Folds
  <2>. HIDE DEF f, g, s
  <2>. QED  BY <2>1, <2>2, <2>3, <2>4
<1>4. g[n] = Folded(items, n, kind)
  BY DEF Folded
<1>. HIDE DEF g
<1>. QED  BY <1>2, <1>3, <1>4

(* Folds over items that they treat alike.                                 *)
LEMMA SameFold ==
  ASSUME NEW a, NEW b, NEW j, NEW k, NEW n \in Nat,
         \A i \in 1 .. n : \A y : Step(j, y, a[i]) = Step(k, y, b[i])
  PROVE  Folded(a, n, j) = Folded(b, n, k)
<1>1. PICK g : /\ g[0] = Start
               /\ \A i \in 1 .. n : g[i] = Step(j, g[i - 1], a[i])
               /\ g[n] = Folded(a, n, j)
  BY FoldValues
<1>2. PICK h : /\ h[0] = Start
               /\ \A i \in 1 .. n : h[i] = Step(k, h[i - 1], b[i])
               /\ h[n] = Folded(b, n, k)
  BY FoldValues
<1>. DEFINE S == {i \in 0 .. n : g[i] = h[i]}
<1>3. 0 \in S
  BY <1>1, <1>2
<1>4. ASSUME NEW i \in 0 .. n - 1, i \in S PROVE i + 1 \in S
  <2>1. i + 1 \in 1 .. n /\ (i + 1) - 1 = i /\ g[i] = h[i]
    BY <1>4
  <2>2. g[i + 1] = Step(j, g[i], a[i + 1]) /\ h[i + 1] = Step(k, h[i], b[i + 1])
    BY <1>1, <1>2, <2>1
  <2>. QED  BY <2>1, <2>2
<1>. HIDE DEF S
<1>5. n \in S
  BY <1>3, <1>4, UpTo
<1>. QED  BY <1>1, <1>2, <1>5 DEF S

(* A fold over no items, and over one more.                                *)
LEMMA FoldEmpty ==
  ASSUME NEW items, NEW kind
  PROVE  Folded(items, 0, kind) = Start
  BY FoldValues

LEMMA FoldNext ==
  ASSUME NEW items, NEW kind, NEW n \in Nat
  PROVE  Folded(items, n + 1, kind) = Step(kind, Folded(items, n, kind), items[n + 1])
<1>1. PICK g : /\ g[0] = Start
               /\ \A i \in 1 .. n + 1 : g[i] = Step(kind, g[i - 1], items[i])
               /\ g[n + 1] = Folded(items, n + 1, kind)
  BY FoldValues
<1>2. PICK h : /\ h[0] = Start
               /\ \A i \in 1 .. n : h[i] = Step(kind, h[i - 1], items[i])
               /\ h[n] = Folded(items, n, kind)
  BY FoldValues
<1>. DEFINE S == {i \in 0 .. n : g[i] = h[i]}
<1>3. 0 \in S
  BY <1>1, <1>2
<1>4. ASSUME NEW i \in 0 .. n - 1, i \in S PROVE i + 1 \in S
  <2>1. i + 1 \in 1 .. n /\ i + 1 \in 1 .. n + 1 /\ (i + 1) - 1 = i /\ g[i] = h[i]
    BY <1>4
  <2>2. g[i + 1] = Step(kind, g[i], items[i + 1]) /\ h[i + 1] = Step(kind, h[i], items[i + 1])
    BY <1>1, <1>2, <2>1
  <2>. QED  BY <2>1, <2>2
<1>. HIDE DEF S
<1>5. n \in S
  BY <1>3, <1>4, UpTo
<1>6. g[n + 1] = Step(kind, g[n], items[n + 1])
  <2>1. n + 1 \in 1 .. n + 1 /\ (n + 1) - 1 = n
    OBVIOUS
  <2>. QED  BY <1>1, <2>1
<1>. QED  BY <1>1, <1>2, <1>5, <1>6 DEF S

(* The folds of the model.                                                 *)
LEMMA JoinedIsFolded ==
  ASSUME NEW S, NEW ts \in Seq(S)
  PROVE  Joined(ts) = Folded(ts, Len(ts), "joined")
<1>1. DOMAIN ts = 1 .. Len(ts)
  OBVIOUS
<1>. QED  BY <1>1 DEF Joined, FoldLeft, MapThenFoldSet, Folded, Folds, Step, Start

LEMMA DenseIsFolded ==
  ASSUME NEW S, NEW s \in Seq(S)
  PROVE  Dense(s) = Folded(s, Len(s), "dense")
<1>1. DOMAIN s = 1 .. Len(s)
  OBVIOUS
<1>. QED  BY <1>1 DEF Dense, FoldLeft, MapThenFoldSet, Folded, Folds, Step, Start

(* The text of one more token.                                             *)
LEMMA JoinedMore ==
  ASSUME NEW S, NEW ts \in Seq(S), NEW t \in S
  PROVE  Joined(Append(ts, t)) = Joined(ts) \o t.text
<1>. DEFINE more == Append(ts, t)
            n == Len(ts)
<1>1. more \in Seq(S) /\ Len(more) = n + 1 /\ n \in Nat /\ more[n + 1] = t
      /\ \A i \in 1 .. n : more[i] = ts[i]
  OBVIOUS
<1>. HIDE DEF more, n
<1>2. Folded(more, n, "joined") = Folded(ts, n, "joined")
  <2>1. \A i \in 1 .. n : \A y : Step("joined", y, more[i]) = Step("joined", y, ts[i])
    BY <1>1
  <2>. QED  BY <1>1, <2>1, SameFold
<1>3. Folded(more, n + 1, "joined") = Step("joined", Folded(more, n, "joined"), more[n + 1])
  BY <1>1, FoldNext
<1>4. Folded(more, n + 1, "joined") = Folded(ts, n, "joined") \o t.text
  BY <1>1, <1>2, <1>3 DEF Step
<1>5. Joined(ts) = Folded(ts, n, "joined") /\ Joined(more) = Folded(more, n + 1, "joined")
  BY <1>1, JoinedIsFolded DEF n
<1>. QED  BY <1>4, <1>5 DEF more

(* One more item of the second of two sequences.                           *)
LEMMA OneMore ==
  ASSUME NEW S, NEW d \in Seq(S), NEW p \in Seq(S), NEW i \in 0 .. Len(p) - 1
  PROVE  Append(d \o SubSeq(p, 1, i), p[i + 1]) = d \o SubSeq(p, 1, i + 1)
<1>. DEFINE q == SubSeq(p, 1, i)
            r == SubSeq(p, 1, i + 1)
            a == Append(d \o q, p[i + 1])
            b == d \o r
<1>1. /\ q \in Seq(S) /\ Len(q) = i /\ \A k \in 1 .. i : q[k] = p[k]
      /\ r \in Seq(S) /\ Len(r) = i + 1 /\ \A k \in 1 .. i + 1 : r[k] = p[k]
      /\ p[i + 1] \in S
  OBVIOUS
<1>0. Len(d) \in Nat /\ i \in Nat
  OBVIOUS
<1>. HIDE DEF q, r
<1>2. /\ a \in Seq(S) /\ Len(a) = Len(d) + i + 1
      /\ \A k \in 1 .. Len(d) + i : a[k] = (d \o q)[k]
      /\ a[Len(d) + i + 1] = p[i + 1]
  <2>. DEFINE x == d \o q
              y == p[i + 1]
  <2>0. y \in S
    BY <1>1
  <2>1. x \in Seq(S) /\ Len(x) = Len(d) + i
    <3>1. q \in Seq(S) /\ Len(q) = i
      BY <1>1
    <3>. QED  BY <3>1
  <2>. HIDE DEF x, y
  <2>2. LET z == Append(x, y) IN
          z \in Seq(S) /\ Len(z) = Len(x) + 1 /\ z[Len(x) + 1] = y /\ \A k \in 1 .. Len(x) : z[k] = x[k]
    BY <2>0, <2>1
  <2>. QED  BY <2>1, <2>2 DEF x, y
<1>3. b \in Seq(S) /\ Len(b) = Len(d) + i + 1
  BY <1>1
<1>4. ASSUME NEW k \in 1 .. Len(d) + i + 1 PROVE a[k] = b[k]
  <2>1. CASE k <= Len(d)
    BY <1>1, <1>2, <2>1
  <2>2. CASE k > Len(d) /\ k <= Len(d) + i
    <3>1. (d \o q)[k] = q[k - Len(d)] /\ b[k] = r[k - Len(d)] /\ k - Len(d) \in 1 .. i
      BY <1>1, <2>2
    <3>. HIDE DEF a, b
    <3>. QED  BY <1>1, <1>2, <2>2, <3>1
  <2>3. CASE k = Len(d) + i + 1
    <3>1. b[k] = r[i + 1]
      BY <1>1, <2>3
    <3>. HIDE DEF a, b
    <3>. QED  BY <1>1, <1>2, <2>3, <3>1
  <2>. HIDE DEF a, b
  <2>. QED  BY <1>0, <2>1, <2>2, <2>3
<1>. HIDE DEF a, b
<1>5. a = b
  BY <1>2, <1>3, <1>4
<1>. QED  BY <1>5 DEF a, b, q, r

\* The characters that no token has.
Blanks == Spaces \cup {NUL}

(* The text of the first items of s \o p, of which those of p are all, or  *)
(* none, of tokens.                                                        *)
LEMMA DenseFolds ==
  ASSUME NEW S, NEW s \in Seq(S), NEW p \in Seq(S)
  PROVE  /\ Dense(s) \in Seq(S)
         /\ AllIn(p, Blanks) => Dense(s \o p) = Dense(s)
         /\ (\A i \in DOMAIN p : p[i] \notin Blanks) => Dense(s \o p) = Dense(s) \o p
<1>. DEFINE n == Len(s)
            m == Len(p)
            all == s \o p
<1>1. /\ all \in Seq(S) /\ Len(all) = n + m /\ n \in Nat /\ m \in Nat
      /\ \A i \in 1 .. n : all[i] = s[i]
      /\ \A i \in 1 .. m : all[n + i] = p[i]
      /\ DOMAIN p = 1 .. m
  OBVIOUS
<1>2. Dense(s) = Folded(s, n, "dense") /\ Dense(all) = Folded(all, n + m, "dense")
  BY <1>1, DenseIsFolded
<1>0. n \in Nat /\ m \in Nat
  OBVIOUS
<1>. HIDE DEF n, m, all
<1>3. Folded(s, n, "dense") \in Seq(S)
  <2>. DEFINE T == {i \in 0 .. n : Folded(s, i, "dense") \in Seq(S)}
  <2>1. 0 \in T
    <3>1. Folded(s, 0, "dense") = <<>> /\ <<>> \in Seq(S) /\ 0 \in 0 .. n
      BY <1>0, FoldEmpty DEF Start
    <3>. QED  BY <3>1
  <2>2. ASSUME NEW i \in 0 .. n - 1, i \in T PROVE i + 1 \in T
    <3>1. Folded(s, i + 1, "dense") = Step("dense", Folded(s, i, "dense"), s[i + 1])
      BY <2>2, FoldNext
    <3>2. Folded(s, i, "dense") \in Seq(S) /\ s[i + 1] \in S /\ i + 1 \in 0 .. n
      BY <1>0, <2>2 DEF n
    <3>3. Step("dense", Folded(s, i, "dense"), s[i + 1])
            \in {Folded(s, i, "dense"), Append(Folded(s, i, "dense"), s[i + 1])}
      BY DEF Step
    <3>4. Append(Folded(s, i, "dense"), s[i + 1]) \in Seq(S)
      BY <3>2
    <3>5. Folded(s, i + 1, "dense") \in Seq(S)
      BY <3>1, <3>2, <3>3, <3>4, Zenon
    <3>. QED  BY <3>2, <3>5
  <2>. HIDE DEF T
  <2>3. n \in T
    <3>1. \A i \in 0 .. n : i \in T
      BY <1>0, <2>1, <2>2, UpTo
    <3>. QED  BY <1>0, <3>1
  <2>. QED  BY <2>3 DEF T
<1>4. Folded(all, n, "dense") = Folded(s, n, "dense")
  <2>1. \A i \in 1 .. n : \A y : Step("dense", y, all[i]) = Step("dense", y, s[i])
    BY <1>1
  <2>. QED  BY <1>1, <2>1, SameFold
<1>5. ASSUME NEW i \in 0 .. m - 1
      PROVE  Folded(all, n + (i + 1), "dense") = Step("dense", Folded(all, n + i, "dense"), p[i + 1])
  <2>1. n + i \in Nat /\ (n + i) + 1 = n + (i + 1) /\ i + 1 \in 1 .. m
    BY <1>1, <1>5
  <2>2. Folded(all, (n + i) + 1, "dense") = Step("dense", Folded(all, n + i, "dense"), all[(n + i) + 1])
    BY <2>1, FoldNext
  <2>. QED  BY <1>1, <2>1, <2>2
<1>6. ASSUME AllIn(p, Blanks) PROVE Dense(all) = Dense(s)
  <2>. DEFINE T == {i \in 0 .. m : Folded(all, n + i, "dense") = Folded(s, n, "dense")}
  <2>1. 0 \in T
    BY <1>1, <1>4
  <2>2. ASSUME NEW i \in 0 .. m - 1, i \in T PROVE i + 1 \in T
    <3>1. i + 1 \in 1 .. m /\ p[i + 1] \in Spaces \cup {NUL}
      BY <1>1, <1>6, <2>2 DEF AllIn, Blanks
    <3>2. Folded(all, n + (i + 1), "dense") = Folded(all, n + i, "dense")
      BY <1>5, <2>2, <3>1 DEF Step
    <3>. QED  BY <2>2, <3>1, <3>2
  <2>. HIDE DEF T
  <2>3. m \in T
    <3>1. \A i \in 0 .. m : i \in T
      BY <1>0, <2>1, <2>2, UpTo
    <3>. QED  BY <1>0, <3>1
  <2>. QED  BY <1>2, <2>3 DEF T
<1>7. ASSUME \A i \in DOMAIN p : p[i] \notin Blanks PROVE Dense(all) = Dense(s) \o p
  <2>. DEFINE d == Folded(s, n, "dense")
              T == {i \in 0 .. m : Folded(all, n + i, "dense") = d \o SubSeq(p, 1, i)}
  <2>0. d \in Seq(S)
    BY <1>3
  <2>. HIDE DEF d
  <2>1. 0 \in T
    <3>1. d \o SubSeq(p, 1, 0) = d
      BY <1>1, <2>0
    <3>. QED  BY <1>1, <1>4, <3>1 DEF d
  <2>2. ASSUME NEW i \in 0 .. m - 1, i \in T PROVE i + 1 \in T
    <3>0. i + 1 \in 1 .. m
      BY <1>0
    <3>1. p[i + 1] \notin Spaces \cup {NUL}
      BY <1>1, <1>7, <3>0 DEF Blanks
    <3>2. Folded(all, n + (i + 1), "dense") = Append(Folded(all, n + i, "dense"), p[i + 1])
      BY <1>5, <2>2, <3>1 DEF Step
    <3>3. Folded(all, n + i, "dense") = d \o SubSeq(p, 1, i)
      BY <2>2
    <3>4. Append(d \o SubSeq(p, 1, i), p[i + 1]) = d \o SubSeq(p, 1, i + 1)
      BY <2>0, OneMore DEF m
    <3>5. Folded(all, n + (i + 1), "dense") = d \o SubSeq(p, 1, i + 1)
      BY <3>2, <3>3, <3>4
    <3>6. i + 1 \in 0 .. m
      BY <1>0, <3>0
    <3>. QED  BY <3>5, <3>6
  <2>. HIDE DEF T
  <2>3. m \in T
    <3>1. \A i \in 0 .. m : i \in T
      BY <1>0, <2>1, <2>2, UpTo
    <3>. QED  BY <1>0, <3>1
  <2>4. SubSeq(p, 1, m) = p
    BY DEF m
  <2>. QED  BY <1>2, <2>3, <2>4 DEF T, d
<1>. QED  BY <1>2, <1>3, <1>6, <1>7 DEF all

-----------------------------------------------------------------------------
(* The rules                                                               *)

TextChars == Chars \cup {NUL}

TokenRules == {"integer", "keyword", "id", "symbol"}

(* What the pieces of text that a rule matches are made of.                *)
LEMMA RuleMatches ==
  ASSUME NEW p \in Seq(TextChars), p # <<>>
  PROVE  /\ Rule(p) \in TokenRules => \A i \in DOMAIN p : p[i] \notin Blanks
         /\ Rule(p) = "space" => AllIn(p, Spaces)
         /\ Rule(p) = "eof" => p = <<NUL>>
         /\ Rule(p) = "any" => Len(p) = 1 /\ p[1] \notin Known
         /\ Rule(p) \in TokenRules \cup {"space", "eof", "any", "none"}
<1>1. ASSUME IsInteger(p) PROVE \A i \in DOMAIN p : p[i] \notin Blanks
  <2>1. ASSUME NEW s \in Seq(TextChars), IsNumber(s) PROVE \A i \in DOMAIN s : s[i] \notin Blanks
    BY <2>1, LexerAssumption DEF IsNumber, AllIn, Blanks
  <2>2. CASE IsNumber(p)
    BY <2>1, <2>2
  <2>3. CASE p[1] = "-" /\ IsNumber(Tail(p))
    <3>0. Tail(p) \in Seq(TextChars)
      OBVIOUS
    <3>1. \A i \in DOMAIN Tail(p) : Tail(p)[i] \notin Blanks
      BY <2>1, <2>3, <3>0
    <3>2. \A i \in DOMAIN p : i # 1 => i - 1 \in DOMAIN Tail(p) /\ p[i] = Tail(p)[i - 1]
      OBVIOUS
    <3>3. "-" \notin Blanks
      BY LexerAssumption DEF Blanks, Singles, NUL
    <3>. QED  BY <2>3, <3>1, <3>2, <3>3
  <2>. QED  BY <1>1, <2>2, <2>3 DEF IsInteger
<1>2. ASSUME p \in Keywords PROVE \A i \in DOMAIN p : p[i] \notin Blanks
  <2>1. p \in Seq(Letters)
    BY <1>2, LexerAssumption
  <2>2. \A i \in DOMAIN p : p[i] \in Letters
    BY <2>1
  <2>. QED  BY <2>2, LexerAssumption DEF Blanks
<1>3. ASSUME IsId(p) PROVE \A i \in DOMAIN p : p[i] \notin Blanks
  BY <1>3, LexerAssumption DEF IsId, AllIn, Blanks
<1>4. ASSUME p \in Symbols PROVE \A i \in DOMAIN p : p[i] \notin Blanks
  <2>1. \A i \in DOMAIN p : p[i] \in Singles \cup {"&", "|"}
    <3>1. CASE p \in {<<c>> : c \in Singles}
      BY <3>1
    <3>2. CASE p \in {<<c, "=">> : c \in {"=", "!", "<", ">"}}
      <4>1. PICK c \in {"=", "!", "<", ">"} : p = <<c, "=">>
        BY <3>2
      <4>2. c \in Singles /\ "=" \in Singles
        BY DEF Singles
      <4>. HIDE DEF Singles
      <4>. QED  BY <4>1, <4>2
    <3>3. CASE p \in {<<c, c>> : c \in {"&", "|"}}
      BY <3>3
    <3>. QED  BY <1>4, <3>1, <3>2, <3>3 DEF Symbols
  <2>2. NUL \notin Singles \cup {"&", "|"}
    BY DEF NUL, Singles
  <2>. QED  BY <2>1, <2>2, LexerAssumption DEF Blanks
<1>5. /\ Rule(p) \in TokenRules => IsInteger(p) \/ p \in Keywords \/ IsId(p) \/ p \in Symbols
      /\ Rule(p) = "space" => AllIn(p, Spaces)
      /\ Rule(p) = "eof" => p = <<NUL>>
      /\ Rule(p) = "any" => Len(p) = 1 /\ p[1] \notin Known
      /\ Rule(p) \in TokenRules \cup {"space", "eof", "any", "none"}
  BY DEF Rule, TokenRules
<1>. QED  BY <1>1, <1>2, <1>3, <1>4, <1>5

(* Some rule matches every character.                                      *)
LEMMA CharsMatch ==
  ASSUME NEW c \in TextChars
  PROVE  Rule(<<c>>) # "none"
<1>1. <<c>> # <<>> /\ Len(<<c>>) = 1 /\ <<c>>[1] = c /\ DOMAIN <<c>> = {1}
  OBVIOUS
<1>2. c \in Digits => IsInteger(<<c>>)
  BY <1>1 DEF IsInteger, IsNumber, AllIn
<1>3. c \in Letters => IsId(<<c>>)
  BY <1>1 DEF IsId, AllIn
<1>4. c \in Singles => <<c>> \in Symbols
  BY DEF Symbols
<1>5. c \in Spaces => AllIn(<<c>>, Spaces)
  BY <1>1 DEF AllIn
<1>6. \/ IsInteger(<<c>>) \/ <<c>> \in Keywords \/ (IsId(<<c>>) /\ <<c>> \notin Keywords)
      \/ <<c>> \in Symbols \/ AllIn(<<c>>, Spaces) \/ <<c>> = <<NUL>>
      \/ (Len(<<c>>) = 1 /\ <<c>>[1] \notin Known)
  BY <1>1, <1>2, <1>3, <1>4, <1>5 DEF Known
<1>. DEFINE p == <<c>>
<1>. HIDE DEF p
<1>7. Rule(p) # "none"
  BY <1>6 DEF Rule, p
<1>. QED  BY <1>7 DEF p

-----------------------------------------------------------------------------
(* The steps                                                               *)

\* The lexer's state while it scans.
ScanOK ==
  /\ text \in Seq(TextChars) /\ text # <<>> /\ text[Len(text)] = NUL
  /\ source \in 1 .. Len(text) + 1
  /\ tokens \in Seq([rule : TokenRules, text : Seq(TextChars)])
  /\ status \in {"running", "eof", "undefined"}
  /\ status = "running" => source <= Len(text)

LexInv == ScanOK /\ TokensAreTheText

(* A piece of the text, and the text that has been passed before it.       *)
LEMMA Pieces ==
  ASSUME ScanOK, NEW n \in 1 .. Len(text) + 1 - source
  PROVE  /\ Piece(n) \in Seq(TextChars) /\ Len(Piece(n)) = n
         /\ \A i \in 1 .. n : Piece(n)[i] = text[source + i - 1]
         /\ SubSeq(text, 1, source - 1) \in Seq(TextChars)
         /\ SubSeq(text, 1, (source + n) - 1) = SubSeq(text, 1, source - 1) \o Piece(n)
<1>1. /\ text \in Seq(TextChars) /\ source \in 1 .. Len(text) /\ Len(text) \in Nat
      /\ n \in Nat /\ source + n - 1 \in 1 .. Len(text) /\ source - 1 \in 0 .. Len(text)
      /\ (source + n) - 1 = source + n - 1
  BY DEF ScanOK
<1>2. Piece(n) \in Seq(TextChars) /\ Len(Piece(n)) = n
      /\ \A i \in 1 .. n : Piece(n)[i] = text[source + i - 1]
  BY <1>1 DEF Piece
<1>3. SubSeq(text, 1, source - 1) \in Seq(TextChars)
  BY <1>1
<1>4. SubSeq(text, 1, source + n - 1) = SubSeq(text, 1, source - 1) \o SubSeq(text, source, source + n - 1)
  BY <1>1
<1>. QED  BY <1>1, <1>2, <1>3, <1>4 DEF Piece

(* While there is text, a rule matches a piece of it, and one is the       *)
(* longest.                                                                *)
LEMMA LongestMatches ==
  ASSUME ScanOK, status = "running"
  PROVE  /\ Longest \in 1 .. Len(text) + 1 - source
         /\ Rule(Piece(Longest)) # "none"
<1>. DEFINE k == Len(text) + 1 - source
<1>1. k \in Nat /\ 1 \in 1 .. k /\ source \in 1 .. Len(text)
  BY DEF ScanOK
<1>2. 1 \in Matches
  <2>1. text \in Seq(TextChars) /\ source \in Nat /\ source + 1 - 1 = source
    BY <1>1 DEF ScanOK
  <2>2. text[source] \in TextChars /\ SubSeq(text, source, source) = <<text[source]>>
    <3>. DEFINE q == SubSeq(text, source, source)
    <3>1. q \in Seq(TextChars) /\ Len(q) = 1 /\ q[1] = text[source] /\ text[source] \in TextChars
      BY <1>1, <2>1
    <3>. HIDE DEF q
    <3>2. q = <<q[1]>>
      BY <3>1
    <3>. QED  BY <3>1, <3>2 DEF q
  <2>3. Piece(1) = <<text[source]>>
    BY <2>1, <2>2 DEF Piece
  <2>. QED  BY <1>1, <2>2, <2>3, CharsMatch DEF Matches
<1>. HIDE DEF k
<1>3. Matches \subseteq 1 .. k
  BY DEF Matches, k
<1>4. \E n \in Matches : \A m \in Matches : m <= n
  <2>. DEFINE S == {i \in 0 .. k : (\A m \in Matches : m <= i) => \E n \in Matches : \A x \in Matches : x <= n}
  <2>1. 0 \in S
    BY <1>1, <1>2, <1>3
  <2>2. ASSUME NEW i \in 0 .. k - 1, i \in S PROVE i + 1 \in S
    <3>1. i + 1 \in 0 .. k
      BY <1>1, <2>2
    <3>2. ASSUME \A m \in Matches : m <= i + 1 PROVE \E n \in Matches : \A x \in Matches : x <= n
      <4>1. CASE i + 1 \in Matches
        BY <3>2, <4>1
      <4>2. CASE i + 1 \notin Matches
        <5>1. \A m \in Matches : m <= i
          BY <1>1, <1>3, <2>2, <3>2, <4>2
        <5>. QED  BY <2>2, <5>1
      <4>. QED  BY <4>1, <4>2
    <3>. QED  BY <3>1, <3>2
  <2>. HIDE DEF S
  <2>0. k \in Nat
    BY <1>1
  <2>3. k \in S
    BY <2>0, <2>1, <2>2, UpTo
  <2>. QED  BY <1>1, <1>3, <2>3 DEF S
<1>5. Longest \in Matches
  BY <1>4 DEF Longest
<1>. QED  BY <1>5 DEF Matches

(* The text that has been passed, without spaces, after a step of the      *)
(* length of a piece.                                                      *)
LEMMA PassPiece ==
  ASSUME ScanOK, NEW n \in 1 .. Len(text) + 1 - source
  PROVE  LET passed == Dense(SubSeq(text, 1, source - 1))
             next   == Dense(SubSeq(text, 1, (source + n) - 1))
         IN  /\ Rule(Piece(n)) \in TokenRules => next = passed \o Piece(n)
             /\ Rule(Piece(n)) \in {"space", "eof"} => next = passed
<1>. DEFINE s == SubSeq(text, 1, source - 1)
            p == Piece(n)
<1>0. p \in Seq(TextChars) /\ Len(p) = n /\ s \in Seq(TextChars) /\ SubSeq(text, 1, (source + n) - 1) = s \o p
  BY Pieces
<1>1. p \in Seq(TextChars) /\ p # <<>> /\ s \in Seq(TextChars) /\ SubSeq(text, 1, (source + n) - 1) = s \o p
  <2>1. n >= 1
    BY DEF ScanOK
  <2>. HIDE DEF p, s
  <2>2. p # <<>>
    BY <1>0, <2>1
  <2>. QED  BY <1>0, <2>2
<1>2. Rule(p) = "space" \/ Rule(p) = "eof" => AllIn(p, Blanks)
  <2>1. Rule(p) = "space" => AllIn(p, Spaces)
    BY <1>1, RuleMatches
  <2>2. Rule(p) = "eof" => p = <<NUL>>
    BY <1>1, RuleMatches
  <2>. HIDE DEF p
  <2>. QED  BY <2>1, <2>2 DEF AllIn, Blanks
<1>3. Rule(p) \in TokenRules => \A i \in DOMAIN p : p[i] \notin Blanks
  BY <1>1, RuleMatches
<1>4. /\ AllIn(p, Blanks) => Dense(s \o p) = Dense(s)
      /\ (\A i \in DOMAIN p : p[i] \notin Blanks) => Dense(s \o p) = Dense(s) \o p
  <2>. HIDE DEF p, s
  <2>. QED  BY <1>1, DenseFolds
<1>. QED  BY <1>1, <1>2, <1>3, <1>4

(* Only the rules for the end and for unexpected characters match the end  *)
(* of the text.                                                            *)
LEMMA StaysBefore ==
  ASSUME ScanOK, NEW n \in 1 .. Len(text) + 1 - source, Rule(Piece(n)) \in TokenRules \cup {"space"}
  PROVE  source + n \in 1 .. Len(text)
<1>1. Piece(n) \in Seq(TextChars) /\ Len(Piece(n)) = n /\ n >= 1
      /\ \A i \in 1 .. n : Piece(n)[i] = text[source + i - 1]
  BY Pieces
<1>2. \A i \in 1 .. n : Piece(n)[i] # NUL
  <2>. DEFINE p == Piece(n)
  <2>1. p \in Seq(TextChars) /\ p # <<>> /\ DOMAIN p = 1 .. n
    BY <1>1
  <2>2. Rule(p) \in TokenRules => \A i \in DOMAIN p : p[i] \notin Blanks
    BY <2>1, RuleMatches
  <2>3. Rule(p) = "space" => \A i \in DOMAIN p : p[i] \in Spaces
    BY <2>1, RuleMatches DEF AllIn
  <2>. HIDE DEF p
  <2>4. \A i \in 1 .. n : p[i] # NUL
    BY <2>1, <2>2, <2>3, LexerAssumption DEF Blanks, p
  <2>. QED  BY <2>4 DEF p
<1>4. source \in Nat /\ n \in Nat /\ Len(text) \in Nat /\ source >= 1 /\ source + n <= Len(text) + 1
  BY DEF ScanOK
<1>3. ASSUME source + n > Len(text) PROVE FALSE
  <2>1. source + n - 1 = Len(text)
    BY <1>3, <1>4
  <2>2. Piece(n)[n] = NUL
    BY <1>1, <2>1 DEF ScanOK
  <2>. QED  BY <1>1, <1>2, <2>2
<1>. QED  BY <1>3, <1>4

LEMMA LexInit == Init => LexInv
<1>. SUFFICES ASSUME NEW t \in Seq(Chars), Read(t) PROVE LexInv
  BY DEF Init
<1>1. text \in Seq(TextChars) /\ Len(text) = Len(t) + 1 /\ text[Len(text)] = NUL
  BY DEF Read, TextChars
<1>2. ScanOK
  BY <1>1 DEF ScanOK, Read
<1>3. Joined(tokens) = Dense(SubSeq(text, 1, source - 1))
  <2>1. SubSeq(text, 1, source - 1) = <<>> /\ tokens = <<>> /\ <<>> \in Seq(Chars) /\ Len(<<>>) = 0
    BY <1>1 DEF Read
  <2>2. Joined(<<>>) = <<>>
    <3>1. Joined(<<>>) = Folded(<<>>, 0, "joined")
      BY <2>1, JoinedIsFolded
    <3>. QED  BY <3>1, FoldEmpty DEF Start
  <2>3. Dense(<<>>) = <<>>
    <3>1. Dense(<<>>) = Folded(<<>>, 0, "dense")
      BY <2>1, DenseIsFolded
    <3>. QED  BY <3>1, FoldEmpty DEF Start
  <2>. QED  BY <2>1, <2>2, <2>3
<1>. QED  BY <1>2, <1>3 DEF LexInv, TokensAreTheText

LEMMA LexNext == LexInv /\ [Next \/ Stopped]_vars => LexInv'
<1>. SUFFICES ASSUME LexInv, [Next \/ Stopped]_vars PROVE LexInv'
  OBVIOUS
<1>0. ScanOK /\ TokensAreTheText
  BY DEF LexInv
<1>1. CASE UNCHANGED vars
  BY <1>0, <1>1 DEF LexInv, ScanOK, TokensAreTheText, vars
<1>2. CASE Return
  <2>. DEFINE n == Longest
              p == Piece(n)
  <2>1. n \in 1 .. Len(text) + 1 - source /\ Rule(p) \in TokenRules /\ status = "running"
    BY <1>0, <1>2, LongestMatches DEF Return, Scanning, TokenRules
  <2>2. p \in Seq(TextChars) /\ source + n \in 1 .. Len(text)
    BY <1>0, <2>1, Pieces, StaysBefore
  <2>3. tokens' = Append(tokens, [rule |-> Rule(p), text |-> p]) /\ source' = source + n
        /\ UNCHANGED <<text, status>>
    BY <1>2 DEF Return, Token
  <2>. HIDE DEF n, p
  <2>4. ScanOK'
    BY <1>0, <2>1, <2>2, <2>3 DEF ScanOK
  <2>5. Joined(tokens') = Joined(tokens) \o p
    <3>. DEFINE S == [rule : TokenRules, text : Seq(TextChars)]
                t == [rule |-> Rule(p), text |-> p]
    <3>1. tokens \in Seq(S) /\ t \in S /\ t.text = p
      BY <1>0, <2>1, <2>2 DEF ScanOK
    <3>. HIDE DEF S, t
    <3>2. Joined(Append(tokens, t)) = Joined(tokens) \o t.text
      BY <3>1, JoinedMore
    <3>. QED  BY <2>3, <3>1, <3>2 DEF t
  <2>6. Dense(SubSeq(text, 1, (source + n) - 1)) = Dense(SubSeq(text, 1, source - 1)) \o p
    BY <1>0, <2>1, PassPiece DEF p
  <2>7. TokensAreTheText'
    BY <1>0, <2>1, <2>3, <2>5, <2>6 DEF TokensAreTheText
  <2>. QED  BY <2>4, <2>7 DEF LexInv
<1>3. CASE Skip
  <2>. DEFINE n == Longest
  <2>1. n \in 1 .. Len(text) + 1 - source /\ Rule(Piece(n)) = "space" /\ status = "running"
    BY <1>0, <1>3, LongestMatches DEF Skip, Scanning
  <2>2. source + n \in 1 .. Len(text)
    BY <1>0, <2>1, StaysBefore
  <2>3. source' = source + n /\ UNCHANGED <<text, tokens, status>>
    BY <1>3 DEF Skip
  <2>. HIDE DEF n
  <2>4. ScanOK'
    BY <1>0, <2>1, <2>2, <2>3 DEF ScanOK
  <2>5. Dense(SubSeq(text, 1, (source + n) - 1)) = Dense(SubSeq(text, 1, source - 1))
    BY <1>0, <2>1, PassPiece
  <2>6. TokensAreTheText'
    BY <1>0, <2>1, <2>3, <2>5 DEF TokensAreTheText
  <2>. QED  BY <2>4, <2>6 DEF LexInv
<1>4. CASE ReturnEOF
  <2>. DEFINE n == Longest
  <2>1. n \in 1 .. Len(text) + 1 - source /\ Rule(Piece(n)) = "eof" /\ status = "running"
    BY <1>0, <1>4, LongestMatches DEF ReturnEOF, Scanning
  <2>2. n = 1
    <3>1. Piece(n) \in Seq(TextChars) /\ Len(Piece(n)) = n
      BY <1>0, <2>1, Pieces
    <3>2. Piece(n) # <<>>
      BY <2>1, <3>1
    <3>3. Piece(n) = <<NUL>>
      BY <2>1, <3>1, <3>2, RuleMatches
    <3>. QED  BY <3>1, <3>3
  <2>3. source' = source + 1 /\ status' = "eof" /\ UNCHANGED <<text, tokens>>
    BY <1>4 DEF ReturnEOF
  <2>. HIDE DEF n
  <2>4. ScanOK'
    BY <1>0, <2>1, <2>2, <2>3 DEF ScanOK
  <2>5. Dense(SubSeq(text, 1, (source + n) - 1)) = Dense(SubSeq(text, 1, source - 1))
    BY <1>0, <2>1, PassPiece
  <2>6. TokensAreTheText'
    BY <1>0, <2>1, <2>2, <2>3, <2>5 DEF TokensAreTheText
  <2>. QED  BY <2>4, <2>6 DEF LexInv
<1>5. CASE Unexpected
  <2>1. status = "running" /\ source' = source + 1 /\ status' = "undefined" /\ UNCHANGED <<text, tokens>>
    BY <1>5 DEF Unexpected, Scanning
  <2>. QED  BY <1>0, <2>1 DEF LexInv, ScanOK, TokensAreTheText
<1>. QED  BY <1>1, <1>2, <1>3, <1>4, <1>5 DEF Next, Stopped

(* Whatever the text, nothing of it is lost, doubled or reordered between  *)
(* the tokens, and no step reads past the null that ends the buffer        *)
(* (Lexer.re:20-60).                                                       *)
THEOREM TokensOfTheText == Spec => []TokensAreTheText /\ [](source <= Len(text) + 1)
<1>1. LexInv => TokensAreTheText /\ source <= Len(text) + 1
  BY DEF LexInv, ScanOK
<1>. QED  BY <1>1, LexInit, LexNext, PTL DEF Spec
=============================================================================
