-------------------------- MODULE ExecutionProofs ---------------------------
(***************************************************************************)
(* Proofs about Execution, for every set of programs: what a function that *)
(* the verifier has accepted does when it is called is what its source     *)
(* says (ImplementsSource), and it reads no value older than a variable's  *)
(* declaration unless the source does (DefinedIsStored).                   *)
(*                                                                         *)
(* Every instruction stands for a point of the source: from that of one    *)
(* instruction the source gets to that of the next silently, but for the   *)
(* access, call, test or return that the instruction is.  This is shown of *)
(* the code as it is generated, and is all that its execution needs.       *)
(***************************************************************************)
EXTENDS Execution, VerifierProofs

-----------------------------------------------------------------------------
(* Silent steps of the source                                              *)

\* Nothing can be observed of node k.
Silent(k) == k \in DOMAIN syntax /\ ~Source!Observable(k)

\* Silent steps lead from x to z: z is in every set that they do not leave.
Leads(x, z) ==
  \A S : x \in S /\ (\A k \in S : Silent(k) => Source!Onward(k, FALSE) \in S) => z \in S

LEMMA LeadsSelf == \A x : Leads(x, x)
  BY DEF Leads

LEMMA LeadsOn ==
  ASSUME NEW x, NEW z, Leads(x, z), Silent(z)
  PROVE  Leads(x, Source!Onward(z, FALSE))
  BY DEF Leads

LEMMA LeadsThrough ==
  ASSUME NEW x, NEW y, NEW z, Leads(x, y), Leads(y, z)
  PROVE  Leads(x, z)
  BY DEF Leads

(* The first of the steps.                                                 *)
LEMMA LeadsFirst ==
  ASSUME NEW x, NEW z, Leads(x, z), Silent(x), x # z
  PROVE  Leads(Source!Onward(x, FALSE), z)
<1>. SUFFICES ASSUME NEW S, Source!Onward(x, FALSE) \in S,
                     \A k \in S : Silent(k) => Source!Onward(k, FALSE) \in S
              PROVE  z \in S
  BY DEF Leads
<1>. DEFINE T == S \cup {x}
<1>1. x \in T /\ \A k \in T : Silent(k) => Source!Onward(k, FALSE) \in T
  OBVIOUS
<1>2. z \in T
  BY <1>1 DEF Leads
<1>. QED  BY <1>2

(* No silent step leads away from an observable one.                       *)
LEMMA LeadsNowhere ==
  ASSUME NEW x, NEW z, Leads(x, z), ~Silent(x)
  PROVE  z = x
<1>1. x \in {x} /\ \A k \in {x} : Silent(k) => Source!Onward(k, FALSE) \in {x}
  OBVIOUS
<1>2. z \in {x}
  BY <1>1 DEF Leads
<1>. QED  BY <1>2

(* There is but one way to the next observable step.                       *)
LEMMA LeadsOneWay ==
  ASSUME NEW x, NEW y, NEW z, Leads(x, y), Leads(x, z), ~Silent(z)
  PROVE  Leads(y, z)
<1>. DEFINE S == {w \in {x} \cup {Source!Onward(k, FALSE) : k \in DOMAIN syntax} : Leads(w, z)}
<1>1. x \in S
  OBVIOUS
<1>2. ASSUME NEW k \in S, Silent(k)
      PROVE  Source!Onward(k, FALSE) \in S
  <2>1. Leads(k, z) /\ k # z /\ k \in DOMAIN syntax
    BY <1>2 DEF Silent
  <2>2. Leads(Source!Onward(k, FALSE), z)
    BY <1>2, <2>1, LeadsFirst
  <2>. QED  BY <2>1, <2>2
<1>3. y \in S
  <2>. HIDE DEF S
  <2>. QED  BY <1>1, <1>2 DEF Leads
<1>. QED  BY <1>3

-----------------------------------------------------------------------------
(* What an instruction stands for                                          *)

EventOps == {"load", "store", "call", "ret"}

\* What can be observed of an instruction.
Does(i) ==
  CASE i.op = "load"  -> Source!Load(i.ref)
    [] i.op = "store" -> Source!Store(i.ref)
    [] i.op = "call"  -> Source!CallOf(i.callee)
    [] i.op = "ret"   -> Source!Returned

\* The instruction takes the source from point l to point m, or to the entry of
\* a block that it branches to.
Moves(en, l, i, m) ==
  /\ i.op \notin EventOps \cup {"condbr"} =>
       Leads(l, IF i.to = <<>> THEN m ELSE en[i.to[1]])
  /\ i.op = "br" => i.to # <<>>
  /\ i.op \in EventOps =>
       /\ i.to = <<>>
       /\ \E k \in DOMAIN syntax :
            /\ Leads(l, k) /\ Source!Observable(k)
            /\ Source!EventAt(k, FALSE) = Does(i) /\ m = Source!Onward(k, FALSE)
  /\ i.op = "condbr" =>
       /\ i.to # <<>>
       /\ \E k \in DOMAIN syntax :
            /\ Leads(l, k) /\ Source!Tests(k)
            /\ en[i.to[1]] = Source!Onward(k, TRUE)
            /\ en[i.to[Len(i.to)]] = Source!Onward(k, FALSE)

\* The instructions of a block stand for the points p, the last for its end.
Traced(en, p, b) == \A i \in DOMAIN b : Moves(en, p[i], b[i], p[i + 1])

Takes(en, l, b, m) == \E p : p[1] = l /\ p[Len(b) + 1] = m /\ Traced(en, p, b)

\* The blocks stand for the source from the points en on.
CodeOK(en, bs) ==
  \A b \in DOMAIN bs : ~Cut(bs[b]) => \E m : Takes(en, en[b], bs[b], m)

\* The last block, unless it has been ended, is at point k.
EndsAt(en, bs, b, k) ==
  ~Cut(bs[b]) /\ ~HasTerminator(bs[b]) => \E m : Takes(en, en[b], bs[b], m) /\ Leads(m, k)

(* The same, from a point before.                                          *)
LEMMA MovesFrom ==
  ASSUME NEW en, NEW x, NEW l, Leads(x, l), NEW i, NEW m, Moves(en, l, i, m)
  PROVE  Moves(en, x, i, m)
  BY LeadsThrough DEF Moves

LEMMA TakesNothing == \A en, l : Takes(en, l, <<>>, l)
<1>. SUFFICES ASSUME NEW en, NEW l PROVE Takes(en, l, <<>>, l)
  OBVIOUS
<1>. DEFINE p == <<l>>
<1>1. p[1] = l /\ p[Len(<<>>) + 1] = l /\ Traced(en, p, <<>>)
  BY DEF Traced
<1>. QED  BY <1>1 DEF Takes

(* One instruction more.                                                   *)
LEMMA TakesMore ==
  ASSUME NEW en, NEW l, NEW b \in Seq(Instrs), NEW m, Takes(en, l, b, m),
         NEW i \in Instrs, NEW n, Moves(en, m, i, n)
  PROVE  Takes(en, l, Append(b, i), n)
<1>1. PICK p : p[1] = l /\ p[Len(b) + 1] = m /\ Traced(en, p, b)
  BY DEF Takes
<1>2. /\ Len(b) \in Nat /\ DOMAIN b = 1 .. Len(b)
      /\ Len(Append(b, i)) = Len(b) + 1 /\ DOMAIN Append(b, i) = 1 .. Len(b) + 1
      /\ \A j \in 1 .. Len(b) : Append(b, i)[j] = b[j]
      /\ Append(b, i)[Len(b) + 1] = i
  OBVIOUS
<1>. DEFINE q == [j \in 1 .. Len(b) + 2 |-> IF j = Len(b) + 2 THEN n ELSE p[j]]
<1>3. \A j \in 1 .. Len(b) + 1 : q[j] = p[j]
  BY <1>2
<1>4. q[Len(b) + 2] = n
  BY <1>2
<1>. HIDE DEF q
<1>5. q[1] = l
  BY <1>1, <1>2, <1>3
<1>6. ASSUME NEW j \in 1 .. Len(b) + 1
      PROVE  Moves(en, q[j], Append(b, i)[j], q[j + 1])
  <2>1. CASE j = Len(b) + 1
    <3>1. q[j] = m /\ q[j + 1] = n /\ Append(b, i)[j] = i
      BY <1>1, <1>2, <1>3, <1>4, <2>1
    <3>. QED  BY <3>1
  <2>2. CASE j \in 1 .. Len(b)
    <3>1. q[j] = p[j] /\ q[j + 1] = p[j + 1] /\ Append(b, i)[j] = b[j]
      BY <1>2, <1>3, <2>2
    <3>. QED  BY <1>1, <1>2, <2>2, <3>1 DEF Traced
  <2>. QED  BY <1>2, <2>1, <2>2
<1>7. (Len(b) + 1) + 1 = Len(b) + 2
  BY <1>2
<1>. QED  BY <1>2, <1>4, <1>5, <1>6, <1>7 DEF Takes, Traced

(* An instruction in front that does nothing.                              *)
LEMMA TakesBefore ==
  ASSUME NEW en, NEW l, NEW b \in Seq(Instrs), NEW m, Takes(en, l, b, m),
         NEW i \in Instrs, Moves(en, l, i, l)
  PROVE  Takes(en, l, <<i>> \o b, m)
<1>1. PICK p : p[1] = l /\ p[Len(b) + 1] = m /\ Traced(en, p, b)
  BY DEF Takes
<1>. DEFINE c == <<i>> \o b
<1>2. /\ Len(b) \in Nat /\ DOMAIN b = 1 .. Len(b)
      /\ Len(c) = Len(b) + 1 /\ DOMAIN c = 1 .. Len(b) + 1
      /\ c[1] = i /\ \A j \in 1 .. Len(b) : c[j + 1] = b[j]
  OBVIOUS
<1>. DEFINE q == [j \in 1 .. Len(b) + 2 |-> IF j = 1 THEN l ELSE p[j - 1]]
<1>3. q[1] = l /\ \A j \in 1 .. Len(b) + 1 : q[j + 1] = p[j]
  BY <1>2
<1>. HIDE DEF q, c
<1>4. ASSUME NEW j \in 1 .. Len(b) + 1
      PROVE  Moves(en, q[j], c[j], q[j + 1])
  <2>1. CASE j = 1
    <3>1. q[j] = l /\ q[j + 1] = l /\ c[j] = i
      BY <1>1, <1>2, <1>3, <2>1
    <3>. QED  BY <3>1
  <2>2. CASE j # 1
    <3>1. PICK h \in 1 .. Len(b) : j = h + 1
      <4>1. j - 1 \in 1 .. Len(b) /\ j = (j - 1) + 1
        BY <1>2, <2>2
      <4>. QED  BY <4>1
    <3>2. q[j] = p[h] /\ q[j + 1] = p[h + 1] /\ c[j] = b[h]
      BY <1>2, <1>3, <3>1
    <3>. QED  BY <1>1, <1>2, <3>1, <3>2 DEF Traced
  <2>. QED  BY <2>1, <2>2
<1>5. q[Len(c) + 1] = m
  BY <1>1, <1>2, <1>3
<1>. QED  BY <1>2, <1>3, <1>4, <1>5 DEF Takes, Traced, c

-----------------------------------------------------------------------------
(* Blocks                                                                  *)

(* Node k is passed silently.                                              *)
LEMMA EndsOn ==
  ASSUME NEW en, NEW bs, NEW b, NEW k, EndsAt(en, bs, b, k), Silent(k)
  PROVE  EndsAt(en, bs, b, Source!Onward(k, FALSE))
  BY LeadsOn DEF EndsAt

LEMMA EndsEmpty ==
  ASSUME NEW en, NEW bs, NEW b, bs[b] = <<>>
  PROVE  EndsAt(en, bs, b, en[b])
  BY TakesNothing, LeadsSelf DEF EndsAt

\* Blocks behind the n-th may have got points.
Agree(en, to, n) == \A b \in 1 .. n : to[b] = en[b]

LEMMA MovesAgree ==
  ASSUME NEW en, NEW to, NEW n \in Nat, Agree(en, to, n), NEW i \in Instrs,
         \A t \in DOMAIN i.to : i.to[t] \in 2 .. n,
         NEW l, NEW m, Moves(en, l, i, m)
  PROVE  Moves(to, l, i, m)
<1>1. i.to \in Seq(Nat)
  BY DEF Instrs
<1>2. i.to # <<>> => 1 \in DOMAIN i.to /\ Len(i.to) \in DOMAIN i.to
  BY <1>1
<1>3. i.to # <<>> => to[i.to[1]] = en[i.to[1]] /\ to[i.to[Len(i.to)]] = en[i.to[Len(i.to)]]
  <2>1. \A b \in 2 .. n : b \in 1 .. n
    OBVIOUS
  <2>. QED  BY <1>2, <2>1 DEF Agree
<1>. QED  BY <1>3 DEF Moves

LEMMA TakesAgree ==
  ASSUME NEW en, NEW to, NEW n \in Nat, Agree(en, to, n), NEW b \in Seq(Instrs), Aimed(b, n),
         NEW l, NEW m, Takes(en, l, b, m)
  PROVE  Takes(to, l, b, m)
<1>1. PICK p : p[1] = l /\ p[Len(b) + 1] = m /\ Traced(en, p, b)
  BY DEF Takes
<1>2. ASSUME NEW i \in DOMAIN b
      PROVE  Moves(to, p[i], b[i], p[i + 1])
  <2>1. b[i] \in Instrs /\ \A t \in DOMAIN b[i].to : b[i].to[t] \in 2 .. n
    BY DEF Aimed
  <2>. QED  BY <1>1, <2>1, MovesAgree DEF Traced
<1>. QED  BY <1>1, <1>2 DEF Takes, Traced

LEMMA CodeAgree ==
  ASSUME NEW bs \in Seq(Blocks), Inside(bs, Len(bs)),
         NEW en, NEW to, Agree(en, to, Len(bs))
  PROVE  /\ CodeOK(en, bs) => CodeOK(to, bs)
         /\ \A b \in DOMAIN bs : \A k : EndsAt(en, bs, b, k) => EndsAt(to, bs, b, k)
<1>1. Len(bs) \in Nat /\ DOMAIN bs = 1 .. Len(bs)
  OBVIOUS
<1>2. ASSUME NEW b \in DOMAIN bs
      PROVE  to[b] = en[b] /\ \A m : Takes(en, en[b], bs[b], m) => Takes(to, to[b], bs[b], m)
  <2>1. bs[b] \in Seq(Instrs) /\ Aimed(bs[b], Len(bs))
    BY DEF Blocks, Inside
  <2>2. to[b] = en[b]
    BY <1>1 DEF Agree
  <2>. QED  BY <1>1, <2>1, <2>2, TakesAgree
<1>3. CodeOK(en, bs) => CodeOK(to, bs)
  BY <1>2 DEF CodeOK
<1>4. ASSUME NEW b \in DOMAIN bs, NEW k, EndsAt(en, bs, b, k) PROVE EndsAt(to, bs, b, k)
  BY <1>2, <1>4 DEF EndsAt
<1>. QED  BY <1>3, <1>4

(* An instruction is appended to a block that is at point k.               *)
LEMMA CodeMore ==
  ASSUME NEW en, NEW bs \in Seq(Blocks), NEW b \in DOMAIN bs, NEW k,
         CodeOK(en, bs), EndsAt(en, bs, b, k),
         NEW i \in Instrs, NEW m, Moves(en, k, i, m)
  PROVE  LET put == [bs EXCEPT ![b] = @ \o <<i>>]
         IN  /\ put \in Seq(Blocks) /\ Len(put) = Len(bs) /\ DOMAIN put = DOMAIN bs
             /\ CodeOK(en, put) /\ EndsAt(en, put, b, m)
<1>. DEFINE c == bs[b] \o <<i>>  put == [bs EXCEPT ![b] = c]
<1>1. bs[b] \in Seq(Instrs) /\ c = Append(bs[b], i) /\ c \in Seq(Instrs)
  <2>1. bs[b] \in Seq(Instrs)
    BY DEF Blocks
  <2>. QED  BY <2>1
<1>2. /\ Len(bs[b]) \in Nat /\ Len(c) = Len(bs[b]) + 1
      /\ \A j \in 1 .. Len(bs[b]) : c[j] = bs[b][j]
  BY <1>1
<1>. HIDE DEF c
<1>3. /\ put \in Seq(Blocks) /\ Len(put) = Len(bs) /\ DOMAIN put = DOMAIN bs
      /\ put[b] = c /\ \A d \in DOMAIN bs : d # b => put[d] = bs[d]
  <2>1. c \in Blocks
    BY <1>1 DEF Blocks
  <2>2. put \in Seq(Blocks)
    BY <2>1
  <2>. QED  BY <2>2
<1>. HIDE DEF put
<1>4. ~Cut(c) => Takes(en, en[b], c, m)
  <2>. SUFFICES ASSUME ~Cut(c) PROVE Takes(en, en[b], c, m)
    OBVIOUS
  <2>1. \A j \in 1 .. Len(bs[b]) : bs[b][j].op \notin Terminators
    BY <1>2 DEF Cut
  <2>2. ~Cut(bs[b]) /\ ~HasTerminator(bs[b])
    <3>1. \A j \in 1 .. Len(bs[b]) - 1 : j \in 1 .. Len(bs[b])
      BY <1>2
    <3>2. bs[b] # <<>> => Len(bs[b]) \in 1 .. Len(bs[b])
      BY <1>1
    <3>. QED  BY <2>1, <3>1, <3>2 DEF Cut, HasTerminator
  <2>3. PICK x : Takes(en, en[b], bs[b], x) /\ Leads(x, k)
    BY <2>2 DEF EndsAt
  <2>4. Moves(en, x, i, m)
    BY <2>3, MovesFrom
  <2>. QED  BY <1>1, <2>3, <2>4, TakesMore
<1>5. CodeOK(en, put)
  BY <1>3, <1>4 DEF CodeOK
<1>6. EndsAt(en, put, b, m)
  BY <1>3, <1>4, LeadsSelf DEF EndsAt
<1>7. [bs EXCEPT ![b] = @ \o <<i>>] = put
  BY DEF put, c
<1>. QED  BY <1>3, <1>5, <1>6, <1>7

(* An instruction that does nothing is put in front of a block.            *)
LEMMA CodeBefore ==
  ASSUME NEW en, NEW bs \in Seq(Blocks), NEW b \in DOMAIN bs, CodeOK(en, bs),
         NEW i \in Instrs, i.op \notin EventOps \cup Terminators, i.to = <<>>
  PROVE  LET put == [bs EXCEPT ![b] = <<i>> \o @]
         IN  /\ put \in Seq(Blocks) /\ Len(put) = Len(bs) /\ DOMAIN put = DOMAIN bs
             /\ CodeOK(en, put)
             /\ \A d \in DOMAIN bs : \A k : EndsAt(en, bs, d, k) => EndsAt(en, put, d, k)
<1>. DEFINE c == <<i>> \o bs[b]  put == [bs EXCEPT ![b] = c]
<1>1. bs[b] \in Seq(Instrs) /\ c \in Seq(Instrs)
  <2>1. bs[b] \in Seq(Instrs)
    BY DEF Blocks
  <2>. QED  BY <2>1
<1>2. /\ Len(bs[b]) \in Nat /\ Len(c) = Len(bs[b]) + 1 /\ c[1] = i
      /\ \A j \in 1 .. Len(bs[b]) : c[j + 1] = bs[b][j]
  BY <1>1
<1>3. \A l, m : Takes(en, l, bs[b], m) => Takes(en, l, c, m)
  <2>1. "condbr" \in Terminators /\ "br" \in Terminators
    BY DEF Terminators
  <2>2. \A l : Moves(en, l, i, l)
    BY <2>1, LeadsSelf DEF Moves
  <2>. QED  BY <1>1, <2>2, TakesBefore
<1>. HIDE DEF c
<1>4. ~Cut(c) => ~Cut(bs[b])
  <2>1. \A j \in 1 .. Len(bs[b]) - 1 : j + 1 \in 1 .. Len(c) - 1 /\ j \in 1 .. Len(bs[b])
    BY <1>2
  <2>. QED  BY <1>2, <2>1 DEF Cut
<1>5. ~HasTerminator(c) => ~HasTerminator(bs[b])
  <2>1. bs[b] # <<>> => Len(bs[b]) \in 1 .. Len(bs[b]) /\ c # <<>>
    BY <1>1, <1>2
  <2>. QED  BY <1>2, <2>1 DEF HasTerminator
<1>6. /\ put \in Seq(Blocks) /\ Len(put) = Len(bs) /\ DOMAIN put = DOMAIN bs
      /\ put[b] = c /\ \A d \in DOMAIN bs : d # b => put[d] = bs[d]
  <2>1. c \in Blocks
    BY <1>1 DEF Blocks
  <2>2. put \in Seq(Blocks)
    BY <2>1
  <2>. QED  BY <2>2
<1>. HIDE DEF put
<1>7. CodeOK(en, put)
  BY <1>3, <1>4, <1>6 DEF CodeOK
<1>8. ASSUME NEW d \in DOMAIN bs, NEW k, EndsAt(en, bs, d, k) PROVE EndsAt(en, put, d, k)
  BY <1>3, <1>4, <1>5, <1>6, <1>8 DEF EndsAt
<1>9. [bs EXCEPT ![b] = <<i>> \o @] = put
  BY DEF put, c
<1>. QED  BY <1>6, <1>7, <1>8, <1>9

(* New blocks are empty.                                                   *)
LEMMA CodeNew ==
  ASSUME NEW en, NEW bs \in Seq(Blocks), CodeOK(en, bs),
         NEW n \in Nat, NEW new \in [1 .. n -> {<<>>}]
  PROVE  /\ bs \o new \in Seq(Blocks) /\ CodeOK(en, bs \o new)
         /\ Len(bs \o new) = Len(bs) + n
         /\ \A b \in 1 .. Len(bs) : (bs \o new)[b] = bs[b]
         /\ \A b \in Len(bs) + 1 .. Len(bs) + n : (bs \o new)[b] = <<>>
<1>1. /\ Len(bs \o new) = Len(bs) + n /\ Len(bs) \in Nat
      /\ \A b \in 1 .. Len(bs) : (bs \o new)[b] = bs[b]
      /\ \A b \in Len(bs) + 1 .. Len(bs) + n : (bs \o new)[b] = <<>>
  BY NewBlocksClean
<1>2. bs \o new \in Seq(Blocks)
  <2>1. <<>> \in Blocks
    BY DEF Blocks
  <2>2. new \in Seq(Blocks)
    BY <2>1
  <2>. QED  BY <2>2
<1>3. ASSUME NEW more \in Seq(Blocks), Len(more) = Len(bs) + n,
             \A b \in 1 .. Len(bs) : more[b] = bs[b],
             \A b \in Len(bs) + 1 .. Len(bs) + n : more[b] = <<>>
      PROVE  CodeOK(en, more)
  <2>. SUFFICES ASSUME NEW b \in DOMAIN more, ~Cut(more[b])
                PROVE  \E m : Takes(en, en[b], more[b], m)
    BY DEF CodeOK
  <2>1. b \in 1 .. Len(bs) \/ b \in Len(bs) + 1 .. Len(bs) + n
    BY <1>1, <1>3
  <2>2. CASE b \in 1 .. Len(bs)
    <3>1. b \in DOMAIN bs /\ more[b] = bs[b]
      BY <1>3, <2>2
    <3>. QED  BY <3>1 DEF CodeOK
  <2>3. CASE b \in Len(bs) + 1 .. Len(bs) + n
    <3>1. more[b] = <<>>
      BY <1>3, <2>3
    <3>. QED  BY <3>1, TakesNothing
  <2>. QED  BY <2>1, <2>2, <2>3
<1>. QED  BY <1>1, <1>2, <1>3

-----------------------------------------------------------------------------
(* Nodes of the source that are passed silently                            *)

LEMMA SilentStmt ==
  ASSUME NEW k \in DOMAIN syntax, syntax[k].n \notin {"Var", "Call", "EndExp", "EndFunc"}
  PROVE  /\ Silent(k)
         /\ syntax[k].n = "Else" => Source!Onward(k, FALSE) = Source!EndIfOf(k, 1)
         /\ syntax[k].n = "EndWhile" => Source!Onward(k, FALSE) = Source!WhileOf(k)
         /\ syntax[k].n \notin {"Else", "EndWhile"} => Source!Onward(k, FALSE) = k + 1
<1>1. ~Source!Reads(k) /\ ~Source!Calls(k) /\ ~Source!Writes(k) /\ ~Source!Tests(k) /\ ~Source!Returns(k)
  BY DEF Source!Reads, Source!Calls, Source!Writes, Source!Tests, Source!Returns
<1>2. Silent(k)
  BY <1>1 DEF Silent, Source!Observable
<1>. QED  BY <1>1, <1>2 DEF Source!Onward

(* A node of an expression is passed, whether or not it is observed.       *)
LEMMA OnwardExp ==
  ASSUME NEW k \in DOMAIN syntax, syntax[k].n \in ExpNodes
  PROVE  Source!Onward(k, FALSE) = k + 1
<1>1. ~Source!Writes(k) /\ ~Source!Tests(k) /\ ~Source!Returns(k)
  BY DEF Source!Writes, Source!Tests, Source!Returns, ExpNodes
<1>. QED  BY <1>1 DEF Source!Onward, ExpNodes

LEMMA GreatestIs ==
  ASSUME NEW S \in SUBSET Nat, NEW g \in S, \A i \in S : g >= i
  PROVE  Source!Max(S) = g
<1>1. \A i \in S : i >= g => i = g
  OBVIOUS
<1>. QED  BY <1>1 DEF Source!Max

(* The statement of an expression is the one that waits for it.            *)
LEMMA StmtIs ==
  ASSUME syntax \in Seq(Nodes), NEW k \in DOMAIN syntax, syntax[k].n = "EndExp",
         NEW p, HasExp(syntax, p, k)
  PROVE  Source!StmtOf(k) = p /\ Source!Stmt(k) = syntax[p].n
<1>. DEFINE S == {i \in 1 .. k : syntax[i].n \in {"Return", "CallStmt", "Assign", "Decl", "If", "While"}}
<1>1. k \in Nat /\ k <= Len(syntax)
  OBVIOUS
<1>2. /\ p \in 1 .. k - 1 /\ syntax[p].n \in {"Return", "CallStmt", "Assign", "Decl", "If", "While"}
      /\ \A i \in p + 1 .. k - 1 : syntax[i].n \in ExpNodes
  BY <1>1 DEF HasExp, WaitsAt
<1>3. S \in SUBSET Nat /\ p \in S /\ \A i \in S : p >= i
  <2>1. \A i \in S : i # k /\ i \notin p + 1 .. k - 1
    BY <1>2 DEF ExpNodes
  <2>. QED  BY <1>1, <1>2, <2>1
<1>. HIDE DEF S
<1>4. Source!Max(S) = p /\ S # {}
  BY <1>3, GreatestIs
<1>5. Source!StmtOf(k) = p
  BY <1>4 DEF Source!StmtOf, Source!SelectLastInSubSeq, S
<1>. QED  BY <1>5 DEF Source!Stmt

(* ... which says what the end of the expression does.                     *)
LEMMA EndExpIs ==
  ASSUME syntax \in Seq(Nodes), NEW k \in DOMAIN syntax, syntax[k].n = "EndExp",
         NEW p, HasExp(syntax, p, k)
  PROVE  /\ Source!Writes(k) <=> syntax[p].n \in {"Assign", "Decl"}
         /\ Source!Tests(k) <=> syntax[p].n \in {"If", "While"}
         /\ Source!Returns(k) <=> syntax[p].n = "Return"
         /\ Source!Observable(k) <=> syntax[p].n # "CallStmt"
         /\ syntax[p].n \in {"Assign", "Decl"} => Source!EventAt(k, FALSE) = Source!Store(Source!Target(p))
         /\ syntax[p].n = "Return" => Source!EventAt(k, FALSE) = Source!Returned
         /\ syntax[p].n \in {"Assign", "Decl", "CallStmt"} => Source!Onward(k, FALSE) = k + 1
         /\ syntax[p].n \in {"If", "While"} =>
              Source!Onward(k, TRUE) = k + 1 /\ Source!Onward(k, FALSE) = Source!Otherwise(p)
<1>1. Source!StmtOf(k) = p /\ Source!Stmt(k) = syntax[p].n
  BY StmtIs
<1>2. ~Source!Reads(k) /\ ~Source!Calls(k)
  BY DEF Source!Reads, Source!Calls
<1>3. /\ Source!Writes(k) <=> syntax[p].n \in {"Assign", "Decl"}
      /\ Source!Tests(k) <=> syntax[p].n \in {"If", "While"}
      /\ Source!Returns(k) <=> syntax[p].n = "Return"
  BY <1>1 DEF Source!Writes, Source!Tests, Source!Returns
<1>4. syntax[p].n \in {"Return", "CallStmt", "Assign", "Decl", "If", "While"}
  BY DEF HasExp, WaitsAt
<1>5. Source!Observable(k) <=> syntax[p].n # "CallStmt"
  BY <1>2, <1>3, <1>4 DEF Source!Observable
<1>6. /\ syntax[p].n \in {"Assign", "Decl"} => Source!EventAt(k, FALSE) = Source!Store(Source!Target(p))
      /\ syntax[p].n = "Return" => Source!EventAt(k, FALSE) = Source!Returned
  BY <1>1, <1>2, <1>3 DEF Source!EventAt
<1>7. /\ syntax[p].n \in {"Assign", "Decl", "CallStmt"} => Source!Onward(k, FALSE) = k + 1
      /\ syntax[p].n \in {"If", "While"} =>
           Source!Onward(k, TRUE) = k + 1 /\ Source!Onward(k, FALSE) = Source!Otherwise(p)
  BY <1>1, <1>3 DEF Source!Onward
<1>. QED  BY <1>3, <1>5, <1>6, <1>7

-----------------------------------------------------------------------------
(* The ends of statements                                                  *)

LEMMA NthIsCount == \A m, a, b : Source!Nth(m, a, b) = Count(syntax, m, a, b)
  BY DEF Source!Nth, Count, Source!Cardinality, Cardinality

(* There is but one first of the positions behind k that are in a set.     *)
LEMMA FirstIs ==
  ASSUME NEW k \in Nat, NEW n \in Nat, NEW S, NEW e \in k + 1 .. n, e \in S,
         \A i \in k + 1 .. e - 1 : i \notin S
  PROVE  \A j \in k + 1 .. n : j \in S /\ (\A i \in k + 1 .. j - 1 : i \notin S) => j = e
<1>. SUFFICES ASSUME NEW j \in k + 1 .. n, j \in S, \A i \in k + 1 .. j - 1 : i \notin S, j # e
              PROVE  FALSE
  OBVIOUS
<1>1. j \in k + 1 .. e - 1 \/ e \in k + 1 .. j - 1
  OBVIOUS
<1>. QED  BY <1>1

(* Behind complete statements in front, no more are closed than are opened *)
(* in what is left of them.                                                *)
LEMMA MatchedFront ==
  ASSUME NEW prog, NEW o, NEW c, NEW a \in Nat, NEW b \in Nat, NEW i \in a .. b,
         Matched(prog, o, c, a, b)
  PROVE  Count(prog, c, a, i) <= Count(prog, o, a, i)
<1>1. /\ i \in Nat /\ i + 1 \in Nat /\ a <= i + 1 /\ i <= b
      /\ i + 1 \in a .. b \/ i + 1 > b
  OBVIOUS
<1>2. \A n : /\ Count(prog, n, a, b) = Count(prog, n, a, i) + Count(prog, n, i + 1, b)
             /\ Count(prog, n, a, i) \in Nat /\ Count(prog, n, i + 1, b) \in Nat
  BY <1>1, CountSplit, CountNat
<1>3. Count(prog, o, i + 1, b) <= Count(prog, c, i + 1, b)
  <2>1. CASE i + 1 \in a .. b
    BY <2>1 DEF Matched
  <2>2. CASE i + 1 > b
    <3>1. Count(prog, o, i + 1, b) = 0 /\ Count(prog, c, i + 1, b) = 0
      BY <1>1, <2>2, CountNat
    <3>. QED  BY <3>1
  <2>. QED  BY <1>1, <2>1, <2>2
<1>4. Count(prog, o, a, b) = Count(prog, c, a, b)
  BY DEF Matched
<1>. QED  BY <1>2, <1>3, <1>4

(* The statement that opens at s is closed at e, but not before.           *)
LEMMA ClosedHere ==
  ASSUME NEW prog, NEW o, NEW c, o # c, NEW s \in Nat, NEW e \in Nat, s < e,
         prog[e].n = c, Matched(prog, o, c, s + 1, e - 1)
  PROVE  /\ prog[s].n = o =>
              /\ Count(prog, c, s, e) = Count(prog, o, s, e)
              /\ \A i \in s + 1 .. e - 1 : Count(prog, c, s, i) # Count(prog, o, s, i)
         /\ prog[s].n \notin {o, c} =>
              /\ Count(prog, c, s, e) = Count(prog, o, s, e) + 1
              /\ \A i \in s + 1 .. e - 1 : Count(prog, c, s, i) # Count(prog, o, s, i) + 1
<1>. DEFINE d == e - 1  one == IF prog[s].n = o THEN 1 ELSE 0
<1>1. d \in Nat /\ d + 1 = e /\ s <= d /\ s <= d + 1 /\ s + 1 \in Nat /\ s <= s + 1
  OBVIOUS
<1>2. Matched(prog, o, c, s + 1, d)
  OBVIOUS
<1>. HIDE DEF d
<1>3. ASSUME NEW i \in Nat, s <= i, prog[s].n # c
      PROVE  /\ Count(prog, o, s, i) = one + Count(prog, o, s + 1, i)
             /\ Count(prog, c, s, i) = Count(prog, c, s + 1, i)
             /\ Count(prog, o, s + 1, i) \in Nat /\ Count(prog, c, s + 1, i) \in Nat
  <2>1. /\ \A n : Count(prog, n, s, i) = Count(prog, n, s, s) + Count(prog, n, s + 1, i)
    BY <1>1, <1>3, CountSplit
  <2>2. Count(prog, o, s, s) = one /\ Count(prog, c, s, s) = 0
    BY <1>3, CountOne
  <2>3. Count(prog, o, s + 1, i) \in Nat /\ Count(prog, c, s + 1, i) \in Nat
    BY <1>1, <1>3, CountNat
  <2>. QED  BY <2>1, <2>2, <2>3
<1>4. ASSUME prog[s].n # c
      PROVE  Count(prog, c, s, e) + one = Count(prog, o, s, e) + 1
  <2>1. Count(prog, o, s + 1, d) = Count(prog, c, s + 1, d)
    BY <1>2 DEF Matched
  <2>2. /\ Count(prog, o, s, e) = Count(prog, o, s, d)
        /\ Count(prog, c, s, e) = Count(prog, c, s, d) + 1
        /\ Count(prog, o, s, d) \in Nat /\ Count(prog, c, s, d) \in Nat
    BY <1>1, CountNext
  <2>. QED  BY <1>1, <1>3, <1>4, <2>1, <2>2
<1>5. ASSUME NEW i \in s + 1 .. d, prog[s].n # c
      PROVE  Count(prog, c, s, i) + one # Count(prog, o, s, i) + 1
  <2>1. Count(prog, c, s + 1, i) <= Count(prog, o, s + 1, i)
    BY <1>1, <1>2, MatchedFront
  <2>2. i \in Nat /\ s <= i
    BY <1>5
  <2>3. /\ Count(prog, o, s, i) = one + Count(prog, o, s + 1, i)
        /\ Count(prog, c, s, i) = Count(prog, c, s + 1, i)
        /\ Count(prog, o, s + 1, i) \in Nat /\ Count(prog, c, s + 1, i) \in Nat
    BY <1>3, <1>5, <2>2
  <2>. QED  BY <2>1, <2>3
<1>6. /\ Count(prog, c, s, e) \in Nat /\ Count(prog, o, s, e) \in Nat
      /\ \A i \in s + 1 .. d : Count(prog, c, s, i) \in Nat /\ Count(prog, o, s, i) \in Nat
  BY CountNat
<1>7. CASE prog[s].n = o
  <2>1. one = 1 /\ prog[s].n # c
    BY <1>7 DEF one
  <2>. HIDE DEF one
  <2>2. Count(prog, c, s, e) = Count(prog, o, s, e)
    BY <1>4, <1>6, <2>1
  <2>3. \A i \in s + 1 .. d : Count(prog, c, s, i) # Count(prog, o, s, i)
    BY <1>5, <1>6, <2>1
  <2>. QED  BY <1>7, <2>2, <2>3 DEF d
<1>8. CASE prog[s].n \notin {o, c}
  <2>1. one = 0 /\ prog[s].n # c
    BY <1>8 DEF one
  <2>. HIDE DEF one
  <2>2. Count(prog, c, s, e) = Count(prog, o, s, e) + 1
    BY <1>4, <1>6, <2>1
  <2>3. \A i \in s + 1 .. d : Count(prog, c, s, i) # Count(prog, o, s, i) + 1
    BY <1>5, <1>6, <2>1
  <2>. QED  BY <1>8, <2>2, <2>3 DEF d
<1>. QED  BY <1>7, <1>8

(* The last node.                                                          *)
LEMMA CountEnd ==
  ASSUME NEW prog, NEW a \in Nat, NEW d \in Nat, NEW e, e = d + 1, a <= e
  PROVE  \A m : /\ Count(prog, m, a, d) \in Nat
                /\ prog[e].n = m => Count(prog, m, a, e) = Count(prog, m, a, d) + 1
                /\ prog[e].n # m => Count(prog, m, a, e) = Count(prog, m, a, d)
<1>1. \A m : /\ Count(prog, m, a, d) \in Nat
             /\ Count(prog, m, a, d + 1) = Count(prog, m, a, d) + IF prog[d + 1].n = m THEN 1 ELSE 0
  BY CountNext, CountNat
<1>. QED  BY <1>1

(* No statement that opens behind s is open at e.                          *)
LEMMA OpenBehind ==
  ASSUME NEW prog, NEW o, NEW c, o # c, NEW s \in Nat, NEW e \in Nat, s < e,
         prog[e].n = c, Matched(prog, o, c, s + 1, e - 1), NEW i \in Nat, s < i, i <= e
  PROVE  Count(prog, o, i, e) < Count(prog, c, i, e)
<1>. DEFINE d == e - 1
<1>1. d \in Nat /\ e = d + 1 /\ Matched(prog, o, c, s + 1, d)
      /\ (i \in s + 1 .. d \/ i = d + 1) /\ i <= d + 1
  OBVIOUS
<1>. HIDE DEF d
<1>2. /\ Count(prog, o, i, e) = Count(prog, o, i, d)
      /\ Count(prog, c, i, e) = Count(prog, c, i, d) + 1
      /\ Count(prog, o, i, d) \in Nat /\ Count(prog, c, i, d) \in Nat
  BY <1>1, CountEnd
<1>3. Count(prog, o, i, d) <= Count(prog, c, i, d)
  <2>1. CASE i \in s + 1 .. d
    BY <1>1, <2>1 DEF Matched
  <2>2. CASE i = d + 1
    <3>1. Count(prog, o, i, d) = 0 /\ Count(prog, c, i, d) = 0
      BY <1>1, <2>2, CountNat
    <3>. QED  BY <3>1
  <2>. QED  BY <1>1, <2>1, <2>2
<1>. QED  BY <1>1, <1>2, <1>3

(* An if is divided by the first else behind complete statements.          *)
LEMMA DividedHere ==
  ASSUME NEW prog, NEW s \in Nat, NEW e \in Nat, s < e, prog[s].n = "If", prog[e].n = "Else",
         ClosedIf(prog, s + 1, e - 1)
  PROVE  /\ Count(prog, "If", s, e) = Count(prog, "EndIf", s, e) + 1
         /\ \A i \in s + 1 .. e - 1 : prog[i].n = "Else" =>
              Count(prog, "If", s, i) # Count(prog, "EndIf", s, i) + 1
<1>1. /\ e \in s + 1 .. e
      /\ Closed(prog, "If", "Else", "EndIf", s + 1, e - 1)
      /\ Matched(prog, "If", "EndIf", s + 1, e - 1)
  BY DEF ClosedIf, Closed
<1>. DEFINE d == e - 1
<1>2. d \in Nat /\ d + 1 = e /\ s <= d /\ s <= s + 1 /\ s + 1 \in Nat
  BY <1>1
<1>3. Matched(prog, "If", "EndIf", s + 1, d) /\ Closed(prog, "If", "Else", "EndIf", s + 1, d)
  BY <1>1
<1>. HIDE DEF d
<1>4. ASSUME NEW i \in Nat, s <= i
      PROVE  /\ Count(prog, "If", s, i) = 1 + Count(prog, "If", s + 1, i)
             /\ Count(prog, "EndIf", s, i) = Count(prog, "EndIf", s + 1, i)
             /\ Count(prog, "If", s + 1, i) \in Nat /\ Count(prog, "EndIf", s + 1, i) \in Nat
  <2>1. \A n : Count(prog, n, s, i) = Count(prog, n, s, s) + Count(prog, n, s + 1, i)
    BY <1>1, <1>2, <1>4, CountSplit
  <2>2. Count(prog, "If", s, s) = 1 /\ Count(prog, "EndIf", s, s) = 0
    BY <1>1, CountOne
  <2>3. Count(prog, "If", s + 1, i) \in Nat /\ Count(prog, "EndIf", s + 1, i) \in Nat
    BY <1>1, <1>4, CountNat
  <2>. QED  BY <2>1, <2>2, <2>3
<1>5. Count(prog, "If", s, e) = Count(prog, "EndIf", s, e) + 1
  <2>1. Count(prog, "If", s + 1, d) = Count(prog, "EndIf", s + 1, d)
    BY <1>3 DEF Matched
  <2>2. /\ Count(prog, "If", s, e) = Count(prog, "If", s, d)
        /\ Count(prog, "EndIf", s, e) = Count(prog, "EndIf", s, d)
        /\ Count(prog, "If", s, d) \in Nat /\ Count(prog, "EndIf", s, d) \in Nat
    <3>1. \A m : /\ Count(prog, m, s, d) \in Nat
                 /\ prog[e].n # m => Count(prog, m, s, e) = Count(prog, m, s, d)
      BY <1>2, CountEnd
    <3>. QED  BY <3>1
  <2>. QED  BY <1>2, <1>4, <2>1, <2>2
<1>6. ASSUME NEW i \in s + 1 .. d, prog[i].n = "Else"
      PROVE  Count(prog, "If", s, i) # Count(prog, "EndIf", s, i) + 1
  <2>. DEFINE h == i - 1
  <2>1. /\ i \in Nat /\ s <= i /\ h \in Nat /\ h + 1 = i /\ s + 1 <= i /\ h <= d /\ i <= d /\ s + 1 <= h + 1
    BY <1>1, <1>2, <1>6
  <2>. HIDE DEF h
  <2>2. \A n : /\ Count(prog, n, s + 1, d) = Count(prog, n, s + 1, h) + Count(prog, n, i, d)
               /\ Count(prog, n, s + 1, h) \in Nat /\ Count(prog, n, i, d) \in Nat
    <3>1. \A n : Count(prog, n, s + 1, d) = Count(prog, n, s + 1, h) + Count(prog, n, h + 1, d)
      BY <1>2, <2>1, CountSplit
    <3>. QED  BY <1>2, <2>1, <3>1, CountNat
  <2>3. Count(prog, "If", i, d) < Count(prog, "EndIf", i, d)
    BY <1>3, <1>6 DEF Closed
  <2>4. Count(prog, "If", s + 1, d) = Count(prog, "EndIf", s + 1, d)
    BY <1>3 DEF Matched
  <2>5. Count(prog, "EndIf", s + 1, h) < Count(prog, "If", s + 1, h)
    BY <2>2, <2>3, <2>4
  <2>6. /\ Count(prog, "If", s + 1, i) = Count(prog, "If", s + 1, h)
        /\ Count(prog, "EndIf", s + 1, i) = Count(prog, "EndIf", s + 1, h)
    BY <1>2, <1>6, <2>1, CountEnd
  <2>7. /\ Count(prog, "If", s, i) = 1 + Count(prog, "If", s + 1, i)
        /\ Count(prog, "EndIf", s, i) = Count(prog, "EndIf", s + 1, i)
        /\ Count(prog, "If", s + 1, i) \in Nat /\ Count(prog, "EndIf", s + 1, i) \in Nat
    BY <1>4, <2>1
  <2>. QED  BY <2>1, <2>2, <2>5, <2>6, <2>7
<1>. QED  BY <1>5, <1>6 DEF d

\* The nodes from a to b are complete statements.
Shut(a, b) == ClosedIf(syntax, a, b) /\ Matched(syntax, "While", "EndWhile", a, b)

LEMMA EndWhileIs ==
  ASSUME syntax \in Seq(Nodes), NEW e \in Nat, e <= Len(syntax), NEW s \in Nat, s > 0, s < e,
         syntax[s].n = "While", syntax[e].n = "EndWhile", Shut(s + 1, e - 1)
  PROVE  Source!EndWhileOf(s) = e /\ Source!WhileOf(e) = s
<1>1. /\ s \in Nat /\ e \in Nat /\ s < e /\ e \in s + 1 .. Len(syntax) /\ Len(syntax) \in Nat
      /\ Matched(syntax, "While", "EndWhile", s + 1, e - 1)
  BY DEF Shut
<1>2. /\ Count(syntax, "EndWhile", s, e) = Count(syntax, "While", s, e)
      /\ \A i \in s + 1 .. e - 1 : Count(syntax, "EndWhile", s, i) # Count(syntax, "While", s, i)
  BY <1>1, ClosedHere
<1>3. Source!EndWhileOf(s) = e
  <2>. DEFINE S == {j \in Nat : syntax[j].n = "EndWhile"
                                /\ Source!Nth("EndWhile", s, j) = Source!Nth("While", s, j)}
  <2>1. e \in S /\ \A i \in s + 1 .. e - 1 : i \notin S
    BY <1>1, <1>2, NthIsCount
  <2>2. \A j \in s + 1 .. Len(syntax) : j \in S /\ (\A i \in s + 1 .. j - 1 : i \notin S) => j = e
    <3>. HIDE DEF S
    <3>. QED  BY <1>1, <2>1, FirstIs
  <2>3. \A i \in s + 1 .. Len(syntax) : i \in Nat /\ \A h \in s + 1 .. i - 1 : h \in Nat
    BY <1>1
  <2>. QED  BY <1>1, <2>1, <2>2, <2>3 DEF Source!EndWhileOf, Source!FirstAfter
<1>4. Source!WhileOf(e) = s
  <2>. DEFINE S == {k \in 1 .. e : syntax[k].n = "While"
                                   /\ Source!Nth("While", k, e) = Source!Nth("EndWhile", k, e)}
  <2>1. Closed(syntax, "While", "EndSeq", "EndWhile", s, e)
    BY <1>1, ClosedAround
  <2>2. S \in SUBSET Nat /\ s \in S
    BY <1>1, <1>2, NthIsCount
  <2>3. ASSUME NEW i \in S, i > s
        PROVE  FALSE
    <3>1. i \in Nat /\ i <= e /\ Count(syntax, "While", i, e) = Count(syntax, "EndWhile", i, e)
      BY NthIsCount
    <3>2. Count(syntax, "While", i, e) < Count(syntax, "EndWhile", i, e)
      BY <1>1, <2>3, <3>1, OpenBehind
    <3>3. Count(syntax, "While", i, e) \in Nat
      BY <1>1, <3>1, CountNat
    <3>. QED  BY <3>1, <3>2, <3>3
  <2>4. \A i \in S : s >= i
    BY <1>1, <2>3
  <2>. HIDE DEF S
  <2>5. Source!Max(S) = s
    BY <2>2, <2>4, GreatestIs
  <2>. QED  BY <2>5 DEF Source!WhileOf, S
<1>. QED  BY <1>3, <1>4

(* The same of an if, and of its else.                                     *)
LEMMA EndIfIs ==
  ASSUME syntax \in Seq(Nodes), NEW e \in Nat, e <= Len(syntax), NEW s \in Nat, s > 0, s < e,
         syntax[e].n = "EndIf", Shut(s + 1, e - 1)
  PROVE  /\ syntax[s].n = "If" => Source!EndIfOf(s, 0) = e
         /\ syntax[s].n = "Else" => Source!EndIfOf(s, 1) = e
<1>1. /\ s \in Nat /\ e \in Nat /\ s < e /\ e \in s + 1 .. Len(syntax) /\ Len(syntax) \in Nat
      /\ Matched(syntax, "If", "EndIf", s + 1, e - 1)
  BY DEF Shut, ClosedIf, Closed
<1>2. \A i \in s + 1 .. e : Count(syntax, "If", s, i) \in Nat
  BY <1>1, CountNat
<1>3. ASSUME NEW open \in {0, 1}, syntax[s].n = IF open = 0 THEN "If" ELSE "Else"
      PROVE  Source!EndIfOf(s, open) = e
  <2>1. /\ Count(syntax, "EndIf", s, e) = Count(syntax, "If", s, e) + open
        /\ \A i \in s + 1 .. e - 1 : Count(syntax, "EndIf", s, i) # Count(syntax, "If", s, i) + open
    <3>1. CASE open = 0
      <4>1. syntax[s].n = "If" /\ \A i \in s + 1 .. e : Count(syntax, "If", s, i) + open = Count(syntax, "If", s, i)
        BY <1>2, <1>3, <3>1
      <4>2. \A i \in s + 1 .. e - 1 : i \in s + 1 .. e
        BY <1>1
      <4>. QED  BY <1>1, <4>1, <4>2, ClosedHere
    <3>2. CASE open = 1
      <4>1. syntax[s].n \notin {"If", "EndIf"}
        BY <1>3, <3>2
      <4>. QED  BY <1>1, <3>2, <4>1, ClosedHere
    <3>. QED  BY <3>1, <3>2
  <2>. DEFINE S == {j \in Nat : syntax[j].n = "EndIf"
                                /\ Source!Nth("EndIf", s, j) = Source!Nth("If", s, j) + open}
  <2>2. e \in S /\ \A i \in s + 1 .. e - 1 : i \notin S
    BY <1>1, <2>1, NthIsCount
  <2>3. \A j \in s + 1 .. Len(syntax) : j \in S /\ (\A i \in s + 1 .. j - 1 : i \notin S) => j = e
    <3>. HIDE DEF S
    <3>. QED  BY <1>1, <2>2, FirstIs
  <2>4. \A i \in s + 1 .. Len(syntax) : i \in Nat /\ \A h \in s + 1 .. i - 1 : h \in Nat
    BY <1>1
  <2>. QED  BY <1>1, <2>2, <2>3, <2>4 DEF Source!EndIfOf, Source!FirstAfter
<1>. QED  BY <1>3

LEMMA ElseIs ==
  ASSUME syntax \in Seq(Nodes), NEW e \in Nat, e <= Len(syntax), NEW s \in Nat, s > 0, s < e,
         syntax[s].n = "If", syntax[e].n = "Else", Shut(s + 1, e - 1)
  PROVE  Source!ElseOf(s) = e
<1>1. /\ s \in Nat /\ e \in Nat /\ s < e /\ e \in s + 1 .. Len(syntax) /\ Len(syntax) \in Nat
      /\ Closed(syntax, "If", "Else", "EndIf", s + 1, e - 1)
      /\ Matched(syntax, "If", "EndIf", s + 1, e - 1)
  BY DEF Shut, ClosedIf, Closed
<1>2. /\ Count(syntax, "If", s, e) = Count(syntax, "EndIf", s, e) + 1
      /\ \A i \in s + 1 .. e - 1 : syntax[i].n = "Else" =>
           Count(syntax, "If", s, i) # Count(syntax, "EndIf", s, i) + 1
  BY DividedHere DEF Shut
<1>. DEFINE S == {j \in Nat : syntax[j].n = "Else"
                              /\ Source!Nth("If", s, j) = Source!Nth("EndIf", s, j) + 1}
<1>7. e \in S /\ \A i \in s + 1 .. e - 1 : i \notin S
  BY <1>1, <1>2, NthIsCount
<1>8. \A j \in s + 1 .. Len(syntax) : j \in S /\ (\A i \in s + 1 .. j - 1 : i \notin S) => j = e
  <2>. HIDE DEF S
  <2>. QED  BY <1>1, <1>7, FirstIs
<1>9. \A i \in s + 1 .. Len(syntax) : i \in Nat /\ \A h \in s + 1 .. i - 1 : h \in Nat
  BY <1>1
<1>. QED  BY <1>1, <1>7, <1>8, <1>9 DEF Source!ElseOf, Source!FirstAfter

(* Some complete statements after the other.                               *)
LEMMA ShutEmpty ==
  ASSUME NEW a \in Nat, NEW b \in Nat, a > b
  PROVE  Shut(a, b)
<1>1. \A i \in a .. b : FALSE
  OBVIOUS
<1>2. Matched(syntax, "While", "EndWhile", a, b)
  BY <1>1, CountNat DEF Matched
<1>. QED  BY <1>2, ClosedEmpty DEF Shut, ClosedIf

LEMMA ShutBoth ==
  ASSUME NEW a \in Nat, NEW x \in Nat, NEW b \in Nat, a <= x + 1, x <= b, Shut(a, x), Shut(x + 1, b)
  PROVE  Shut(a, b)
<1>1. ClosedIf(syntax, a, b)
  BY ClosedBoth DEF Shut, ClosedIf
<1>. QED  BY <1>1, MatchedBoth DEF Shut

\* Nodes that neither open, divide nor close an if or a while.
PlainNode(k) == syntax[k].n \notin {"If", "Else", "EndIf", "While", "EndWhile"}

LEMMA ShutMore ==
  ASSUME NEW a \in Nat, NEW b \in Nat, NEW k, k = b + 1, a <= k, Shut(a, b), PlainNode(k)
  PROVE  Shut(a, k)
<1>1. ClosedIf(syntax, a, k)
  BY ClosedMore DEF Shut, ClosedIf, PlainNode
<1>2. Matched(syntax, "While", "EndWhile", k, k)
  BY MatchedOne DEF PlainNode
<1>3. k \in Nat /\ a <= b + 1 /\ b <= k
  OBVIOUS
<1>4. Matched(syntax, "While", "EndWhile", a, k)
  <2>1. Matched(syntax, "While", "EndWhile", a, b) /\ Matched(syntax, "While", "EndWhile", b + 1, k)
    BY <1>2 DEF Shut
  <2>. QED  BY <1>3, <2>1, MatchedBoth
<1>. QED  BY <1>1, <1>4 DEF Shut

LEMMA ShutOne ==
  ASSUME NEW k \in Nat \ {0}, PlainNode(k)
  PROVE  Shut(k, k)
<1>. DEFINE b == k - 1
<1>1. b \in Nat /\ k = b + 1 /\ k > b /\ k <= k
  OBVIOUS
<1>. HIDE DEF b
<1>. QED  BY <1>1, ShutEmpty, ShutMore

(* A statement from s to e, with complete statements in it.                *)
LEMMA ShutAround ==
  ASSUME NEW s \in Nat, s > 0, NEW e \in Nat, s < e, Shut(s + 1, e - 1),
         \/ PlainNode(s) /\ PlainNode(e)
         \/ syntax[s].n = "If" /\ syntax[e].n = "EndIf"
         \/ syntax[s].n = "While" /\ syntax[e].n = "EndWhile"
  PROVE  Shut(s, e)
<1>. DEFINE d == e - 1
<1>1. d \in Nat /\ e = d + 1 /\ s + 1 <= e /\ s <= d /\ d <= e /\ s + 1 \in Nat /\ s \in Nat \ {0}
      /\ s <= s + 1 /\ s <= e /\ Shut(s + 1, d)
  OBVIOUS
<1>2. CASE PlainNode(s) /\ PlainNode(e)
  <2>. HIDE DEF d
  <2>1. Shut(s + 1, e) /\ Shut(s, s)
    BY <1>1, <1>2, ShutMore, ShutOne
  <2>. QED  BY <1>1, <2>1, ShutBoth
<1>3. CASE syntax[s].n = "If" /\ syntax[e].n = "EndIf"
  <2>1. Matched(syntax, "If", "EndIf", s + 1, e - 1)
    BY DEF Shut, ClosedIf, Closed
  <2>2. ClosedIf(syntax, s, e)
    BY <1>3, <2>1, ClosedAround DEF ClosedIf
  <2>3. Matched(syntax, "While", "EndWhile", s, s) /\ Matched(syntax, "While", "EndWhile", e, e)
    BY <1>3, MatchedOne
  <2>4. Matched(syntax, "While", "EndWhile", s, e)
    <3>. HIDE DEF d
    <3>1. Matched(syntax, "While", "EndWhile", s + 1, d)
      BY <1>1 DEF Shut
    <3>2. Matched(syntax, "While", "EndWhile", s, d)
      BY <1>1, <2>3, <3>1, MatchedBoth
    <3>3. Matched(syntax, "While", "EndWhile", d + 1, e) /\ s <= d + 1
      BY <1>1, <2>3
    <3>. QED  BY <1>1, <3>2, <3>3, MatchedBoth
  <2>. QED  BY <2>2, <2>4 DEF Shut
<1>4. CASE syntax[s].n = "While" /\ syntax[e].n = "EndWhile"
  <2>1. Matched(syntax, "While", "EndWhile", s + 1, e - 1)
    BY DEF Shut
  <2>2. Matched(syntax, "While", "EndWhile", s, e)
    BY <1>4, <2>1, ClosedAround DEF Closed
  <2>3. ClosedIf(syntax, s, s) /\ ClosedIf(syntax, e, e)
    <3>1. /\ \A i \in s .. s : i = s
          /\ \A i \in e .. e : i = e
      OBVIOUS
    <3>. QED  BY <1>4, <3>1, MatchedOne DEF ClosedIf, Closed
  <2>4. ClosedIf(syntax, s, e)
    <3>. HIDE DEF d
    <3>1. ClosedIf(syntax, s + 1, d)
      BY <1>1 DEF Shut
    <3>2. ClosedIf(syntax, s, d)
      BY <1>1, <2>3, <3>1, ClosedBoth DEF ClosedIf
    <3>3. ClosedIf(syntax, d + 1, e) /\ s <= d + 1
      BY <1>1, <2>3
    <3>. QED  BY <1>1, <3>2, <3>3, ClosedBoth DEF ClosedIf
  <2>. QED  BY <2>2, <2>4 DEF Shut
<1>. QED  BY <1>2, <1>3, <1>4

(* The same of an if with an else at j.                                    *)
LEMMA ShutElse ==
  ASSUME NEW s \in Nat, s > 0, NEW e \in Nat, NEW j \in s + 1 .. e - 1,
         syntax[s].n = "If", syntax[j].n = "Else", syntax[e].n = "EndIf",
         Shut(s + 1, j - 1), Shut(j + 1, e - 1)
  PROVE  Shut(s, e)
<1>. DEFINE a == s + 1  d == e - 1
<1>1. /\ s < e /\ a \in Nat /\ d \in Nat /\ a > 0 /\ j \in a .. d /\ j \in Nat
      /\ Shut(a, j - 1) /\ Shut(j + 1, d)
  OBVIOUS
<1>2. Matched(syntax, "If", "EndIf", s + 1, e - 1)
  <2>1. Matched(syntax, "If", "EndIf", a, j - 1) /\ Matched(syntax, "If", "EndIf", j + 1, d)
    BY <1>1 DEF Shut, ClosedIf, Closed
  <2>2. syntax[j].n \notin {"If", "EndIf"}
    OBVIOUS
  <2>. HIDE DEF a, d
  <2>3. Matched(syntax, "If", "EndIf", a, d)
    BY <1>1, <2>1, <2>2, MatchedDivided
  <2>. QED  BY <2>3 DEF a, d
<1>3. ClosedIf(syntax, s, e)
  BY <1>1, <1>2, ClosedAround DEF ClosedIf
<1>4. Matched(syntax, "While", "EndWhile", s + 1, e - 1)
  <2>1. Matched(syntax, "While", "EndWhile", a, j - 1) /\ Matched(syntax, "While", "EndWhile", j + 1, d)
    BY <1>1 DEF Shut
  <2>2. syntax[j].n \notin {"While", "EndWhile"}
    OBVIOUS
  <2>. HIDE DEF a, d
  <2>3. Matched(syntax, "While", "EndWhile", a, d)
    BY <1>1, <2>1, <2>2, MatchedDivided
  <2>. QED  BY <2>3 DEF a, d
<1>5. Matched(syntax, "While", "EndWhile", s, s) /\ Matched(syntax, "While", "EndWhile", e, e)
  BY MatchedOne
<1>6. Matched(syntax, "While", "EndWhile", s, e)
  <2>1. /\ s <= s + 1 /\ s <= d /\ d + 1 = e /\ d <= e /\ s <= d + 1
        /\ Matched(syntax, "While", "EndWhile", s + 1, d)
    BY <1>1, <1>4
  <2>. HIDE DEF a, d
  <2>2. Matched(syntax, "While", "EndWhile", s, d)
    BY <1>1, <1>5, <2>1, MatchedBoth
  <2>3. Matched(syntax, "While", "EndWhile", d + 1, e)
    BY <1>5, <2>1
  <2>. QED  BY <1>1, <2>1, <2>2, <2>3, MatchedBoth
<1>. QED  BY <1>3, <1>6 DEF Shut

-----------------------------------------------------------------------------
(* Active Visit functions                                                  *)

\* Behind the node of a Visit function, or behind its else, complete
\* statements follow, up to e; the blocks that it will go to stand for what
\* its source goes on with.
FrameFits(en, fr, e) ==
  LET s == fr.node
      j == Source!ElseOf(s)
  IN  /\ s \in 1 .. e /\ syntax[s].n \in Openers
      /\ fr.pc \in LoopPoints <=> syntax[s].n = "While"
      /\ fr.pc \in {"IfCond"} \cup BodyPoints <=> syntax[s].n = "If"
      /\ fr.pc \in LoopPoints => en[fr.loop] = s + 1
      /\ fr.pc \in {"WhileBody", "BodyEnd"} => en[fr.join] = Source!EndWhileOf(s) + 1
      /\ fr.pc \in ThenPoints =>
           IF fr.els = 0 THEN en[fr.join] = Source!EndIfOf(s, 0) + 1
           ELSE en[fr.els] = j + 1 /\ en[fr.join] = Source!EndIfOf(j, 1)
      /\ IF fr.pc \in ElsePoints
         THEN /\ j \in s + 1 .. e /\ syntax[j].n = "Else"
              /\ Shut(s + 1, j - 1) /\ Shut(j + 1, e)
              /\ en[fr.join] = Source!EndIfOf(j, 1)
         ELSE Shut(s + 1, e)

Fits(en, fs, k) == \A t \in DOMAIN fs : FrameFits(en, fs[t], EndOf(fs, t, k))

(* A statement, from k to e, is visited.                                   *)
LEMMA FitsThrough ==
  ASSUME NEW en, NEW fr \in Frames, NEW k \in Nat, k > 0, NEW e \in Nat, k <= e,
         FrameFits(en, fr, k - 1), Shut(k, e)
  PROVE  FrameFits(en, fr, e)
<1>. DEFINE r == k - 1  s == fr.node  j == Source!ElseOf(s)
<1>1. r \in Nat /\ k = r + 1 /\ r <= e /\ FrameFits(en, fr, r)
  OBVIOUS
<1>. HIDE DEF r
<1>2. s \in Nat /\ s \in 1 .. r /\ s \in 1 .. e /\ s + 1 \in Nat /\ s + 1 <= r + 1
  BY <1>1 DEF FrameFits, Frames
<1>3. \A a \in Nat : a <= r + 1 /\ Shut(a, r) => Shut(a, e)
  BY <1>1, ShutBoth
<1>4. ASSUME fr.pc \in ElsePoints
      PROVE  j \in s + 1 .. e /\ Shut(j + 1, e)
  <2>1. j \in s + 1 .. r /\ Shut(j + 1, r)
    BY <1>1, <1>4 DEF FrameFits
  <2>. HIDE DEF j
  <2>2. j + 1 \in Nat /\ j + 1 <= r + 1 /\ j \in s + 1 .. e
    BY <1>1, <1>2, <2>1
  <2>. QED  BY <1>3, <2>1, <2>2
<1>5. fr.pc \notin ElsePoints => Shut(s + 1, e)
  BY <1>1, <1>2, <1>3 DEF FrameFits
<1>. QED  BY <1>1, <1>2, <1>4, <1>5 DEF FrameFits

(* A frame moves on.                                                       *)
LEMMA FitsMoved ==
  ASSUME NEW en, NEW fr \in Frames, NEW e, FrameFits(en, fr, e), NEW qc, SameKind(fr.pc, qc)
  PROVE  FrameFits(en, [fr EXCEPT !.pc = qc], e)
<1>. DEFINE new == [fr EXCEPT !.pc = qc]
<1>1. /\ new.pc = qc /\ new.node = fr.node /\ new.loop = fr.loop /\ new.els = fr.els
      /\ new.join = fr.join
  BY DEF Frames
<1>. HIDE DEF new
<1>2. FrameFits(en, new, e)
  BY <1>1 DEF FrameFits, SameKind, BodyPoints
<1>. QED  BY <1>2 DEF new

(* Blocks are added that it will not go to.                                *)
LEMMA FitsAgree ==
  ASSUME NEW en, NEW to, NEW n \in Nat, Agree(en, to, n), NEW fr \in Frames, NEW e,
         FrameFits(en, fr, e), FrameOK(fr, n), \A b \in Pending(fr) : b \in 2 .. n
  PROVE  FrameFits(to, fr, e)
<1>1. \A b \in 2 .. n : to[b] = en[b]
  BY DEF Agree
<1>2. fr.pc \in LoopPoints => to[fr.loop] = en[fr.loop]
  BY <1>1 DEF FrameOK
<1>3. fr.pc \in {"WhileBody", "BodyEnd"} \cup ThenPoints \cup ElsePoints => to[fr.join] = en[fr.join]
  BY <1>1 DEF Pending, ThenPoints, ElsePoints
<1>4. fr.pc \in ThenPoints /\ fr.els # 0 => to[fr.els] = en[fr.els]
  BY <1>1 DEF Pending, ThenPoints
<1>. QED  BY <1>2, <1>3, <1>4 DEF FrameFits

(* The innermost Visit function apart from the others.                     *)
LEMMA FitsSplit ==
  ASSUME NEW en, NEW fs \in Seq(Frames), fs # <<>>, NEW k, Fits(en, fs, k)
  PROVE  FrameFits(en, Last(fs), k - 1) /\ Fits(en, Front(fs), Last(fs).node)
<1>1. /\ Len(fs) \in Nat \ {0} /\ Len(fs) \in DOMAIN fs /\ Last(fs) = fs[Len(fs)]
      /\ DOMAIN fs = 1 .. Len(fs)
  BY LastFrame
<1>2. FrameFits(en, Last(fs), k - 1)
  BY <1>1 DEF Fits, EndOf
<1>. DEFINE front == Front(fs)
<1>3. /\ front \in Seq(Frames) /\ Len(front) = Len(fs) - 1 /\ DOMAIN front = 1 .. Len(fs) - 1
      /\ \A i \in 1 .. Len(fs) - 1 : front[i] = fs[i]
  <2>1. /\ front \in Seq(Frames) /\ Len(front) = Len(fs) - 1
        /\ \A i \in 1 .. Len(fs) - 1 : front[i] = fs[i]
    BY FrontFrames
  <2>. HIDE DEF front
  <2>. QED  BY <2>1
<1>. HIDE DEF front
<1>4. ASSUME NEW t \in DOMAIN front
      PROVE  FrameFits(en, front[t], EndOf(front, t, Last(fs).node))
  <2>1. /\ t \in 1 .. Len(fs) - 1 /\ t \in 1 .. Len(fs)
        /\ t # Len(fs) /\ (t # Len(front) => t + 1 \in 1 .. Len(fs) - 1)
        /\ (t = Len(front) => t + 1 = Len(fs))
    BY <1>1, <1>3, <1>4
  <2>2. front[t] = fs[t]
    BY <1>3, <2>1
  <2>3. EndOf(front, t, Last(fs).node) = EndOf(fs, t, k)
    <3>1. CASE t = Len(front)
      BY <1>1, <2>1, <3>1 DEF EndOf
    <3>2. CASE t # Len(front)
      BY <1>3, <2>1, <3>2 DEF EndOf
    <3>. QED  BY <3>1, <3>2
  <2>. QED  BY <1>1, <2>1, <2>2, <2>3 DEF Fits
<1>. QED  BY <1>2, <1>4 DEF Fits, front

LEMMA FitsJoined ==
  ASSUME NEW en, NEW fs \in Seq(Frames), NEW fr \in Frames, NEW k,
         Fits(en, fs, fr.node), FrameFits(en, fr, k - 1)
  PROVE  Fits(en, Append(fs, fr), k)
<1>. DEFINE new == Append(fs, fr)
<1>1. /\ Len(fs) \in Nat /\ Len(new) = Len(fs) + 1 /\ new[Len(fs) + 1] = fr
      /\ DOMAIN new = 1 .. Len(fs) + 1 /\ DOMAIN fs = 1 .. Len(fs)
      /\ \A i \in 1 .. Len(fs) : new[i] = fs[i]
  OBVIOUS
<1>. HIDE DEF new
<1>2. ASSUME NEW t \in DOMAIN new
      PROVE  FrameFits(en, new[t], EndOf(new, t, k))
  <2>1. CASE t = Len(fs) + 1
    BY <1>1, <2>1 DEF EndOf
  <2>2. CASE t \in 1 .. Len(fs)
    <3>1. /\ new[t] = fs[t] /\ t # Len(new)
          /\ t # Len(fs) => t + 1 \in 1 .. Len(fs)
      BY <1>1, <2>2
    <3>2. EndOf(new, t, k) = EndOf(fs, t, fr.node)
      <4>1. CASE t = Len(fs)
        BY <1>1, <3>1, <4>1 DEF EndOf
      <4>2. CASE t # Len(fs)
        BY <1>1, <3>1, <4>2 DEF EndOf
      <4>. QED  BY <4>1, <4>2
    <3>. QED  BY <1>1, <2>2, <3>1, <3>2 DEF Fits
  <2>. QED  BY <1>1, <2>1, <2>2
<1>. QED  BY <1>2 DEF Fits, new

(* The innermost one goes on.                                              *)
LEMMA FitsReplaced ==
  ASSUME NEW en, NEW fs \in Seq(Frames), fs # <<>>,
         NEW fr \in Frames, Fits(en, Front(fs), fr.node), NEW k, FrameFits(en, fr, k - 1)
  PROVE  Fits(en, [fs EXCEPT ![Len(fs)] = fr], k)
<1>. DEFINE new == [fs EXCEPT ![Len(fs)] = fr]
<1>1. new \in Seq(Frames) /\ Len(new) = Len(fs)
  BY ReplacedFrames
<1>2. Front(new) = Front(fs) /\ Last(new) = fr
  BY FrontReplaced
<1>3. new # <<>> /\ Front(fs) \in Seq(Frames)
  BY <1>1, FrontFrames, LastFrame
<1>4. new = Append(Front(fs), fr)
  <2>. HIDE DEF new
  <2>1. /\ Len(new) \in Nat \ {0} /\ Last(new) = new[Len(new)]
        /\ Len(Front(new)) = Len(new) - 1 /\ Front(new) \in Seq(Frames)
        /\ \A i \in 1 .. Len(new) - 1 : Front(new)[i] = new[i]
    BY <1>1, <1>3, LastFrame, FrontFrames
  <2>. DEFINE app == Append(Front(new), fr)
  <2>2. /\ app \in Seq(Frames) /\ Len(app) = Len(new) /\ app[Len(new)] = fr
        /\ \A i \in 1 .. Len(new) - 1 : app[i] = new[i]
    BY <2>1
  <2>. HIDE DEF app
  <2>3. \A i \in 1 .. Len(new) : app[i] = new[i]
    <3>1. \A i \in 1 .. Len(new) : i = Len(new) \/ i \in 1 .. Len(new) - 1
      BY <2>1, Positions
    <3>. QED  BY <1>2, <2>1, <2>2, <3>1
  <2>4. app = new
    BY <1>1, <2>2, <2>3
  <2>. QED  BY <1>2, <2>4 DEF app
<1>5. Fits(en, Append(Front(fs), fr), k)
  BY <1>3, FitsJoined
<1>. QED  BY <1>4, <1>5

(* A statement is started.                                                 *)
LEMMA FitsResumed ==
  ASSUME NEW en, NEW fs \in Seq(Frames), At(fs, StmtPoints), NEW k, Fits(en, fs, k)
  PROVE  Fits(en, Resume(fs), k)
<1>. DEFINE pc == After[Last(fs).pc]  fr == [Last(fs) EXCEPT !.pc = pc]
<1>1. Resume(fs) = SetPc(fs, pc) /\ pc \in ControlPoints /\ fs # <<>>
  BY ResumeFrames DEF ControlPoints, StmtPoints
<1>2. Last(fs) \in Frames /\ fr \in Frames /\ fr.node = Last(fs).node
  <2>1. Last(fs) \in Frames
    BY <1>1, LastFrame
  <2>. HIDE DEF pc
  <2>. QED  BY <1>1, <2>1 DEF Frames
<1>3. SetPc(fs, pc) = [fs EXCEPT ![Len(fs)] = fr]
  BY <1>1, LastFrame DEF SetPc
<1>4. FrameFits(en, fr, k - 1) /\ Fits(en, Front(fs), fr.node)
  <2>1. SameKind(Last(fs).pc, pc)
    BY ResumedKind DEF At
  <2>2. FrameFits(en, Last(fs), k - 1) /\ Fits(en, Front(fs), Last(fs).node)
    BY <1>1, FitsSplit
  <2>. HIDE DEF pc
  <2>. QED  BY <1>2, <2>1, <2>2, FitsMoved
<1>. HIDE DEF fr, pc
<1>5. Fits(en, Front(fs), fr.node)
  BY <1>4
<1>6. Fits(en, [fs EXCEPT ![Len(fs)] = fr], k)
  BY <1>1, <1>2, <1>4, <1>5, FitsReplaced
<1>. QED  BY <1>1, <1>3, <1>6

LEMMA FitsEntered ==
  ASSUME NEW en, NEW fs \in Seq(Frames), At(fs, StmtPoints), NEW k \in Nat, Fits(en, fs, k),
         NEW fr \in Frames, fr.node = k, FrameFits(en, fr, k)
  PROVE  Fits(en, Enter(fs, fr), k + 1)
<1>1. Fits(en, Resume(fs), k) /\ Resume(fs) \in Seq(Frames)
  BY FitsResumed, EnterFrames
<1>2. (k + 1) - 1 = k
  OBVIOUS
<1>. QED  BY <1>1, <1>2, FitsJoined DEF Enter

(* A node that opens and closes nothing.                                   *)
LEMMA FitsMore ==
  ASSUME NEW en, NEW fs \in Seq(Frames), fs # <<>>, NEW k \in Nat \ {0}, Fits(en, fs, k), PlainNode(k)
  PROVE  Fits(en, fs, k + 1)
<1>1. /\ Last(fs) \in Frames /\ [fs EXCEPT ![Len(fs)] = Last(fs)] = fs
      /\ FrameFits(en, Last(fs), k - 1) /\ Fits(en, Front(fs), Last(fs).node)
  BY LastFrame, FitsSplit
<1>2. FrameFits(en, Last(fs), k)
  BY <1>1, ShutOne, FitsThrough
<1>3. (k + 1) - 1 = k
  OBVIOUS
<1>. DEFINE fr == Last(fs)
<1>4. fr \in Frames /\ Fits(en, Front(fs), fr.node) /\ FrameFits(en, fr, (k + 1) - 1)
  BY <1>1, <1>2, <1>3
<1>. HIDE DEF fr
<1>5. Fits(en, [fs EXCEPT ![Len(fs)] = fr], k + 1)
  BY <1>4, FitsReplaced
<1>. QED  BY <1>1, <1>5 DEF fr

(* A Visit function returns behind the end of its statement.               *)
LEMMA FitsPopped ==
  ASSUME NEW en, NEW fs \in Seq(Frames), fs # <<>>, NEW k \in Nat, Fits(en, fs, k),
         Shut(Last(fs).node, k), Last(fs).node \in 1 .. k
  PROVE  Fits(en, Front(fs), k + 1)
<1>. DEFINE g == Front(fs)  s == Last(fs).node
<1>1. g \in Seq(Frames) /\ Fits(en, g, s) /\ s \in Nat /\ s > 0 /\ s <= k
  BY FrontFrames, FitsSplit
<1>. HIDE DEF g
<1>2. CASE g = <<>>
  BY <1>2 DEF Fits, g
<1>3. CASE g # <<>>
  <2>1. /\ Last(g) \in Frames /\ [g EXCEPT ![Len(g)] = Last(g)] = g
        /\ FrameFits(en, Last(g), s - 1) /\ Fits(en, Front(g), Last(g).node)
    BY <1>1, <1>3, LastFrame, FitsSplit
  <2>2. FrameFits(en, Last(g), k)
    BY <1>1, <2>1, FitsThrough
  <2>. DEFINE fr == Last(g)
  <2>3. fr \in Frames /\ Fits(en, Front(g), fr.node) /\ FrameFits(en, fr, (k + 1) - 1)
    BY <2>1, <2>2
  <2>. HIDE DEF fr
  <2>4. Fits(en, [g EXCEPT ![Len(g)] = fr], k + 1)
    BY <1>1, <1>3, <2>3, FitsReplaced
  <2>. QED  BY <2>1, <2>4 DEF fr, g
<1>. QED  BY <1>2, <1>3

-----------------------------------------------------------------------------
(* Functions                                                               *)

\* Node f is a function with a body.
IsBody(f) == f \in DOMAIN syntax /\ syntax[f].n = "Func" /\ syntax[f].def.body

\* The blocks are those of function f, up to node k of the source.
Follows(en, f, bs, ins, fs, k) ==
  en[1] = f + 1 /\ CodeOK(en, bs) /\ EndsAt(en, bs, ins, k) /\ Fits(en, fs, k)

Built(f, bs, ins, fs, k) ==
  /\ PendingOK(fs, bs, ins) /\ Inside(bs, Len(bs))
  /\ \E en : Follows(en, f, bs, ins, fs, k)

\* ... up to its end.
Compiled(f, bs) ==
  /\ IsBody(f) /\ bs # <<>> /\ Inside(bs, Len(bs))
  /\ \E en : en[1] = f + 1 /\ CodeOK(en, bs)

TraceInv ==
  /\ frames # <<>> =>
       IsBody(frames[1].node) /\ Built(frames[1].node, blocks, insert, frames, cursor)
  /\ \A m \in DOMAIN module : Compiled(module[m].def, module[m].blocks)

(* All of this is said of the program alone.                               *)
LEMMA SameEnds ==
  ASSUME syntax' = syntax
  PROVE  /\ \A k, o : Source!EndIfOf(k, o)' = Source!EndIfOf(k, o)
         /\ \A k : Source!EndWhileOf(k)' = Source!EndWhileOf(k)
         /\ \A k : Source!ElseOf(k)' = Source!ElseOf(k)
         /\ \A k : Source!WhileOf(k)' = Source!WhileOf(k)
         /\ \A k : Source!StmtOf(k)' = Source!StmtOf(k)
         /\ \A k : Source!Target(k)' = Source!Target(k)
<1>1. \A k, o : Source!EndIfOf(k, o)' = Source!EndIfOf(k, o)
  BY DEF Source!EndIfOf, Source!FirstAfter, Source!Nth
<1>2. \A k : Source!EndWhileOf(k)' = Source!EndWhileOf(k)
  BY DEF Source!EndWhileOf, Source!FirstAfter, Source!Nth
<1>3. \A k : Source!ElseOf(k)' = Source!ElseOf(k)
  BY DEF Source!ElseOf, Source!FirstAfter, Source!Nth
<1>4. \A k : Source!WhileOf(k)' = Source!WhileOf(k)
  BY DEF Source!WhileOf, Source!Nth, Source!Max
<1>5. \A k : Source!StmtOf(k)' = Source!StmtOf(k)
  BY DEF Source!StmtOf, Source!SelectLastInSubSeq, Source!Max
<1>6. \A k : Source!Target(k)' = Source!Target(k)
  BY DEF Source!Target
<1>. QED  BY <1>1, <1>2, <1>3, <1>4, <1>5, <1>6

LEMMA SameNodes ==
  ASSUME syntax' = syntax
  PROVE  /\ \A k : Source!Tests(k)' <=> Source!Tests(k)
         /\ \A k : Source!Observable(k)' <=> Source!Observable(k)
         /\ \A k, b : Source!Onward(k, b)' = Source!Onward(k, b)
         /\ \A k, b : Source!Observable(k) => Source!EventAt(k, b)' = Source!EventAt(k, b)
<1>1. \A k : Source!Stmt(k)' = Source!Stmt(k)
  BY SameEnds DEF Source!Stmt
<1>2. /\ \A k : Source!Reads(k)' <=> Source!Reads(k)
      /\ \A k : Source!Calls(k)' <=> Source!Calls(k)
      /\ \A k : Source!Writes(k)' <=> Source!Writes(k)
      /\ \A k : Source!Tests(k)' <=> Source!Tests(k)
      /\ \A k : Source!Returns(k)' <=> Source!Returns(k)
  BY <1>1 DEF Source!Reads, Source!Calls, Source!Writes, Source!Tests, Source!Returns
<1>3. \A k : Source!Otherwise(k)' = Source!Otherwise(k)
  BY SameEnds DEF Source!Otherwise
<1>4. \A k : Source!Observable(k)' <=> Source!Observable(k)
  BY <1>2 DEF Source!Observable
<1>5. \A k, b : Source!Onward(k, b)' = Source!Onward(k, b)
  BY <1>2, <1>3, SameEnds DEF Source!Onward
<1>6. ASSUME NEW k, NEW b, Source!Observable(k)
      PROVE  Source!EventAt(k, b)' = Source!EventAt(k, b)
  <2>1. /\ Source!Reads(k)' <=> Source!Reads(k)
        /\ Source!Calls(k)' <=> Source!Calls(k)
        /\ Source!Writes(k)' <=> Source!Writes(k)
        /\ Source!Tests(k)' <=> Source!Tests(k)
        /\ Source!Returns(k)' <=> Source!Returns(k)
    BY <1>2
  <2>2. Source!Target(Source!StmtOf(k))' = Source!Target(Source!StmtOf(k))
    BY SameEnds DEF Source!Target
  <2>3. Source!Store(Source!Target(Source!StmtOf(k)))' = Source!Store(Source!Target(Source!StmtOf(k)))
    BY <2>2 DEF Source!Store, Source!Event
  <2>4. Source!Load(syntax[k].decl)' = Source!Load(syntax[k].decl)
    BY DEF Source!Load, Source!Event
  <2>5. Source!CallOf(syntax[k].def)' = Source!CallOf(syntax[k].def)
    BY DEF Source!CallOf, Source!Event
  <2>6. Source!Test(b)' = Source!Test(b) /\ Source!Returned' = Source!Returned
    BY DEF Source!Test, Source!Returned, Source!Event
  <2>. QED  BY <1>6, <2>1, <2>2, <2>3, <2>4, <2>5, <2>6 DEF Source!EventAt, Source!Observable
<1>. QED  BY <1>2, <1>4, <1>5, <1>6

LEMMA SameTrace ==
  ASSUME syntax' = syntax
  PROVE  /\ \A x, z : Leads(x, z)' <=> Leads(x, z)
         /\ \A en, p, b : Traced(en, p, b)' <=> Traced(en, p, b)
         /\ \A en, bs : CodeOK(en, bs)' <=> CodeOK(en, bs)
         /\ \A en, bs, b, k : EndsAt(en, bs, b, k)' <=> EndsAt(en, bs, b, k)
<1>1. \A k : Silent(k)' <=> Silent(k)
  BY SameNodes DEF Silent
<1>2. \A x, z : Leads(x, z)' <=> Leads(x, z)
  BY <1>1, SameNodes DEF Leads
<1>3. ASSUME NEW en, NEW l, NEW i, NEW m
      PROVE  Moves(en, l, i, m)' <=> Moves(en, l, i, m)
  <2>1. Does(i)' = Does(i)
    BY DEF Does, Source!Load, Source!Store, Source!CallOf, Source!Returned, Source!Event
  <2>2. \A k : /\ Leads(l, k)' <=> Leads(l, k)
               /\ Source!Observable(k)' <=> Source!Observable(k)
               /\ Source!Observable(k) => Source!EventAt(k, FALSE)' = Source!EventAt(k, FALSE)
               /\ Source!Onward(k, FALSE)' = Source!Onward(k, FALSE)
               /\ Source!Onward(k, TRUE)' = Source!Onward(k, TRUE)
               /\ Source!Tests(k)' <=> Source!Tests(k)
    BY <1>2, SameNodes
  <2>3. Leads(l, IF i.to = <<>> THEN m ELSE en[i.to[1]])'
          <=> Leads(l, IF i.to = <<>> THEN m ELSE en[i.to[1]])
    BY <1>2
  <2>4. (\E k \in DOMAIN syntax :
            /\ Leads(l, k) /\ Source!Observable(k)
            /\ Source!EventAt(k, FALSE) = Does(i) /\ m = Source!Onward(k, FALSE))'
        <=> (\E k \in DOMAIN syntax :
                /\ Leads(l, k) /\ Source!Observable(k)
                /\ Source!EventAt(k, FALSE) = Does(i) /\ m = Source!Onward(k, FALSE))
    BY <2>1, <2>2
  <2>5. (\E k \in DOMAIN syntax :
            /\ Leads(l, k) /\ Source!Tests(k)
            /\ en[i.to[1]] = Source!Onward(k, TRUE)
            /\ en[i.to[Len(i.to)]] = Source!Onward(k, FALSE))'
        <=> (\E k \in DOMAIN syntax :
                /\ Leads(l, k) /\ Source!Tests(k)
                /\ en[i.to[1]] = Source!Onward(k, TRUE)
                /\ en[i.to[Len(i.to)]] = Source!Onward(k, FALSE))
    BY <2>2
  <2>. QED  BY <2>3, <2>4, <2>5 DEF Moves
<1>4. \A en, p, b : Traced(en, p, b)' <=> Traced(en, p, b)
  BY <1>3 DEF Traced
<1>5. \A en, l, b, m : Takes(en, l, b, m)' <=> Takes(en, l, b, m)
  BY <1>4 DEF Takes
<1>6. \A en, bs : CodeOK(en, bs)' <=> CodeOK(en, bs)
  BY <1>5 DEF CodeOK
<1>7. \A en, bs, b, k : EndsAt(en, bs, b, k)' <=> EndsAt(en, bs, b, k)
  BY <1>2, <1>5 DEF EndsAt
<1>. QED  BY <1>2, <1>4, <1>6, <1>7

LEMMA SameBuilt ==
  ASSUME syntax' = syntax
  PROVE  /\ \A f : IsBody(f)' <=> IsBody(f)
         /\ \A f, bs, ins, fs, k : Built(f, bs, ins, fs, k)' <=> Built(f, bs, ins, fs, k)
         /\ \A f, bs : Compiled(f, bs)' <=> Compiled(f, bs)
<1>1. \A f : IsBody(f)' <=> IsBody(f)
  BY DEF IsBody
<1>2. \A a, b : Shut(a, b)' <=> Shut(a, b)
  BY DEF Shut
<1>3. \A en, fr, e : FrameFits(en, fr, e)' <=> FrameFits(en, fr, e)
  BY <1>2, SameEnds DEF FrameFits
<1>4. \A en, fs, k : Fits(en, fs, k)' <=> Fits(en, fs, k)
  BY <1>3 DEF Fits
<1>5. \A en, f, bs, ins, fs, k : Follows(en, f, bs, ins, fs, k)' <=> Follows(en, f, bs, ins, fs, k)
  BY <1>4, SameTrace DEF Follows
<1>6. \A f, bs, ins, fs, k : Built(f, bs, ins, fs, k)' <=> Built(f, bs, ins, fs, k)
  BY <1>5 DEF Built
<1>7. \A f, bs : Compiled(f, bs)' <=> Compiled(f, bs)
  BY <1>1, SameTrace DEF Compiled
<1>. QED  BY <1>1, <1>6, <1>7

(* What is known of the current function.                                  *)
LEMMA Building ==
  ASSUME TypeInv, InsertOK, TablesOK, TraceInv, frames # <<>>
  PROVE  /\ frames \in Seq(Frames) /\ Last(frames) \in Frames
         /\ blocks \in Seq(Blocks) /\ insert \in DOMAIN blocks
         /\ Len(blocks) \in Nat \ {0} /\ blocks # <<>> /\ DOMAIN blocks = 1 .. Len(blocks)
         /\ cursor \in Nat \ {0} /\ syntax \in Seq(Nodes) /\ TypeOK
         /\ frames[1].node \in Nat /\ IsBody(frames[1].node)
         /\ PendingOK(frames, blocks, insert) /\ Inside(blocks, Len(blocks))
         /\ \A i \in DOMAIN frames : FrameOK(frames[i], Len(blocks))
         /\ FrameOK(Last(frames), Len(blocks))
         /\ \A b \in Pending(Last(frames)) : b \in 2 .. Len(blocks) /\ b # insert /\ blocks[b] = <<>>
         /\ \E en : Follows(en, frames[1].node, blocks, insert, frames, cursor)
<1>1. /\ frames \in Seq(Frames) /\ blocks \in Seq(Blocks) /\ insert \in DOMAIN blocks
      /\ cursor \in Nat \ {0} /\ syntax \in Seq(Nodes) /\ TypeOK
  BY DEF TypeInv, TypeOK, InsertOK
<1>2. Len(blocks) \in Nat \ {0} /\ blocks # <<>> /\ DOMAIN blocks = 1 .. Len(blocks)
  BY <1>1
<1>3. /\ Last(frames) \in Frames /\ Last(frames) = frames[Len(frames)] /\ Len(frames) \in DOMAIN frames
  BY <1>1, LastFrame
<1>4. frames[1].node \in Nat
  BY DEF TablesOK
<1>5. /\ IsBody(frames[1].node) /\ PendingOK(frames, blocks, insert) /\ Inside(blocks, Len(blocks))
      /\ \E en : Follows(en, frames[1].node, blocks, insert, frames, cursor)
  BY DEF TraceInv, Built
<1>6. /\ \A i \in DOMAIN frames : FrameOK(frames[i], Len(blocks))
      /\ \A i \in DOMAIN frames : \A b \in Pending(frames[i]) :
           b \in 2 .. Len(blocks) /\ b # insert /\ blocks[b] = <<>>
  BY <1>5 DEF PendingOK
<1>. QED  BY <1>1, <1>2, <1>3, <1>4, <1>5, <1>6

(* A step in a function.                                                   *)
LEMMA BuiltStep ==
  ASSUME TraceInv, frames # <<>>, syntax' = syntax, module' = module, cursor' = cursor + 1,
         frames' # <<>> => frames'[1].node = frames[1].node,
         Built(frames[1].node, blocks', insert', frames', cursor + 1)
  PROVE  TraceInv'
<1>1. IsBody(frames[1].node) /\ \A m \in DOMAIN module : Compiled(module[m].def, module[m].blocks)
  BY DEF TraceInv
<1>2. /\ \A f : IsBody(f)' <=> IsBody(f)
      /\ \A f, bs, ins, fs, k : Built(f, bs, ins, fs, k)' <=> Built(f, bs, ins, fs, k)
      /\ \A f, bs : Compiled(f, bs)' <=> Compiled(f, bs)
  BY SameBuilt
<1>. QED  BY <1>1, <1>2 DEF TraceInv

LEMMA BuiltSame ==
  ASSUME TraceInv, UNCHANGED <<syntax, cursor, frames, blocks, insert, module>>
  PROVE  TraceInv'
  BY SameBuilt DEF TraceInv

(* Blocks that are still to be created get points.                         *)
LEMMA FitsMoreBlocks ==
  ASSUME NEW bs \in Seq(Blocks), NEW fs \in Seq(Frames), NEW ins \in DOMAIN bs, NEW k,
         PendingOK(fs, bs, ins), NEW en, Fits(en, fs, k), NEW to, Agree(en, to, Len(bs))
  PROVE  Fits(to, fs, k)
<1>. SUFFICES ASSUME NEW t \in DOMAIN fs
              PROVE  FrameFits(to, fs[t], EndOf(fs, t, k))
  BY DEF Fits
<1>1. fs[t] \in Frames /\ FrameOK(fs[t], Len(bs)) /\ Len(bs) \in Nat
  BY DEF PendingOK
<1>2. \A b \in Pending(fs[t]) : b \in 2 .. Len(bs)
  BY DEF PendingOK
<1>3. FrameFits(en, fs[t], EndOf(fs, t, k))
  BY DEF Fits
<1>. QED  BY <1>1, <1>2, <1>3, FitsAgree

(* A statement is started that generates nothing before its expression.    *)
LEMMA TraceVisitExpOf ==
  ASSUME TypeInv, InsertOK, TablesOK, TraceInv,
         NEW kind \in {"Return", "CallStmt", "If", "Seq", "Assign"},
         NEW pc \in PlainPoints, pc = "IfCond" <=> kind = "If", pc # "WhileCond",
         VisitExpOf(kind, pc)
  PROVE  TraceInv'
<1>1. /\ At(frames, StmtPoints) /\ frames # <<>> /\ cursor \in Nat \ {0} /\ cursor \in DOMAIN syntax
      /\ syntax[cursor].n = kind
      /\ cursor' = cursor + 1 /\ UNCHANGED <<syntax, blocks, insert, module>>
      /\ frames' = Enter(frames, NewFrame(pc, 0))
  BY ReadingNode DEF VisitExpOf, VisitStmt, TypeInv, TypeOK, At
<1>. DEFINE fr == NewFrame(pc, 0)
<1>2. fr \in Frames /\ fr.pc = pc /\ fr.node = cursor
  BY <1>1, NewFrameType DEF PlainPoints, ControlPoints, StmtPoints, ExpPoints
<1>. HIDE DEF fr
<1>3. pc \notin LoopPoints \cup BodyPoints /\ Pending(fr) = {} /\ FrameOK(fr, Len(blocks))
  BY <1>2 DEF PlainPoints, ExpPoints, Pending, FrameOK, LoopPoints, BodyPoints, ThenPoints, ElsePoints
<1>4. PendingOK(frames', blocks, insert)
  <2>1. Covered(frames, frames', Len(blocks))
    BY <1>1, <1>2, <1>3, Building, CoveredEntered DEF fr
  <2>. QED  BY <1>1, <2>1, Building, NotCurrent, PendingKept
<1>5. PICK en : Follows(en, frames[1].node, blocks, insert, frames, cursor)
  BY <1>1, Building
<1>6. FrameFits(en, fr, cursor)
  <2>1. Shut(cursor + 1, cursor) /\ cursor \in 1 .. cursor
    BY <1>1, ShutEmpty
  <2>2. pc \notin ElsePoints /\ pc \notin ThenPoints /\ pc \notin LoopPoints
    BY <1>3 DEF BodyPoints
  <2>3. kind # "While" /\ kind \in Openers
    BY DEF Openers
  <2>4. pc \in {"IfCond"} \cup BodyPoints <=> pc = "IfCond"
    BY <1>3
  <2>5. pc \notin {"WhileBody", "BodyEnd"}
    BY <2>2 DEF LoopPoints
  <2>. QED  BY <1>1, <1>2, <2>1, <2>2, <2>3, <2>4, <2>5 DEF FrameFits
<1>7. Fits(en, frames', cursor + 1)
  BY <1>1, <1>2, <1>5, <1>6, Building, FitsEntered DEF Follows, fr
<1>8. EndsAt(en, blocks, insert, cursor + 1)
  <2>1. Silent(cursor) /\ Source!Onward(cursor, FALSE) = cursor + 1
    BY <1>1, SilentStmt
  <2>2. EndsAt(en, blocks, insert, cursor)
    BY <1>5 DEF Follows
  <2>3. EndsAt(en, blocks, insert, Source!Onward(cursor, FALSE))
    BY <2>1, <2>2, EndsOn
  <2>. QED  BY <2>1, <2>3
<1>9. Built(frames[1].node, blocks, insert, frames', cursor + 1)
  BY <1>1, <1>4, <1>5, <1>7, <1>8, Building DEF Built, Follows
<1>10. frames'[1].node = frames[1].node
  BY <1>1, <1>2, Building, EnteredOutermost DEF fr
<1>. QED  BY <1>1, <1>9, <1>10, BuiltStep

(* A declaration: its storage is allocated in front of everything.         *)
LEMMA TraceVisitDecl ==
  ASSUME TypeInv, InsertOK, TablesOK, TraceInv, VisitDecl
  PROVE  TraceInv'
<1>. DEFINE node == syntax[cursor]
            decl == LocalDecl(cursor, node.name, node.type)
            i    == Access("alloca", <<>>, decl)
            fr   == NewFrame("DeclInit", 0)
            f    == frames[1].node
<1>1. /\ At(frames, StmtPoints) /\ frames # <<>> /\ frames \in Seq(Frames) /\ cursor \in Nat \ {0}
      /\ cursor \in DOMAIN syntax /\ node \in Nodes /\ node.n = "Decl"
      /\ cursor' = cursor + 1 /\ UNCHANGED <<syntax, insert, module>>
      /\ blocks' = [blocks EXCEPT ![1] = <<i>> \o @]
      /\ frames' = IF node.init THEN Enter(frames, fr) ELSE Resume(frames)
  BY ReadingNode DEF VisitDecl, VisitStmt, TypeInv, TypeOK, At
<1>2. fr \in Frames /\ fr.pc = "DeclInit" /\ fr.node = cursor /\ fr.pc \in ExpPoints
  BY <1>1, NewFrameType, Waiting
<1>3. i \in Instrs /\ i.op = "alloca" /\ i.op \notin EventOps \cup Terminators /\ i.to = <<>>
  <2>1. decl \in VarDecls
    BY <1>1, NodeKinds, LocalDeclType
  <2>2. i.op = "alloca" /\ i.to = <<>>
    BY DEF Access, Instr
  <2>. HIDE DEF i
  <2>. QED  BY <2>1, <2>2, SomeInstrs DEF Terminators, EventOps, i
<1>. HIDE DEF fr, i, decl
<1>4. /\ Len(blocks') = Len(blocks)
      /\ \A b \in DOMAIN blocks : b # 1 => blocks'[b] = blocks[b]
      /\ Inside(blocks', Len(blocks'))
  BY <1>1, <1>3, AllocaClean, Building
<1>5. PICK en : Follows(en, f, blocks, insert, frames, cursor)
  BY <1>1, Building
<1>6. CodeOK(en, blocks') /\ EndsAt(en, blocks', insert, cursor + 1)
  <2>1. 1 \in DOMAIN blocks
    BY <1>1, Building
  <2>2. /\ CodeOK(en, blocks')
        /\ \A d \in DOMAIN blocks : \A k : EndsAt(en, blocks, d, k) => EndsAt(en, blocks', d, k)
    BY <1>1, <1>3, <1>5, <2>1, CodeBefore, Building DEF Follows
  <2>3. EndsAt(en, blocks', insert, cursor)
    BY <1>1, <1>5, <2>2, Building DEF Follows
  <2>4. Silent(cursor) /\ Source!Onward(cursor, FALSE) = cursor + 1
    BY <1>1, SilentStmt
  <2>5. EndsAt(en, blocks', insert, Source!Onward(cursor, FALSE))
    BY <2>3, <2>4, EndsOn
  <2>. QED  BY <2>2, <2>4, <2>5
<1>7. \A b \in 2 .. Len(blocks) : b # insert => blocks'[b] = blocks[b]
  <2>1. \A b \in 2 .. Len(blocks) : b # 1 /\ b \in DOMAIN blocks
    BY <1>1, Building
  <2>. QED  BY <1>4, <2>1
<1>8. Covered(frames, frames', Len(blocks)) /\ frames'[1].node = f /\ Fits(en, frames', cursor + 1)
  <2>1. /\ FrameOK(fr, Len(blocks)) /\ Pending(fr) = {}
    BY <1>2 DEF FrameOK, Pending, LoopPoints, ThenPoints, ElsePoints
  <2>2. FrameFits(en, fr, cursor)
    <3>1. Shut(cursor + 1, cursor) /\ cursor \in 1 .. cursor
      BY <1>1, ShutEmpty
    <3>2. "DeclInit" \notin LoopPoints \cup BodyPoints \cup {"IfCond"} \cup ElsePoints \cup ThenPoints
      BY DEF LoopPoints, BodyPoints, ElsePoints, ThenPoints
    <3>. QED  BY <1>1, <1>2, <3>1, <3>2 DEF FrameFits, Openers, LoopPoints
  <2>3. CASE node.init
    <3>1. frames' = Enter(frames, fr)
      BY <1>1, <2>3
    <3>2. Covered(frames, frames', Len(blocks))
      BY <1>1, <1>2, <2>1, <3>1, Building, CoveredEntered
    <3>3. frames'[1].node = f
      BY <1>1, <1>2, <3>1, EnteredOutermost
    <3>4. Fits(en, frames', cursor + 1)
      BY <1>1, <1>2, <1>5, <2>2, <3>1, FitsEntered DEF Follows
    <3>. QED  BY <3>2, <3>3, <3>4
  <2>4. CASE ~node.init
    <3>1. frames' = Resume(frames)
      BY <1>1, <2>4
    <3>2. Covered(frames, frames', Len(blocks))
      BY <1>1, <3>1, Building, CoveredEntered
    <3>3. frames'[1].node = f
      BY <1>1, <3>1, EnteredOutermost
    <3>4. Fits(en, frames', cursor + 1)
      <4>1. Fits(en, Resume(frames), cursor)
        BY <1>1, <1>5, FitsResumed DEF Follows
      <4>2. Resume(frames) \in Seq(Frames) /\ Resume(frames) # <<>>
        BY <1>1, <1>2, EnterFrames, EnteredOutermost
      <4>3. PlainNode(cursor)
        BY <1>1 DEF PlainNode
      <4>. QED  BY <1>1, <3>1, <4>1, <4>2, <4>3, FitsMore
    <3>. QED  BY <3>2, <3>3, <3>4
  <2>. QED  BY <2>3, <2>4
<1>9. PendingOK(frames', blocks', insert)
  <2>1. Len(blocks) \in Nat /\ Len(blocks') \in Nat /\ Len(blocks) <= Len(blocks')
    BY <1>1, <1>4, Building
  <2>2. PendingOK(frames, blocks, insert) /\ Covered(frames, frames', Len(blocks'))
    BY <1>1, <1>4, <1>8, Building
  <2>3. \A t \in DOMAIN frames' : insert \notin Pending(frames'[t])
    BY <2>2, NotCurrent
  <2>. QED  BY <1>7, <2>1, <2>2, <2>3, PendingKept
<1>10. Built(f, blocks', insert', frames', cursor + 1)
  <2>1. Follows(en, f, blocks', insert, frames', cursor + 1)
    BY <1>5, <1>6, <1>8 DEF Follows
  <2>. QED  BY <1>1, <1>4, <1>9, <2>1 DEF Built
<1>. QED  BY <1>1, <1>8, <1>10, BuiltStep

(* A sequence of statements ends.                                          *)
LEMMA TraceEndSeq ==
  ASSUME TypeInv, InsertOK, TablesOK, TraceInv, EndSeq
  PROVE  TraceInv'
<1>. DEFINE f == frames[1].node
<1>1. /\ frames # <<>> /\ frames \in Seq(Frames) /\ Last(frames).pc = "Seq" /\ cursor \in Nat \ {0}
      /\ cursor \in DOMAIN syntax /\ syntax[cursor].n = "EndSeq"
      /\ cursor' = cursor + 1 /\ UNCHANGED <<syntax, blocks, insert, module>>
      /\ frames' = Front(frames)
  BY ReadingNode DEF EndSeq, EndVisit, TypeInv, TypeOK, At
<1>2. PICK en : Follows(en, f, blocks, insert, frames, cursor)
  BY <1>1, Building
<1>3. Fits(en, frames', cursor + 1)
  <2>. DEFINE s == Last(frames).node
  <2>1. FrameFits(en, Last(frames), cursor - 1)
    BY <1>1, <1>2, FitsSplit DEF Follows
  <2>2. "Seq" \notin LoopPoints \cup BodyPoints \cup {"IfCond"} \cup ElsePoints
    BY DEF LoopPoints, BodyPoints, ElsePoints, ThenPoints
  <2>3. /\ s \in 1 .. cursor - 1 /\ syntax[s].n \in Openers /\ syntax[s].n \notin {"While", "If"}
        /\ Shut(s + 1, cursor - 1)
    BY <1>1, <2>1, <2>2 DEF FrameFits
  <2>4. PlainNode(s) /\ PlainNode(cursor)
    BY <1>1, <2>3 DEF PlainNode, Openers
  <2>. HIDE DEF s
  <2>5. s \in Nat /\ s > 0 /\ s < cursor /\ s \in 1 .. cursor /\ cursor \in Nat
    BY <1>1, <2>3
  <2>6. Shut(s, cursor)
    BY <2>3, <2>4, <2>5, ShutAround
  <2>. QED  BY <1>1, <1>2, <2>5, <2>6, FitsPopped DEF Follows, s
<1>4. EndsAt(en, blocks, insert, cursor + 1)
  <2>1. Silent(cursor) /\ Source!Onward(cursor, FALSE) = cursor + 1
    BY <1>1, SilentStmt
  <2>2. EndsAt(en, blocks, insert, Source!Onward(cursor, FALSE))
    BY <1>2, <2>1, EndsOn DEF Follows
  <2>. QED  BY <2>1, <2>2
<1>5. PendingOK(frames', blocks, insert)
  <2>1. Covered(frames, frames', Len(blocks))
    BY <1>1, Building, CoveredMoved
  <2>. QED  BY <1>1, <2>1, NotCurrent, PendingKept, Building
<1>6. Built(f, blocks', insert', frames', cursor + 1)
  BY <1>1, <1>2, <1>3, <1>4, <1>5, Building DEF Follows, Built
<1>7. frames' # <<>> => frames'[1].node = f
  BY <1>1, PoppedOutermost
<1>. QED  BY <1>1, <1>6, <1>7, BuiltStep

(* A branch to a block that stands for the same, unless there is one.      *)
LEMMA BranchCode ==
  ASSUME blocks \in Seq(Blocks), insert \in DOMAIN blocks, NEW en, NEW k,
         CodeOK(en, blocks), EndsAt(en, blocks, insert, k),
         NEW to \in Nat, Leads(k, en[to])
  PROVE  CodeOK(en, Put(<<Jump("br", <<>>, <<to>>)>>)) /\ CodeOK(en, BranchUnlessTerminated(to))
<1>. DEFINE br == Jump("br", <<>>, <<to>>)
<1>1. br.op = "br" /\ br.to = <<to>>
  BY DEF Jump, Instr
<1>2. br \in Instrs
  <2>1. <<br>> \in Seq(Instrs)
    BY SomeInstrs
  <2>. HIDE DEF br
  <2>2. 1 \in DOMAIN <<br>> /\ <<br>>[1] = br
    OBVIOUS
  <2>. QED  BY <2>1, <2>2
<1>. HIDE DEF br
<1>3. Moves(en, k, br, k)
  BY <1>1 DEF Moves, EventOps
<1>4. CodeOK(en, [blocks EXCEPT ![insert] = @ \o <<br>>])
  BY <1>2, <1>3, CodeMore
<1>. QED  BY <1>4 DEF Put, BranchUnlessTerminated, br

(* The head of a loop.                                                     *)
LEMMA TraceVisitWhile ==
  ASSUME TypeInv, InsertOK, TablesOK, TraceInv, VisitWhile
  PROVE  TraceInv'
<1>. DEFINE len  == Len(blocks)
            loop == len + 1
            fr   == NewFrame("WhileCond", loop)
            put  == Put(<<Jump("br", <<>>, <<loop>>)>>)
            f    == frames[1].node
<1>1. /\ At(frames, StmtPoints) /\ frames # <<>> /\ frames \in Seq(Frames) /\ cursor \in Nat \ {0}
      /\ cursor \in DOMAIN syntax /\ syntax[cursor].n = "While"
      /\ cursor' = cursor + 1 /\ UNCHANGED <<syntax, module>> /\ insert' = loop
      /\ blocks' = Append(put, <<>>) /\ frames' = Enter(frames, fr)
  BY ReadingNode DEF VisitWhile, VisitStmt, TypeInv, TypeOK, At
<1>2. /\ len \in Nat \ {0} /\ loop \in Nat /\ loop > len /\ loop \in 2 .. loop /\ len <= loop
      /\ 1 \in 1 .. len /\ len \in Nat
  BY <1>1, Building
<1>. HIDE DEF len
<1>3. fr \in Frames /\ fr.pc = "WhileCond" /\ fr.node = cursor /\ fr.pc \in ExpPoints /\ fr.loop = loop
  <2>. HIDE DEF loop
  <2>. QED  BY <1>1, <1>2, NewFrameType, Waiting DEF NewFrame
<1>. HIDE DEF fr
<1>4. PICK en : Follows(en, f, blocks, insert, frames, cursor)
  BY <1>1, Building
<1>. DEFINE to == [b \in 1 .. loop |-> IF b = loop THEN cursor + 1 ELSE en[b]]
<1>5. Agree(en, to, len) /\ to[loop] = cursor + 1 /\ to[1] = f + 1
  <2>1. loop \in 1 .. loop /\ \A b \in 1 .. len : b \in 1 .. loop /\ b # loop
    BY <1>2
  <2>. HIDE DEF loop
  <2>2. to[loop] = cursor + 1 /\ \A b \in 1 .. len : to[b] = en[b]
    BY <2>1
  <2>. HIDE DEF to
  <2>. QED  BY <1>2, <1>4, <2>2 DEF Agree, Follows
<1>. HIDE DEF loop, to
<1>6. CodeOK(to, blocks) /\ EndsAt(to, blocks, insert, cursor) /\ Fits(to, frames, cursor)
  <2>1. /\ blocks \in Seq(Blocks) /\ Inside(blocks, Len(blocks)) /\ insert \in DOMAIN blocks
        /\ Agree(en, to, Len(blocks)) /\ PendingOK(frames, blocks, insert)
    BY <1>1, <1>5, Building DEF len
  <2>2. CodeOK(en, blocks) /\ EndsAt(en, blocks, insert, cursor) /\ Fits(en, frames, cursor)
    BY <1>4 DEF Follows
  <2>3. CodeOK(to, blocks) /\ EndsAt(to, blocks, insert, cursor)
    BY <2>1, <2>2, CodeAgree
  <2>4. Fits(to, frames, cursor)
    BY <1>1, <2>1, <2>2, FitsMoreBlocks
  <2>. QED  BY <2>3, <2>4
<1>7. /\ put \in Seq(Blocks) /\ Len(put) = len
      /\ \A b \in DOMAIN blocks : b # insert => put[b] = blocks[b]
      /\ Inside(put, loop)
  <2>1. Inside(blocks, loop)
    BY <1>1, <1>2, Building, InsideMore DEF len
  <2>. QED  BY <1>1, <1>2, <2>1, PutBranch, Building DEF len
<1>8. CodeOK(to, put)
  <2>1. Leads(cursor, to[loop])
    <3>1. Silent(cursor) /\ Source!Onward(cursor, FALSE) = cursor + 1
      BY <1>1, SilentStmt
    <3>2. Leads(cursor, cursor)
      BY LeadsSelf
    <3>3. Leads(cursor, Source!Onward(cursor, FALSE))
      BY <3>1, <3>2, LeadsOn
    <3>. QED  BY <1>5, <3>1, <3>3
  <2>. QED  BY <1>1, <1>2, <1>6, <2>1, BranchCode, Building
<1>. HIDE DEF put
<1>9. /\ Len(blocks') = loop
      /\ \A b \in 1 .. len : blocks'[b] = put[b]
      /\ blocks'[loop] = <<>>
      /\ Inside(blocks', loop) /\ CodeOK(to, blocks')
  <2>. DEFINE new == << <<>> >>
  <2>1. new \in [1 .. 1 -> {<<>>}] /\ 1 \in Nat
    OBVIOUS
  <2>2. blocks' = put \o new
    BY <1>1, <1>7
  <2>. HIDE DEF new
  <2>3. /\ Len(blocks') = len + 1
        /\ \A b \in 1 .. len : blocks'[b] = put[b]
        /\ \A b \in len + 1 .. len + 1 : blocks'[b] = <<>>
        /\ \A m : Inside(put, m) => Inside(blocks', m)
    BY <1>7, <2>1, <2>2, NewBlocksClean
  <2>4. loop \in len + 1 .. len + 1 /\ loop = len + 1
    BY <1>2 DEF loop
  <2>5. CodeOK(to, blocks')
    <3>1. CodeOK(to, put \o new)
      BY <1>7, <1>8, <2>1, CodeNew
    <3>. QED  BY <2>2, <3>1
  <2>. QED  BY <1>7, <2>3, <2>4, <2>5
<1>10. /\ FrameOK(fr, loop) /\ Pending(fr) = {}
       /\ \A i \in DOMAIN frames : FrameOK(frames[i], loop)
  <2>1. /\ FrameOK(fr, loop)
    BY <1>2, <1>3 DEF FrameOK
  <2>2. Pending(fr) = {}
    BY <1>3 DEF Pending, ThenPoints, ElsePoints
  <2>3. \A i \in DOMAIN frames : FrameOK(frames[i], loop)
    BY <1>1, <1>2, Building, FrameMore DEF len
  <2>. QED  BY <2>1, <2>2, <2>3
<1>11. PendingOK(frames', blocks', loop)
  <2>1. Covered(frames, frames', loop)
    BY <1>1, <1>3, <1>10, CoveredEntered
  <2>2. PendingOK(frames, blocks, insert)
    BY <1>1, Building
  <2>3. \A i \in DOMAIN frames' : loop \notin Pending(frames'[i])
    <3>1. \A i \in DOMAIN frames : loop \notin Pending(frames[i])
      <4>1. loop \notin 2 .. len
        BY <1>2
      <4>. QED  BY <2>2, <4>1 DEF PendingOK, len
    <3>. QED  BY <2>1, <3>1 DEF Covered
  <2>4. \A b \in 2 .. len : b # insert => blocks'[b] = blocks[b]
    <3>1. \A b \in 2 .. len : b \in 1 .. len /\ b \in DOMAIN blocks
      BY <1>1, <1>2, Building DEF len
    <3>. QED  BY <1>7, <1>9, <3>1
  <2>. QED  BY <1>2, <1>9, <2>1, <2>2, <2>3, <2>4, PendingKept DEF len
<1>12. Fits(to, frames', cursor + 1)
  <2>1. Shut(cursor + 1, cursor) /\ cursor \in 1 .. cursor
    BY <1>1, ShutEmpty
  <2>2. "WhileCond" \in LoopPoints /\ "WhileCond" \notin BodyPoints \cup {"IfCond"} \cup ElsePoints \cup ThenPoints
    BY DEF LoopPoints, BodyPoints, ElsePoints, ThenPoints
  <2>3. FrameFits(to, fr, cursor)
    BY <1>1, <1>3, <1>5, <2>1, <2>2 DEF FrameFits, Openers
  <2>. QED  BY <1>1, <1>3, <1>6, <2>3, FitsEntered
<1>13. EndsAt(to, blocks', loop, cursor + 1)
  BY <1>5, <1>9, EndsEmpty
<1>14. Built(f, blocks', insert', frames', cursor + 1)
  <2>1. Follows(to, f, blocks', loop, frames', cursor + 1)
    BY <1>5, <1>9, <1>12, <1>13 DEF Follows
  <2>. QED  BY <1>1, <1>9, <1>11, <2>1 DEF Built
<1>15. frames'[1].node = f
  BY <1>1, <1>3, EnteredOutermost
<1>. QED  BY <1>1, <1>14, <1>15, BuiltStep

(* Code generation goes on in a block that waits.                          *)
LEMMA TraceContinues ==
  ASSUME TypeInv, InsertOK, TablesOK, TraceInv, NEW to, Continues(to), Inside(blocks', Len(blocks')),
         NEW en, en[1] = frames[1].node + 1, CodeOK(en, blocks'),
         EndsAt(en, blocks', to, cursor + 1), Fits(en, frames', cursor + 1)
  PROVE  TraceInv'
<1>1. frames # <<>> /\ cursor' = cursor + 1 /\ UNCHANGED <<syntax, module>>
  BY DEF Continues
<1>2. /\ (frames' # <<>> => frames'[1].node = frames[1].node)
      /\ PendingOK(frames', blocks', insert') /\ insert' = to
  BY <1>1, ContinuesPending, Building
<1>3. Built(frames[1].node, blocks', insert', frames', cursor + 1)
  BY <1>2 DEF Built, Follows
<1>. QED  BY <1>1, <1>2, <1>3, BuiltStep

(* What is known of the statement that contains the one that has ended.    *)
LEMMA Innermost ==
  ASSUME TypeInv, InsertOK, TablesOK, TraceInv, frames # <<>>, NEW kind, Reading(kind)
  PROVE  /\ cursor \in Nat \ {0} /\ cursor \in Nat /\ cursor \in DOMAIN syntax /\ cursor <= Len(syntax)
         /\ syntax \in Seq(Nodes) /\ syntax[cursor].n = kind
         /\ Last(frames) \in Frames /\ FrameOK(Last(frames), Len(blocks))
         /\ LET s == Last(frames).node
            IN s \in Nat /\ s > 0 /\ s < cursor /\ s \in 1 .. cursor - 1 /\ s \in 1 .. cursor /\ s \in DOMAIN syntax
         /\ \E en : /\ Follows(en, frames[1].node, blocks, insert, frames, cursor)
                    /\ FrameFits(en, Last(frames), cursor - 1)
                    /\ Fits(en, Front(frames), Last(frames).node)
<1>1. /\ cursor \in Nat \ {0} /\ cursor \in DOMAIN syntax /\ syntax \in Seq(Nodes)
      /\ syntax[cursor].n = kind
  BY ReadingNode DEF TypeInv, TypeOK
<1>2. cursor \in Nat /\ cursor <= Len(syntax) /\ DOMAIN syntax = 1 .. Len(syntax) /\ Len(syntax) \in Nat
  BY <1>1
<1>3. PICK en : Follows(en, frames[1].node, blocks, insert, frames, cursor)
  BY Building
<1>4. FrameFits(en, Last(frames), cursor - 1) /\ Fits(en, Front(frames), Last(frames).node)
  BY <1>3, FitsSplit, Building DEF Follows
<1>5. Last(frames).node \in 1 .. cursor - 1
  BY <1>4 DEF FrameFits
<1>. DEFINE s == Last(frames).node
<1>6. s \in 1 .. cursor - 1
  BY <1>5
<1>. HIDE DEF s
<1>7. s \in Nat /\ s > 0 /\ s < cursor /\ s \in 1 .. cursor /\ s \in DOMAIN syntax
  BY <1>1, <1>2, <1>6
<1>8. Last(frames) \in Frames /\ FrameOK(Last(frames), Len(blocks))
  BY Building
<1>. QED  BY <1>1, <1>2, <1>3, <1>4, <1>6, <1>7, <1>8 DEF s

LEMMA TraceVisitElse ==
  ASSUME TypeInv, InsertOK, TablesOK, TraceInv, VisitElse
  PROVE  TraceInv'
<1>. DEFINE fr == Last(frames)  s == fr.node  f == frames[1].node
<1>1. /\ frames # <<>> /\ fr.pc = "ThenEnd" /\ Reading("Else") /\ fr.els # 0
      /\ cursor' = cursor + 1 /\ UNCHANGED <<syntax, module>>
      /\ blocks' = BranchUnlessTerminated(fr.join) /\ insert' = fr.els
      /\ frames' = SetPc(frames, "IfElse")
  BY DEF VisitElse, EndVisit, At
<1>2. /\ cursor \in Nat \ {0} /\ cursor \in Nat /\ cursor \in DOMAIN syntax /\ cursor <= Len(syntax)
      /\ syntax \in Seq(Nodes) /\ syntax[cursor].n = "Else"
      /\ fr \in Frames /\ FrameOK(fr, Len(blocks)) /\ frames \in Seq(Frames)
      /\ s \in Nat /\ s > 0 /\ s < cursor /\ s \in 1 .. cursor
  BY <1>1, Innermost, Building
<1>3. PICK en : /\ Follows(en, f, blocks, insert, frames, cursor)
                /\ FrameFits(en, fr, cursor - 1) /\ Fits(en, Front(frames), s)
  BY <1>1, Innermost
<1>. HIDE DEF s
<1>4. /\ syntax[s].n = "If" /\ Shut(s + 1, cursor - 1)
      /\ en[fr.els] = Source!ElseOf(s) + 1 /\ en[fr.join] = Source!EndIfOf(Source!ElseOf(s), 1)
  <2>1. "ThenEnd" \in BodyPoints /\ "ThenEnd" \in ThenPoints /\ "ThenEnd" \notin ElsePoints
    BY DEF BodyPoints, ThenPoints, ElsePoints
  <2>. QED  BY <1>1, <1>3, <2>1 DEF FrameFits, s
<1>5. Source!ElseOf(s) = cursor
  BY <1>2, <1>4, ElseIs
<1>6. /\ fr.join \in Pending(fr) /\ fr.els \in Pending(fr)
      /\ \A b \in Pending(fr) : b \in 2 .. Len(blocks) /\ b \in Nat /\ blocks[b] = <<>> /\ b # insert /\ b \in DOMAIN blocks
  <2>1. fr.join \in Pending(fr) /\ fr.els \in Pending(fr)
    BY <1>1 DEF Pending, ThenPoints
  <2>2. \A b \in Pending(fr) : b \in 2 .. Len(blocks) /\ blocks[b] = <<>> /\ b # insert
    BY <1>1, Building
  <2>3. \A b \in 2 .. Len(blocks) : b \in Nat /\ b \in DOMAIN blocks
    BY <1>1, Building
  <2>. QED  BY <2>1, <2>2, <2>3
<1>7. CodeOK(en, blocks')
  <2>1. Leads(cursor, en[fr.join])
    <3>1. Silent(cursor) /\ Source!Onward(cursor, FALSE) = Source!EndIfOf(cursor, 1)
      BY <1>2, SilentStmt
    <3>2. Leads(cursor, cursor)
      BY LeadsSelf
    <3>3. Leads(cursor, Source!Onward(cursor, FALSE))
      BY <3>1, <3>2, LeadsOn
    <3>. QED  BY <1>4, <1>5, <3>1, <3>3
  <2>. QED  BY <1>1, <1>3, <1>6, <2>1, BranchCode, Building DEF Follows
<1>8. Continues(fr.els) /\ Inside(blocks', Len(blocks')) /\ blocks'[fr.els] = <<>>
  BY <1>1, <1>2, <1>6, BranchOnce, Building DEF Continues, EndPoints
<1>9. EndsAt(en, blocks', fr.els, cursor + 1)
  <2>1. EndsAt(en, blocks', fr.els, en[fr.els])
    BY <1>8, EndsEmpty
  <2>. QED  BY <1>4, <1>5, <2>1
<1>10. Fits(en, frames', cursor + 1)
  <2>. DEFINE new == [fr EXCEPT !.pc = "IfElse"]
  <2>1. "IfElse" \in ControlPoints
    BY DEF ControlPoints, StmtPoints
  <2>2. new \in Frames /\ new.pc = "IfElse" /\ new.node = s /\ new.join = fr.join
    BY <1>2, <2>1 DEF Frames, s
  <2>3. frames' = [frames EXCEPT ![Len(frames)] = new]
    BY <1>1, <1>2, LastFrame DEF SetPc
  <2>. HIDE DEF new, fr
  <2>4. FrameFits(en, new, cursor)
    <3>1. /\ "IfElse" \in BodyPoints /\ "IfElse" \in ElsePoints
          /\ "IfElse" \notin LoopPoints \cup ThenPoints
      BY DEF BodyPoints, ThenPoints, ElsePoints, LoopPoints
    <3>2. Shut(cursor + 1, cursor) /\ cursor \in s + 1 .. cursor
      BY <1>2, ShutEmpty
    <3>. QED  BY <1>2, <1>4, <1>5, <2>2, <3>1, <3>2 DEF FrameFits, Openers, LoopPoints
  <2>5. FrameFits(en, new, (cursor + 1) - 1)
    <3>1. (cursor + 1) - 1 = cursor
      BY <1>2
    <3>. QED  BY <2>4, <3>1
  <2>. QED  BY <1>1, <1>2, <1>3, <2>2, <2>3, <2>5, FitsReplaced
<1>11. en[1] = f + 1
  BY <1>3 DEF Follows
<1>. QED  BY <1>7, <1>8, <1>9, <1>10, <1>11, TraceContinues

LEMMA TraceEndIf ==
  ASSUME TypeInv, InsertOK, TablesOK, TraceInv, EndIf
  PROVE  TraceInv'
<1>. DEFINE fr == Last(frames)  s == fr.node  f == frames[1].node  j == Source!ElseOf(s)
<1>1. /\ frames # <<>> /\ Reading("EndIf")
      /\ \/ fr.pc = "ThenEnd" /\ fr.els = 0
         \/ fr.pc = "ElseEnd"
      /\ cursor' = cursor + 1 /\ UNCHANGED <<syntax, module>>
      /\ blocks' = BranchUnlessTerminated(fr.join) /\ insert' = fr.join
      /\ frames' = Front(frames)
  BY DEF EndIf, EndVisit, At
<1>2. /\ cursor \in Nat \ {0} /\ cursor \in Nat /\ cursor \in DOMAIN syntax /\ cursor <= Len(syntax)
      /\ syntax \in Seq(Nodes) /\ syntax[cursor].n = "EndIf"
      /\ fr \in Frames /\ FrameOK(fr, Len(blocks)) /\ frames \in Seq(Frames)
      /\ s \in Nat /\ s > 0 /\ s < cursor /\ s \in 1 .. cursor
  BY <1>1, Innermost, Building
<1>3. PICK en : /\ Follows(en, f, blocks, insert, frames, cursor)
                /\ FrameFits(en, fr, cursor - 1)
  BY <1>1, Innermost
<1>4. Silent(cursor) /\ Source!Onward(cursor, FALSE) = cursor + 1
  BY <1>2, SilentStmt
<1>. HIDE DEF s, j
<1>5. Shut(s, cursor) /\ en[fr.join] \in {cursor, cursor + 1}
  <2>1. CASE fr.pc = "ThenEnd" /\ fr.els = 0
    <3>1. "ThenEnd" \in BodyPoints /\ "ThenEnd" \in ThenPoints /\ "ThenEnd" \notin ElsePoints
      BY DEF BodyPoints, ThenPoints, ElsePoints
    <3>2. /\ syntax[s].n = "If" /\ Shut(s + 1, cursor - 1)
          /\ en[fr.join] = Source!EndIfOf(s, 0) + 1
      BY <1>3, <2>1, <3>1 DEF FrameFits, s
    <3>3. Source!EndIfOf(s, 0) = cursor
      BY <1>2, <3>2, EndIfIs
    <3>4. Shut(s, cursor)
      BY <1>2, <3>2, ShutAround
    <3>. QED  BY <3>2, <3>3, <3>4
  <2>2. CASE fr.pc = "ElseEnd"
    <3>1. "ElseEnd" \in BodyPoints /\ "ElseEnd" \in ElsePoints
      BY DEF BodyPoints, ThenPoints, ElsePoints
    <3>2. /\ syntax[s].n = "If" /\ syntax[j].n = "Else" /\ j \in s + 1 .. cursor - 1
          /\ Shut(s + 1, j - 1) /\ Shut(j + 1, cursor - 1)
          /\ en[fr.join] = Source!EndIfOf(j, 1)
      BY <1>3, <2>2, <3>1 DEF FrameFits, s, j
    <3>3. j \in Nat /\ j > 0 /\ j < cursor
      BY <1>2, <3>2
    <3>4. Source!EndIfOf(j, 1) = cursor
      BY <1>2, <3>2, <3>3, EndIfIs
    <3>5. Shut(s, cursor)
      BY <1>2, <3>2, ShutElse
    <3>. QED  BY <3>2, <3>4, <3>5
  <2>. QED  BY <1>1, <2>1, <2>2
<1>6. /\ fr.join \in Pending(fr)
      /\ \A b \in Pending(fr) : b \in 2 .. Len(blocks) /\ b \in Nat /\ blocks[b] = <<>> /\ b # insert /\ b \in DOMAIN blocks
  <2>1. fr.join \in Pending(fr)
    BY <1>1 DEF Pending, ThenPoints, ElsePoints
  <2>2. \A b \in Pending(fr) : b \in 2 .. Len(blocks) /\ blocks[b] = <<>> /\ b # insert
    BY <1>1, Building
  <2>3. \A b \in 2 .. Len(blocks) : b \in Nat /\ b \in DOMAIN blocks
    BY <1>1, Building
  <2>. QED  BY <2>1, <2>2, <2>3
<1>7. CodeOK(en, blocks')
  <2>1. Leads(cursor, cursor)
    BY LeadsSelf
  <2>2. Leads(cursor, Source!Onward(cursor, FALSE))
    BY <1>4, <2>1, LeadsOn
  <2>3. Leads(cursor, en[fr.join])
    BY <1>4, <1>5, <2>1, <2>2
  <2>. QED  BY <1>1, <1>3, <1>6, <2>3, BranchCode, Building DEF Follows
<1>8. Continues(fr.join) /\ Inside(blocks', Len(blocks')) /\ blocks'[fr.join] = <<>>
  BY <1>1, <1>2, <1>6, BranchOnce, Building DEF Continues, EndPoints
<1>9. EndsAt(en, blocks', fr.join, cursor + 1)
  <2>1. EndsAt(en, blocks', fr.join, en[fr.join])
    BY <1>8, EndsEmpty
  <2>2. EndsAt(en, blocks', fr.join, cursor) => EndsAt(en, blocks', fr.join, Source!Onward(cursor, FALSE))
    BY <1>4, EndsOn
  <2>. QED  BY <1>4, <1>5, <2>1, <2>2
<1>10. Fits(en, frames', cursor + 1)
  BY <1>1, <1>2, <1>3, <1>5, FitsPopped DEF Follows, s
<1>11. en[1] = f + 1
  BY <1>3 DEF Follows
<1>. QED  BY <1>7, <1>8, <1>9, <1>10, <1>11, TraceContinues

LEMMA TraceEndWhile ==
  ASSUME TypeInv, InsertOK, TablesOK, TraceInv, EndWhile
  PROVE  TraceInv'
<1>. DEFINE fr == Last(frames)  s == fr.node  f == frames[1].node
<1>1. /\ frames # <<>> /\ Reading("EndWhile") /\ fr.pc = "BodyEnd"
      /\ cursor' = cursor + 1 /\ UNCHANGED <<syntax, module>>
      /\ blocks' = Put(<<Jump("br", <<>>, <<fr.loop>>)>>) /\ insert' = fr.join
      /\ frames' = Front(frames)
  BY DEF EndWhile, EndVisit, At
<1>2. /\ cursor \in Nat \ {0} /\ cursor \in Nat /\ cursor \in DOMAIN syntax /\ cursor <= Len(syntax)
      /\ syntax \in Seq(Nodes) /\ syntax[cursor].n = "EndWhile"
      /\ fr \in Frames /\ FrameOK(fr, Len(blocks)) /\ frames \in Seq(Frames)
      /\ s \in Nat /\ s > 0 /\ s < cursor /\ s \in 1 .. cursor /\ s \in DOMAIN syntax
  BY <1>1, Innermost, Building
<1>3. PICK en : /\ Follows(en, f, blocks, insert, frames, cursor)
                /\ FrameFits(en, fr, cursor - 1)
  BY <1>1, Innermost
<1>. HIDE DEF s
<1>4. /\ syntax[s].n = "While" /\ Shut(s + 1, cursor - 1)
      /\ en[fr.loop] = s + 1 /\ en[fr.join] = Source!EndWhileOf(s) + 1
  <2>1. "BodyEnd" \in LoopPoints /\ "BodyEnd" \notin ElsePoints
    BY DEF LoopPoints, ElsePoints
  <2>. QED  BY <1>1, <1>3, <2>1 DEF FrameFits, s
<1>5. Source!EndWhileOf(s) = cursor /\ Source!WhileOf(cursor) = s
  BY <1>2, <1>4, EndWhileIs
<1>6. /\ fr.join \in Pending(fr) /\ fr.loop \in 2 .. Len(blocks) /\ fr.loop \in Nat
      /\ \A b \in Pending(fr) : b \in 2 .. Len(blocks) /\ b \in Nat /\ blocks[b] = <<>> /\ b # insert /\ b \in DOMAIN blocks
  <2>1. fr.join \in Pending(fr) /\ fr.loop \in 2 .. Len(blocks)
    BY <1>1, <1>2 DEF Pending, FrameOK, LoopPoints, ThenPoints
  <2>2. \A b \in Pending(fr) : b \in 2 .. Len(blocks) /\ blocks[b] = <<>> /\ b # insert
    BY <1>1, Building
  <2>3. \A b \in 2 .. Len(blocks) : b \in Nat /\ b \in DOMAIN blocks
    BY <1>1, Building
  <2>. QED  BY <2>1, <2>2, <2>3
<1>7. CodeOK(en, blocks')
  <2>1. Silent(cursor) /\ Source!Onward(cursor, FALSE) = s
    BY <1>2, <1>5, SilentStmt
  <2>2. Silent(s) /\ Source!Onward(s, FALSE) = s + 1
    BY <1>2, <1>4, SilentStmt
  <2>3. Leads(cursor, cursor)
    BY LeadsSelf
  <2>4. Leads(cursor, Source!Onward(cursor, FALSE))
    BY <2>1, <2>3, LeadsOn
  <2>5. Leads(cursor, s)
    BY <2>1, <2>4
  <2>6. Leads(cursor, Source!Onward(s, FALSE))
    BY <2>2, <2>5, LeadsOn
  <2>7. Leads(cursor, en[fr.loop])
    BY <1>4, <2>2, <2>6
  <2>. QED  BY <1>1, <1>3, <1>6, <2>7, BranchCode, Building DEF Follows
<1>8. Continues(fr.join) /\ Inside(blocks', Len(blocks')) /\ blocks'[fr.join] = <<>>
  BY <1>1, <1>2, <1>6, PutBranch, Building DEF Continues, EndPoints
<1>9. EndsAt(en, blocks', fr.join, cursor + 1)
  <2>1. EndsAt(en, blocks', fr.join, en[fr.join])
    BY <1>8, EndsEmpty
  <2>. QED  BY <1>4, <1>5, <2>1
<1>10. Fits(en, frames', cursor + 1)
  <2>1. Shut(s, cursor)
    BY <1>2, <1>4, ShutAround
  <2>. QED  BY <1>1, <1>2, <1>3, <2>1, FitsPopped DEF Follows, s
<1>11. en[1] = f + 1
  BY <1>3 DEF Follows
<1>. QED  BY <1>7, <1>8, <1>9, <1>10, <1>11, TraceContinues

(* The operators are those of the language.                                *)
LEMMA SameOperators == Source!OperatorNames = OperatorNames
  BY DEF Source!OperatorNames, Source!InfixOps, OperatorNames, InfixOps

(* Expressions of which nothing is observed.                               *)
LEMMA SilentExp ==
  ASSUME NEW k \in DOMAIN syntax, syntax[k].n \in ExpNodes,
         syntax[k].n = "Var" => syntax[k].decl.kind # "kLocal",
         syntax[k].n = "Call" => syntax[k].name \in OperatorNames
  PROVE  Silent(k)
<1>1. ~Source!Reads(k) /\ ~Source!Calls(k) /\ ~Source!Writes(k) /\ ~Source!Tests(k) /\ ~Source!Returns(k)
  BY SameOperators DEF Source!Reads, Source!Calls, Source!Writes, Source!Tests, Source!Returns, ExpNodes
<1>. QED  BY <1>1 DEF Silent, Source!Observable

(* What the node at the cursor stands for in the code.                     *)
LEMMA ExpMoves ==
  ASSUME TypeInv, InsertOK, NextExp
  PROVE  \/ Abort
         \/ \E vals : Generate(vals, <<>>) /\ Silent(cursor)
         \/ \E vals : \E i \in Instrs :
              /\ Generate(vals, <<i>>) /\ i.op \notin Terminators /\ i.to = <<>>
              /\ \A en : Moves(en, cursor, i, cursor + 1)
<1>1. /\ cursor \in DOMAIN syntax /\ syntax[cursor].n \in ExpNodes /\ cursor \in Nat
      /\ Source!Onward(cursor, FALSE) = cursor + 1
  BY StraightNextExp, OnwardExp DEF TypeInv, TypeOK
<1>2. Leads(cursor, cursor) /\ (Silent(cursor) => Leads(cursor, cursor + 1))
  <2>1. Leads(cursor, cursor)
    BY LeadsSelf
  <2>2. Silent(cursor) => Leads(cursor, Source!Onward(cursor, FALSE))
    BY <2>1, LeadsOn
  <2>. QED  BY <1>1, <2>1, <2>2
<1>3. \A i \in Instrs : Silent(cursor) /\ i.op \notin EventOps \cup {"br", "condbr"} /\ i.to = <<>>
                        => \A en : Moves(en, cursor, i, cursor + 1)
  BY <1>2 DEF Moves, EventOps
<1>4. CASE VisitConst
  <2>1. \E vals : Generate(vals, <<>>)
    BY <1>4 DEF VisitConst
  <2>2. syntax[cursor].n = "Const"
    BY <1>4, ReadingNode DEF VisitConst, VisitExp, TypeInv
  <2>. QED  BY <1>1, <2>1, <2>2, SilentExp
<1>5. CASE VisitVarExp
  <2>. DEFINE decl == syntax[cursor].decl  load == Access("load", <<>>, decl)
  <2>1. decl \in VarDecls /\ syntax[cursor].n = "Var"
    BY <1>5, ReadingNode, NodeKinds DEF VisitVarExp, VisitExp, TypeInv
  <2>2. \/ Abort
        \/ \E vals : /\ decl.kind = "kLocal" => Generate(vals, <<load>>)
                     /\ decl.kind # "kLocal" => Generate(vals, <<>>)
    BY <1>5 DEF VisitVarExp
  <2>3. load \in Instrs /\ load.op = "load" /\ load.to = <<>> /\ load.ref = decl
    <3>1. load \in Instrs
      BY <2>1, SomeInstrs
    <3>. QED  BY <3>1 DEF Access, Instr
  <2>4. decl.kind = "kLocal" => \A en : Moves(en, cursor, load, cursor + 1)
    <3>. HIDE DEF load
    <3>. SUFFICES ASSUME decl.kind = "kLocal", NEW en PROVE Moves(en, cursor, load, cursor + 1)
      OBVIOUS
    <3>1. Source!Reads(cursor)
      BY <2>1 DEF Source!Reads
    <3>2. Source!Observable(cursor)
      BY <3>1 DEF Source!Observable
    <3>3. Source!EventAt(cursor, FALSE) = Source!Load(decl)
      BY <2>1, <3>1 DEF Source!EventAt, Source!Calls, Source!Writes, Source!Tests, Source!Returns
    <3>4. Does(load) = Source!Load(decl)
      BY <2>3 DEF Does
    <3>. QED  BY <1>1, <1>2, <2>3, <3>2, <3>3, <3>4 DEF Moves, EventOps
  <2>5. decl.kind # "kLocal" => Silent(cursor)
    BY <1>1, <2>1, SilentExp
  <2>6. load.op \notin Terminators
    BY <2>3 DEF Terminators
  <2>. HIDE DEF load, decl
  <2>7. \/ Abort
        \/ \E vals : decl.kind # "kLocal" /\ Generate(vals, <<>>)
        \/ \E vals : decl.kind = "kLocal" /\ Generate(vals, <<load>>)
    BY <2>2
  <2>8. CASE \E vals : decl.kind # "kLocal" /\ Generate(vals, <<>>)
    BY <2>5, <2>8
  <2>9. CASE \E vals : decl.kind = "kLocal" /\ Generate(vals, <<load>>)
    BY <2>3, <2>4, <2>6, <2>9
  <2>. QED  BY <2>7, <2>8, <2>9
<1>6. CASE VisitCallExp
  <2>. DEFINE node  == syntax[cursor]
              first == Len(values) - node.args
              args  == SubSeq(values, first + 1, Len(values))
              rest  == SubSeq(values, 1, first)
              instr == BuiltinInstr(node.name, args)
              skip  == node.name = "int" /\ args[1] = "i32"
              type  == BuiltinType(node.name, args)
              ret   == ConvertType(syntax[node.def].def.ret)
              call  == Call(args, node.def)
  <2>1. /\ node \in Nodes /\ node.n = "Call" /\ node.args <= Len(values)
        /\ node.args \in Nat /\ node.def \in Nat /\ values \in Seq(IRTypes)
    BY <1>6, ReadingNode, NodeKinds DEF VisitCallExp, VisitExp, TypeInv, TypeOK
  <2>2. args \in Seq(IRTypes) /\ Len(args) = node.args
    <3>1. first \in Nat /\ first <= Len(values) /\ Len(values) \in Nat
      BY <2>1
    <3>. QED  BY <2>1, <3>1
  <2>3. \/ Abort
        \/ /\ node.name \in OperatorNames /\ node.args >= MinArgs(node.name)
           /\ Generate(Append(rest, type), IF skip THEN <<>> ELSE <<instr>>)
        \/ node.name \notin OperatorNames /\ Generate(Append(rest, ret), <<call>>)
    BY <1>6 DEF VisitCallExp
  <2>4. ASSUME node.name \in OperatorNames, node.args >= MinArgs(node.name)
        PROVE  /\ Silent(cursor) /\ instr \in Instrs /\ instr.op \notin Terminators /\ instr.to = <<>>
               /\ \A en : Moves(en, cursor, instr, cursor + 1)
    <3>1. Silent(cursor)
      BY <1>1, <2>1, <2>4, SilentExp
    <3>2. instr.op \in {"binary", "icmp", "select", "zext"} /\ instr.to = <<>>
      <4>. HIDE DEF args
      <4>. QED  BY <2>4 DEF BuiltinInstr, Instr, OperatorNames, InfixOps, Arith, Compare
    <3>3. instr \in Instrs
      <4>1. <<instr>> \in Seq(Instrs)
        BY <2>2, <2>4, BuiltinInstrType
      <4>. HIDE DEF instr
      <4>2. 1 \in DOMAIN <<instr>> /\ <<instr>>[1] = instr
        OBVIOUS
      <4>. QED  BY <4>1, <4>2
    <3>. HIDE DEF instr
    <3>4. instr.op \notin EventOps \cup {"br", "condbr"} /\ instr.op \notin Terminators
      BY <3>2 DEF EventOps, Terminators
    <3>. QED  BY <1>3, <3>1, <3>2, <3>3, <3>4
  <2>5. /\ call \in Instrs /\ call.op = "call" /\ call.op \notin Terminators
        /\ call.to = <<>> /\ call.callee = node.def
    <3>1. "call" \in Opcodes /\ "call" \notin Terminators
      BY DEF Opcodes, Terminators
    <3>. HIDE DEF args, node
    <3>. QED  BY <2>1, <2>2, <3>1, InstrType DEF Call, Instr
  <2>. HIDE DEF instr, skip, type, ret, call, first, args, rest
  <2>6. ASSUME node.name \notin OperatorNames
        PROVE  \A en : Moves(en, cursor, call, cursor + 1)
    <3>1. Source!Calls(cursor) /\ ~Source!Reads(cursor)
      BY <2>1, <2>6, SameOperators DEF Source!Calls, Source!Reads
    <3>2. Source!Observable(cursor)
      BY <3>1 DEF Source!Observable
    <3>3. Source!EventAt(cursor, FALSE) = Source!CallOf(node.def)
      <4>1. ~Source!Writes(cursor) /\ ~Source!Tests(cursor) /\ ~Source!Returns(cursor)
        BY <2>1 DEF Source!Writes, Source!Tests, Source!Returns
      <4>. QED  BY <3>1, <4>1 DEF Source!EventAt
    <3>4. Does(call) = Source!CallOf(node.def)
      BY <2>5 DEF Does
    <3>. QED  BY <1>1, <1>2, <2>5, <3>2, <3>3, <3>4 DEF Moves, EventOps
  <2>. HIDE DEF node
  <2>7. CASE node.name \in OperatorNames /\ node.args >= MinArgs(node.name)
             /\ Generate(Append(rest, type), IF skip THEN <<>> ELSE <<instr>>)
    <3>1. CASE skip
      BY <2>4, <2>7, <3>1
    <3>2. CASE ~skip
      BY <2>4, <2>7, <3>2
    <3>. QED  BY <3>1, <3>2
  <2>8. CASE node.name \notin OperatorNames /\ Generate(Append(rest, ret), <<call>>)
    BY <2>5, <2>6, <2>8
  <2>. QED  BY <2>3, <2>7, <2>8
<1>. QED  BY <1>4, <1>5, <1>6 DEF NextExp

(* A node of an expression.                                                *)
LEMMA TraceNextExp ==
  ASSUME TypeInv, InsertOK, TablesOK, TraceInv, NextExp
  PROVE  TraceInv'
<1>. DEFINE f == frames[1].node
<1>1. /\ frames # <<>> /\ frames \in Seq(Frames) /\ cursor \in DOMAIN syntax /\ cursor \in Nat \ {0}
      /\ syntax[cursor].n \in ExpNodes /\ cursor \in Nat
  BY StraightNextExp DEF At, TypeInv, TypeOK
<1>2. PICK en : Follows(en, f, blocks, insert, frames, cursor)
  BY <1>1, Building
<1>3. Fits(en, frames, cursor + 1)
  <2>1. PlainNode(cursor)
    BY <1>1 DEF PlainNode, ExpNodes
  <2>. QED  BY <1>1, <1>2, <2>1, FitsMore DEF Follows
<1>4. ASSUME NEW vals, NEW instrs, Generate(vals, instrs), Straight(instrs),
             CodeOK(en, Put(instrs)), EndsAt(en, Put(instrs), insert, cursor + 1)
      PROVE  TraceInv'
  <2>1. /\ blocks' = Put(instrs) /\ cursor' = cursor + 1
        /\ UNCHANGED <<syntax, frames, insert, module>>
    BY <1>4 DEF Generate
  <2>2. /\ Len(blocks') = Len(blocks) /\ Inside(blocks', Len(blocks'))
        /\ \A b \in DOMAIN blocks : b # insert => blocks'[b] = blocks[b]
    BY <1>1, <1>4, <2>1, PutStraight, Building
  <2>3. PendingOK(frames, blocks', insert)
    <3>1. Covered(frames, frames, Len(blocks)) /\ PendingOK(frames, blocks, insert)
      BY <1>1, Building DEF Covered
    <3>2. \A t \in DOMAIN frames : insert \notin Pending(frames[t])
      BY <3>1, NotCurrent
    <3>3. Len(blocks) \in Nat /\ \A b \in 2 .. Len(blocks) : b \in DOMAIN blocks
      BY <1>1, Building
    <3>. QED  BY <2>2, <3>1, <3>2, <3>3, PendingKept
  <2>4. Built(f, blocks', insert', frames', cursor + 1)
    BY <1>2, <1>3, <1>4, <2>1, <2>2, <2>3 DEF Built, Follows
  <2>. QED  BY <1>1, <2>1, <2>4, BuiltStep
<1>5. CASE Abort
  BY <1>5, BuiltSame DEF Abort
<1>6. CASE \E vals : Generate(vals, <<>>) /\ Silent(cursor)
  <2>1. Put(<<>>) = blocks /\ Straight(<<>>)
    BY <1>1, PutNothing, Building DEF Straight
  <2>2. EndsAt(en, blocks, insert, cursor + 1)
    <3>1. EndsAt(en, blocks, insert, Source!Onward(cursor, FALSE))
      BY <1>2, <1>6, EndsOn DEF Follows
    <3>. QED  BY <1>1, <3>1, OnwardExp
  <2>. QED  BY <1>2, <1>4, <1>6, <2>1, <2>2 DEF Follows
<1>7. CASE \E vals : \E i \in Instrs :
             /\ Generate(vals, <<i>>) /\ i.op \notin Terminators /\ i.to = <<>>
             /\ \A to : Moves(to, cursor, i, cursor + 1)
  <2>0. PICK vals : \E i \in Instrs :
                      /\ Generate(vals, <<i>>) /\ i.op \notin Terminators /\ i.to = <<>>
                      /\ \A to : Moves(to, cursor, i, cursor + 1)
    BY <1>7
  <2>1. PICK i \in Instrs : /\ Generate(vals, <<i>>) /\ i.op \notin Terminators /\ i.to = <<>>
                            /\ \A to : Moves(to, cursor, i, cursor + 1)
    BY <2>0
  <2>2. Moves(en, cursor, i, cursor + 1)
    BY <2>1
  <2>3. CodeOK(en, Put(<<i>>)) /\ EndsAt(en, Put(<<i>>), insert, cursor + 1)
    BY <1>1, <1>2, <2>2, CodeMore, Building DEF Follows, Put
  <2>4. Straight(<<i>>)
    BY <2>1, StraightOne
  <2>. QED  BY <1>4, <2>1, <2>3, <2>4
<1>. QED  BY <1>5, <1>6, <1>7, ExpMoves

(* What is known of the statement whose expression ends.                   *)
LEMMA Evaluated ==
  ASSUME TypeInv, InsertOK, TablesOK, OperandInv, TraceInv, NEW pc \in ExpPoints, EndExp(pc)
  PROVE  LET f == frames[1].node
             p == Last(frames).node
         IN  /\ frames # <<>> /\ frames \in Seq(Frames) /\ values # <<>> /\ TypeOK
             /\ syntax \in Seq(Nodes) /\ values[1] \in IRTypes
             /\ blocks \in Seq(Blocks) /\ insert \in DOMAIN blocks
             /\ Last(frames) \in Frames /\ Last(frames).pc = pc /\ FrameOK(Last(frames), Len(blocks))
             /\ syntax[cursor].n = "EndExp" /\ cursor' = cursor + 1 /\ UNCHANGED <<syntax, module>>
             /\ cursor \in DOMAIN syntax /\ cursor \in Nat /\ cursor \in Nat \ {0}
             /\ p \in Nat /\ p > 0 /\ p < cursor /\ p \in 1 .. cursor /\ p \in DOMAIN syntax
             /\ syntax[p] \in Nodes
             /\ HasExp(syntax, p, cursor) /\ syntax[p].n \in DOMAIN WaitsAt /\ WaitsAt[syntax[p].n] = pc
             /\ \E en : /\ Follows(en, f, blocks, insert, frames, cursor)
                        /\ FrameFits(en, Last(frames), cursor - 1)
                        /\ Fits(en, Front(frames), p)
<1>. DEFINE p == Last(frames).node
<1>1. /\ frames # <<>> /\ values # <<>> /\ TypeOK /\ Last(frames).pc = pc
      /\ Reading("EndExp") /\ cursor' = cursor + 1 /\ UNCHANGED <<syntax, module>>
  BY DEF EndExp, At, TypeInv
<1>2. /\ frames \in Seq(Frames) /\ Last(frames) = frames[Len(frames)] /\ Len(frames) \in DOMAIN frames
      /\ values[1] \in IRTypes /\ blocks \in Seq(Blocks) /\ insert \in DOMAIN blocks
  BY <1>1, LastFrame DEF TypeOK, InsertOK
<1>3. HasExp(syntax, p, cursor) /\ WaitsAt[syntax[p].n] = pc
  BY <1>1, <1>2 DEF OperandInv, WaitsOK
<1>4. syntax[p].n \in DOMAIN WaitsAt
  BY <1>3 DEF HasExp
<1>5. /\ cursor \in Nat \ {0} /\ cursor \in Nat /\ cursor \in DOMAIN syntax
      /\ syntax \in Seq(Nodes) /\ syntax[cursor].n = "EndExp"
      /\ Last(frames) \in Frames /\ FrameOK(Last(frames), Len(blocks))
      /\ p \in Nat /\ p > 0 /\ p < cursor /\ p \in 1 .. cursor /\ p \in DOMAIN syntax
      /\ \E en : /\ Follows(en, frames[1].node, blocks, insert, frames, cursor)
                 /\ FrameFits(en, Last(frames), cursor - 1)
                 /\ Fits(en, Front(frames), p)
  BY <1>1, Innermost
<1>6. syntax[p] \in Nodes
  BY <1>5
<1>. QED  BY <1>1, <1>2, <1>3, <1>4, <1>5, <1>6

(* A statement ends with its expression.                                   *)
LEMMA TraceEndStmtExp ==
  ASSUME TypeInv, InsertOK, TablesOK, OperandInv, TraceInv,
         NEW pc \in {"CallExp", "ReturnExp", "AssignExp", "DeclInit"},
         NEW instrs \in Seq(Instrs), EndStmtExp(pc, instrs), \A n : Aimed(instrs, n),
         \A en : CodeOK(en, blocks) /\ EndsAt(en, blocks, insert, cursor) =>
                   CodeOK(en, Put(instrs)) /\ EndsAt(en, Put(instrs), insert, cursor + 1)
  PROVE  TraceInv'
<1>. DEFINE p == Last(frames).node  f == frames[1].node
<1>0. pc \in ExpPoints
  BY Waiting
<1>1. /\ EndExp(pc) /\ blocks' = Put(instrs) /\ frames' = Front(frames) /\ insert' = insert
  BY DEF EndStmtExp
<1>2. /\ frames # <<>> /\ frames \in Seq(Frames) /\ Last(frames) \in Frames /\ Last(frames).pc = pc
      /\ syntax[cursor].n = "EndExp" /\ cursor' = cursor + 1 /\ UNCHANGED <<syntax, module>>
      /\ cursor \in Nat /\ p \in Nat /\ p > 0 /\ p < cursor /\ p \in 1 .. cursor
      /\ syntax[p].n \in DOMAIN WaitsAt /\ WaitsAt[syntax[p].n] = pc
  BY <1>0, <1>1, Evaluated
<1>3. PICK en : Follows(en, f, blocks, insert, frames, cursor) /\ FrameFits(en, Last(frames), cursor - 1)
  BY <1>0, <1>1, Evaluated
<1>4. CodeOK(en, blocks') /\ EndsAt(en, blocks', insert', cursor + 1)
  BY <1>1, <1>3 DEF Follows
<1>5. Fits(en, frames', cursor + 1)
  <2>1. pc \notin LoopPoints \cup BodyPoints \cup {"IfCond"} \cup ElsePoints
    BY DEF LoopPoints, BodyPoints, ElsePoints, ThenPoints
  <2>2. Shut(p + 1, cursor - 1)
    BY <1>2, <1>3, <2>1 DEF FrameFits
  <2>3. PlainNode(p) /\ PlainNode(cursor)
    BY <1>2, Waiting DEF PlainNode
  <2>. HIDE DEF p
  <2>4. Shut(p, cursor)
    BY <1>2, <2>2, <2>3, ShutAround
  <2>. QED  BY <1>1, <1>2, <1>3, <2>4, FitsPopped DEF Follows, p
<1>6. /\ Len(blocks') = Len(blocks) /\ Inside(blocks', Len(blocks'))
      /\ \A b \in DOMAIN blocks : b # insert => blocks'[b] = blocks[b]
  BY <1>1, <1>2, PutType, PutInside, Building
<1>7. PendingOK(frames', blocks', insert')
  <2>1. Covered(frames, frames', Len(blocks)) /\ PendingOK(frames, blocks, insert)
    BY <1>1, <1>2, Building, CoveredMoved
  <2>2. \A t \in DOMAIN frames' : insert \notin Pending(frames'[t])
    BY <2>1, NotCurrent
  <2>3. Len(blocks) \in Nat /\ \A b \in 2 .. Len(blocks) : b \in DOMAIN blocks
    BY <1>2, Building
  <2>. QED  BY <1>1, <1>6, <2>1, <2>2, <2>3, PendingKept
<1>8. Built(f, blocks', insert', frames', cursor + 1)
  BY <1>3, <1>4, <1>5, <1>6, <1>7 DEF Built, Follows
<1>9. frames' # <<>> => frames'[1].node = f
  BY <1>1, <1>2, PoppedOutermost
<1>. QED  BY <1>2, <1>8, <1>9, BuiltStep

(* The instruction of a statement, put behind its expression.              *)
LEMMA StmtInstr ==
  ASSUME blocks \in Seq(Blocks), insert \in DOMAIN blocks, cursor \in DOMAIN syntax,
         NEW i \in Instrs, i.op \in EventOps, i.to = <<>>,
         Source!Observable(cursor), Source!EventAt(cursor, FALSE) = Does(i),
         i.op = "ret" \/ Source!Onward(cursor, FALSE) = cursor + 1,
         NEW en, CodeOK(en, blocks), EndsAt(en, blocks, insert, cursor)
  PROVE  CodeOK(en, Put(<<i>>)) /\ EndsAt(en, Put(<<i>>), insert, cursor + 1)
<1>1. Leads(cursor, cursor)
  BY LeadsSelf
<1>2. Moves(en, cursor, i, Source!Onward(cursor, FALSE))
  BY <1>1 DEF Moves, EventOps
<1>3. CodeOK(en, Put(<<i>>)) /\ EndsAt(en, Put(<<i>>), insert, Source!Onward(cursor, FALSE))
  BY <1>2, CodeMore DEF Put
<1>4. CASE i.op = "ret"
  <2>. DEFINE one == <<i>>
  <2>1. one \in Seq(Instrs) /\ one # <<>> /\ ~Cut(one) /\ HasTerminator(one)
    BY <1>4 DEF Cut, HasTerminator, Terminators
  <2>. HIDE DEF one
  <2>2. HasTerminator(Put(one)[insert])
    BY <2>1, PutCut
  <2>3. EndsAt(en, Put(one), insert, cursor + 1)
    BY <2>2 DEF EndsAt
  <2>. QED  BY <1>3, <2>3 DEF one
<1>. QED  BY <1>3, <1>4

(* Calls, returns and stores.                                              *)
LEMMA TraceEndStmt ==
  ASSUME TypeInv, InsertOK, TablesOK, OperandInv, TraceInv,
         EndCallStmt \/ EndReturn \/ EndAssign \/ EndDeclInit
  PROVE  TraceInv'
<1>. DEFINE p == Last(frames).node
<1>1. PICK pc \in ExpPoints : EndExp(pc)
  BY Waiting DEF EndCallStmt, EndReturn, EndAssign, EndDeclInit, EndStmtExp
<1>2. /\ frames # <<>> /\ Last(frames).pc = pc /\ values[1] \in IRTypes
      /\ blocks \in Seq(Blocks) /\ insert \in DOMAIN blocks
      /\ syntax \in Seq(Nodes) /\ cursor \in DOMAIN syntax /\ syntax[cursor].n = "EndExp"
      /\ p \in DOMAIN syntax /\ p \in Nat /\ syntax[p] \in Nodes /\ HasExp(syntax, p, cursor)
      /\ syntax[p].n \in DOMAIN WaitsAt /\ WaitsAt[syntax[p].n] = pc
  BY <1>1, Evaluated
<1>. HIDE DEF p
<1>3. CASE EndCallStmt
  <2>1. EndStmtExp("CallExp", <<>>) /\ pc = "CallExp"
    BY <1>2, <1>3 DEF EndCallStmt, EndStmtExp, EndExp, At
  <2>2. syntax[p].n = "CallStmt"
    BY <1>2, <2>1, Waiting
  <2>3. Silent(cursor) /\ Source!Onward(cursor, FALSE) = cursor + 1
    BY <1>2, <2>2, EndExpIs DEF Silent
  <2>4. <<>> \in Seq(Instrs) /\ \A n : Aimed(<<>>, n)
    BY DEF Aimed
  <2>5. Put(<<>>) = blocks
    BY <1>2, PutNothing
  <2>6. ASSUME NEW en, CodeOK(en, blocks), EndsAt(en, blocks, insert, cursor)
        PROVE  CodeOK(en, Put(<<>>)) /\ EndsAt(en, Put(<<>>), insert, cursor + 1)
    <3>1. EndsAt(en, blocks, insert, Source!Onward(cursor, FALSE))
      BY <2>3, <2>6, EndsOn
    <3>. QED  BY <2>3, <2>5, <2>6, <3>1
  <2>7. \A en : CodeOK(en, blocks) /\ EndsAt(en, blocks, insert, cursor) =>
                  CodeOK(en, Put(<<>>)) /\ EndsAt(en, Put(<<>>), insert, cursor + 1)
    BY <2>6
  <2>. QED  BY <2>1, <2>4, <2>7, TraceEndStmtExp
<1>4. ASSUME NEW i \in Instrs, i.op \in {"store", "ret"}, i.to = <<>>,
             Source!Observable(cursor), Source!EventAt(cursor, FALSE) = Does(i),
             i.op = "ret" \/ Source!Onward(cursor, FALSE) = cursor + 1,
             NEW qc \in {"ReturnExp", "AssignExp", "DeclInit"}, EndStmtExp(qc, <<i>>)
      PROVE  TraceInv'
  <2>. DEFINE one == <<i>>
  <2>1. \A en : CodeOK(en, blocks) /\ EndsAt(en, blocks, insert, cursor) =>
                  CodeOK(en, Put(one)) /\ EndsAt(en, Put(one), insert, cursor + 1)
    BY <1>2, <1>4, StmtInstr DEF EventOps
  <2>2. one \in Seq(Instrs) /\ \A n : Aimed(one, n)
    BY <1>4 DEF Aimed
  <2>3. EndStmtExp(qc, one) /\ qc \in {"CallExp", "ReturnExp", "AssignExp", "DeclInit"}
    BY <1>4
  <2>. HIDE DEF one
  <2>. QED  BY <2>1, <2>2, <2>3, TraceEndStmtExp
<1>5. CASE EndReturn
  <2>. DEFINE i == Instr("ret", <<values[1]>>)
  <2>1. EndStmtExp("ReturnExp", <<i>>) /\ pc = "ReturnExp"
    BY <1>2, <1>5 DEF EndReturn, EndStmtExp, EndExp, At
  <2>2. i \in Instrs /\ i.op = "ret" /\ i.to = <<>>
    <3>1. "ret" \in Opcodes /\ <<values[1]>> \in Seq(IRTypes)
      BY <1>2 DEF Opcodes, Terminators
    <3>. QED  BY <3>1, InstrType DEF Instr
  <2>. HIDE DEF i
  <2>3. syntax[p].n = "Return"
    BY <1>2, <2>1, Waiting
  <2>4. Source!Observable(cursor) /\ Source!EventAt(cursor, FALSE) = Source!Returned
    BY <1>2, <2>3, EndExpIs
  <2>5. Does(i) = Source!Returned
    BY <2>2 DEF Does
  <2>. QED  BY <1>4, <2>1, <2>2, <2>4, <2>5
<1>6. ASSUME NEW d \in VarDecls \cup {Null}, syntax[p].n \in {"Assign", "Decl"}, Source!Target(p) = d,
             NEW qc \in {"AssignExp", "DeclInit"}, EndStmtExp(qc, <<Access("store", <<values[1]>>, d)>>)
      PROVE  TraceInv'
  <2>. DEFINE i == Access("store", <<values[1]>>, d)
  <2>1. EndStmtExp(qc, <<i>>)
    BY <1>6
  <2>2. i \in Instrs /\ i.op = "store" /\ i.to = <<>> /\ i.ref = d
    <3>1. "store" \in Opcodes /\ <<values[1]>> \in Seq(IRTypes)
      BY <1>2 DEF Opcodes, Terminators
    <3>. QED  BY <3>1, InstrType DEF Instr, Access
  <2>. HIDE DEF i
  <2>3. /\ Source!Observable(cursor) /\ Source!EventAt(cursor, FALSE) = Source!Store(Source!Target(p))
        /\ Source!Onward(cursor, FALSE) = cursor + 1
    BY <1>2, <1>6, EndExpIs
  <2>4. Does(i) = Source!Store(d)
    BY <2>2 DEF Does
  <2>. QED  BY <1>4, <1>6, <2>1, <2>2, <2>3, <2>4
<1>7. CASE EndAssign
  <2>1. /\ EndStmtExp("AssignExp", <<Access("store", <<values[1]>>, syntax[p].decl)>>)
        /\ pc = "AssignExp"
    BY <1>2, <1>7 DEF EndAssign, EndStmtExp, EndExp, At, p
  <2>2. syntax[p].n = "Assign"
    BY <1>2, <2>1, Waiting
  <2>3. syntax[p].decl \in VarDecls \cup {Null} /\ Source!Target(p) = syntax[p].decl
    BY <1>2, <2>2, NodeKinds DEF Source!Target
  <2>. QED  BY <1>6, <2>1, <2>2, <2>3
<1>8. CASE EndDeclInit
  <2>. DEFINE d == LocalDecl(p, syntax[p].name, syntax[p].type)
  <2>1. EndStmtExp("DeclInit", <<Access("store", <<values[1]>>, d)>>) /\ pc = "DeclInit"
    BY <1>2, <1>8 DEF EndDeclInit, EndStmtExp, EndExp, At, p
  <2>2. syntax[p].n = "Decl"
    BY <1>2, <2>1, Waiting
  <2>3. d \in VarDecls
    BY <1>2, <2>2, NodeKinds, LocalDeclType
  <2>4. Source!Target(p) = d
    BY <2>2 DEF Source!Target, Source!LocalDecl, LocalDecl
  <2>. HIDE DEF d
  <2>. QED  BY <1>6, <2>1, <2>2, <2>3, <2>4
<1>. QED  BY <1>3, <1>5, <1>7, <1>8

LEMMA PairJoined ==
  ASSUME NEW S, NEW x \in S, NEW y \in S
  PROVE  <<x>> \o <<y>> = <<x, y>>
<1>. DEFINE a == <<x>>  b == <<y>>  ab == a \o b  pair == <<x, y>>
<1>1. a \in Seq(S) /\ b \in Seq(S) /\ Len(a) = 1 /\ Len(b) = 1 /\ a[1] = x /\ b[1] = y
  OBVIOUS
<1>2. pair \in Seq(S) /\ Len(pair) = 2 /\ pair[1] = x /\ pair[2] = y
  OBVIOUS
<1>. HIDE DEF a, b, pair
<1>3. ab \in Seq(S) /\ Len(ab) = 2 /\ ab[1] = x /\ ab[2] = y
  BY <1>1, ConcatProperties
<1>. HIDE DEF ab
<1>4. \A i \in 1 .. Len(ab) : ab[i] = pair[i]
  BY <1>2, <1>3
<1>5. ab = pair
  BY <1>2, <1>3, <1>4, SeqEqual
<1>. QED  BY <1>5 DEF a, b, ab, pair

(* The branch behind a condition, which may be compared before it.         *)
LEMMA CondCode ==
  ASSUME TypeOK, insert \in DOMAIN blocks, values # <<>>, cursor \in DOMAIN syntax, Source!Tests(cursor),
         NEW yes \in Nat, NEW no \in Nat,
         NEW en, CodeOK(en, blocks), EndsAt(en, blocks, insert, cursor),
         en[yes] = Source!Onward(cursor, TRUE), en[no] = Source!Onward(cursor, FALSE)
  PROVE  CodeOK(en, Put(CondBranch(<<yes, no>>)))
<1>. DEFINE to  == <<yes, no>>
            cmp == Instr("icmp", <<values[1], "i32">>)
            br1 == Jump("condbr", <<values[1]>>, to)
            br2 == Jump("condbr", <<"i1">>, to)
<1>1. /\ cmp \in Instrs /\ cmp.op = "icmp" /\ cmp.to = <<>>
      /\ br1 \in Instrs /\ br1.op = "condbr" /\ br1.to = to
      /\ br2 \in Instrs /\ br2.op = "condbr" /\ br2.to = to
  <2>1. {"icmp", "condbr"} \subseteq Opcodes
    BY DEF Opcodes, Terminators
  <2>2. values[1] \in IRTypes /\ "i1" \in IRTypes /\ "i32" \in IRTypes /\ to \in Seq(Nat)
    BY DEF TypeOK, IRTypes
  <2>3. <<values[1]>> \in Seq(IRTypes) /\ <<values[1], "i32">> \in Seq(IRTypes) /\ <<"i1">> \in Seq(IRTypes)
    BY <2>2
  <2>. HIDE DEF to
  <2>4. cmp.op = "icmp" /\ cmp.to = <<>> /\ br1.to = to /\ br2.to = to
    BY DEF Jump, Instr
  <2>. QED  BY <2>1, <2>2, <2>3, <2>4, InstrType
<1>2. CondBranch(to) = <<br1>> \/ CondBranch(to) = <<cmp, br2>>
  BY DEF CondBranch
<1>3. Len(to) = 2 /\ to # <<>> /\ to[1] = yes /\ to[2] = no
  OBVIOUS
<1>. HIDE DEF to, cmp, br1, br2
<1>4. Leads(cursor, cursor)
  BY LeadsSelf
<1>5. \A br \in {br1, br2} : Moves(en, cursor, br, cursor)
  BY <1>1, <1>3, <1>4 DEF Moves, EventOps
<1>6. Moves(en, cursor, cmp, cursor)
  BY <1>1, <1>4 DEF Moves, EventOps
<1>7. blocks \in Seq(Blocks)
  BY DEF TypeOK
<1>8. CASE CondBranch(to) = <<br1>>
  <2>1. CodeOK(en, [blocks EXCEPT ![insert] = @ \o <<br1>>])
    BY <1>1, <1>5, <1>7, CodeMore
  <2>. QED  BY <1>8, <2>1 DEF Put, to
<1>9. CASE CondBranch(to) = <<cmp, br2>>
  <2>. DEFINE put == [blocks EXCEPT ![insert] = @ \o <<cmp>>]
  <2>1. /\ put \in Seq(Blocks) /\ DOMAIN put = DOMAIN blocks
        /\ CodeOK(en, put) /\ EndsAt(en, put, insert, cursor)
    BY <1>1, <1>6, <1>7, CodeMore
  <2>. DEFINE both == [put EXCEPT ![insert] = @ \o <<br2>>]
  <2>2. CodeOK(en, both)
    <3>. HIDE DEF put
    <3>. QED  BY <1>1, <1>5, <2>1, CodeMore
  <2>3. both = [blocks EXCEPT ![insert] = @ \o <<cmp, br2>>]
    <3>1. (blocks[insert] \o <<cmp>>) \o <<br2>> = blocks[insert] \o <<cmp, br2>>
      <4>1. blocks[insert] \in Seq(Instrs) /\ <<cmp>> \in Seq(Instrs) /\ <<br2>> \in Seq(Instrs)
        BY <1>1, <1>7 DEF Blocks
      <4>2. <<cmp>> \o <<br2>> = <<cmp, br2>>
        BY <1>1, PairJoined
      <4>3. (blocks[insert] \o <<cmp>>) \o <<br2>> = blocks[insert] \o (<<cmp>> \o <<br2>>)
        BY <4>1, ConcatAssociative
      <4>. QED  BY <4>2, <4>3
    <3>. QED  BY <1>7, <3>1
  <2>4. both = Put(<<cmp, br2>>)
    BY <2>3 DEF Put
  <2>. QED  BY <1>9, <2>2, <2>4 DEF to
<1>. QED  BY <1>2, <1>8, <1>9

\* The innermost Visit function goes on as fr, with n more blocks.
FitsAdded(add, n, fr) ==
  \A en : /\ FrameFits(en, Last(frames), cursor - 1)
          /\ \A b \in Len(blocks) + 1 .. Len(blocks) + n : en[b] = add[b]
          => FrameFits(en, fr, cursor)

(* A condition ends, and blocks are added for what depends on it.          *)
LEMMA TraceCond ==
  ASSUME TypeInv, InsertOK, TablesOK, OperandInv, TraceInv,
         NEW pc \in {"IfCond", "WhileCond"}, EndExp(pc),
         NEW yes \in Nat, NEW no \in Nat, NEW n \in Nat, NEW new \in [1 .. n -> {<<>>}],
         blocks' = Put(CondBranch(<<yes, no>>)) \o new,
         NEW fr \in Frames, frames' = [frames EXCEPT ![Len(frames)] = fr],
         fr.node = Last(frames).node, FrameOK(fr, Len(blocks) + n),
         insert' = yes, Pending(fr) \subseteq (Len(blocks) + 1 .. Len(blocks) + n) \ {yes},
         yes \in Len(blocks) + 1 .. Len(blocks) + n, no \in Len(blocks) + 1 .. Len(blocks) + n,
         NEW add, add[yes] = cursor + 1, add[no] = Source!Otherwise(fr.node),
         FitsAdded(add, n, fr)
  PROVE  TraceInv'
<1>. DEFINE len  == Len(blocks)  m == len + n  p == Last(frames).node  f == frames[1].node
            cond == CondBranch(<<yes, no>>)  put == Put(cond)
<1>0. pc \in ExpPoints
  BY Waiting
<1>1. /\ frames # <<>> /\ frames \in Seq(Frames) /\ values # <<>> /\ TypeOK
      /\ syntax \in Seq(Nodes) /\ blocks \in Seq(Blocks) /\ insert \in DOMAIN blocks
      /\ syntax[cursor].n = "EndExp" /\ cursor' = cursor + 1 /\ UNCHANGED <<syntax, module>>
      /\ cursor \in DOMAIN syntax /\ cursor \in Nat
      /\ HasExp(syntax, p, cursor) /\ syntax[p].n \in DOMAIN WaitsAt /\ WaitsAt[syntax[p].n] = pc
  BY <1>0, Evaluated
<1>2. /\ len \in Nat \ {0} /\ len \in Nat /\ m \in Nat /\ len <= m /\ DOMAIN blocks = 1 .. len
      /\ PendingOK(frames, blocks, insert) /\ Inside(blocks, len)
  BY <1>1, Building
<1>3. PICK old : Follows(old, f, blocks, insert, frames, cursor)
  BY <1>1, Building
<1>4. /\ Source!Tests(cursor) /\ Source!Onward(cursor, TRUE) = cursor + 1
      /\ Source!Onward(cursor, FALSE) = Source!Otherwise(p)
  <2>1. syntax[p].n \in {"If", "While"}
    BY <1>1, Waiting
  <2>. HIDE DEF p
  <2>. QED  BY <1>1, <2>1, EndExpIs
<1>. DEFINE en == [b \in 1 .. m |-> IF b \in 1 .. len THEN old[b] ELSE add[b]]
<1>5. /\ Agree(old, en, len) /\ en[1] = f + 1
      /\ \A b \in len + 1 .. m : en[b] = add[b]
  <2>1. /\ 1 \in 1 .. len /\ \A b \in 1 .. len : b \in 1 .. m
        /\ \A b \in len + 1 .. m : b \in 1 .. m /\ b \notin 1 .. len
    BY <1>2
  <2>2. old[1] = f + 1
    BY <1>3 DEF Follows
  <2>. HIDE DEF len, m
  <2>. QED  BY <2>1, <2>2 DEF Agree
<1>6. /\ yes \in len + 1 .. m /\ no \in len + 1 .. m /\ insert' = yes /\ FrameOK(fr, m)
      /\ Pending(fr) \subseteq (len + 1 .. m) \ {yes}
  OBVIOUS
<1>. HIDE DEF en
<1>7. en[yes] = cursor + 1 /\ en[no] = Source!Otherwise(p)
  BY <1>5, <1>6
<1>8. CodeOK(en, blocks) /\ EndsAt(en, blocks, insert, cursor) /\ Fits(en, frames, cursor)
  <2>1. CodeOK(old, blocks) /\ EndsAt(old, blocks, insert, cursor) /\ Fits(old, frames, cursor)
    BY <1>3 DEF Follows
  <2>2. CodeOK(en, blocks) /\ EndsAt(en, blocks, insert, cursor)
    BY <1>1, <1>2, <1>5, <2>1, CodeAgree
  <2>3. Fits(en, frames, cursor)
    BY <1>1, <1>2, <1>5, <2>1, FitsMoreBlocks
  <2>. QED  BY <2>2, <2>3
<1>9. CodeOK(en, put)
  BY <1>1, <1>4, <1>7, <1>8, CondCode
<1>10. Fits(en, frames', cursor + 1)
  <2>1. FrameFits(en, Last(frames), cursor - 1) /\ Fits(en, Front(frames), p)
    BY <1>1, <1>8, FitsSplit
  <2>2. FrameFits(en, fr, cursor)
    BY <1>5, <2>1 DEF FitsAdded
  <2>3. FrameFits(en, fr, (cursor + 1) - 1)
    <3>1. (cursor + 1) - 1 = cursor
      BY <1>1
    <3>. QED  BY <2>2, <3>1
  <2>4. Fits(en, Front(frames), fr.node)
    BY <2>1
  <2>. QED  BY <1>1, <2>3, <2>4, FitsReplaced
<1>11. /\ put \in Seq(Blocks) /\ Len(put) = len /\ Inside(put, m)
       /\ \A b \in DOMAIN blocks : b # insert => put[b] = blocks[b]
  <2>. DEFINE to == <<yes, no>>
  <2>1. \A t \in DOMAIN to : to[t] \in 2 .. m
    <3>1. yes \in 2 .. m /\ no \in 2 .. m
      BY <1>2, <1>6
    <3>2. DOMAIN to = {1, 2} /\ to[1] = yes /\ to[2] = no
      OBVIOUS
    <3>. HIDE DEF to, m
    <3>. QED  BY <3>1, <3>2
  <2>2. to \in Seq(Nat) /\ cond = CondBranch(to)
    <3>1. to \in Seq(Nat)
      OBVIOUS
    <3>2. cond = CondBranch(to)
      OBVIOUS
    <3>. QED  BY <3>1, <3>2
  <2>. HIDE DEF to, cond
  <2>3. cond \in Seq(Instrs) /\ Aimed(cond, m)
    BY <1>1, <2>1, <2>2, CondFacts
  <2>4. Inside(blocks, m)
    BY <1>2, InsideMore
  <2>. QED  BY <1>1, <2>3, <2>4, PutType, PutInside
<1>12. blocks' = put \o new
  OBVIOUS
<1>. HIDE DEF put, len, m
<1>13. /\ Len(blocks') = m /\ Inside(blocks', m) /\ CodeOK(en, blocks')
       /\ \A b \in 1 .. len : blocks'[b] = put[b]
       /\ \A b \in len + 1 .. m : blocks'[b] = <<>>
  <2>. DEFINE cat == put \o new
  <2>1. /\ Len(cat) = Len(put) + n
        /\ \A b \in 1 .. Len(put) : cat[b] = put[b]
        /\ \A b \in Len(put) + 1 .. Len(put) + n : cat[b] = <<>>
        /\ \A l : Inside(put, l) => Inside(cat, l)
    BY <1>11, NewBlocksClean
  <2>2. CodeOK(en, cat)
    BY <1>9, <1>11, CodeNew
  <2>. HIDE DEF cat
  <2>3. blocks' = cat /\ m = len + n
    BY <1>12 DEF cat, m
  <2>. QED  BY <1>11, <2>1, <2>2, <2>3
<1>14. EndsAt(en, blocks', insert', cursor + 1)
  <2>1. blocks'[yes] = <<>>
    BY <1>6, <1>13
  <2>2. EndsAt(en, blocks', yes, en[yes])
    BY <2>1, EndsEmpty
  <2>. QED  BY <1>6, <1>7, <2>2
<1>15. PendingOK(frames', blocks', insert')
  <2>1. \A b \in 2 .. len : b # insert => blocks'[b] = blocks[b]
    <3>1. \A b \in 2 .. len : b \in 1 .. len
      BY <1>2
    <3>. QED  BY <1>2, <1>11, <1>13, <3>1
  <2>2. \A b \in Pending(fr) : b \in len + 1 .. m /\ b # yes /\ blocks'[b] = <<>>
    BY <1>6, <1>13
  <2>3. yes > len
    BY <1>2, <1>6
  <2>4. /\ Len(blocks') \in Nat /\ Len(blocks) \in Nat \ {0} /\ Len(blocks) <= Len(blocks')
        /\ FrameOK(fr, Len(blocks')) /\ yes > Len(blocks)
        /\ \A b \in 2 .. Len(blocks) : b # insert => blocks'[b] = blocks[b]
        /\ \A b \in Pending(fr) : b \in Len(blocks) + 1 .. Len(blocks') /\ b # yes /\ blocks'[b] = <<>>
    BY <1>2, <1>6, <1>13, <2>1, <2>2, <2>3 DEF len
  <2>5. PendingOK([frames EXCEPT ![Len(frames)] = fr], blocks', yes)
    BY <1>1, <1>2, <2>4, PendingAdded
  <2>. QED  BY <1>6, <2>5
<1>16. Built(f, blocks', insert', frames', cursor + 1)
  BY <1>5, <1>10, <1>13, <1>14, <1>15 DEF Built, Follows
<1>17. frames'[1].node = f
  BY <1>1, ReplacedOutermost
<1>. QED  BY <1>1, <1>16, <1>17, BuiltStep

(* The condition of an if.  Its blocks stand for its branches and for what *)
(* follows it.                                                             *)
LEMMA TraceEndIfCond ==
  ASSUME TypeInv, InsertOK, TablesOK, OperandInv, TraceInv, EndIfCond
  PROVE  TraceInv'
<1>. DEFINE len  == Len(blocks)  last == Last(frames)  p == last.node
            else == syntax[p].else  j == Source!ElseOf(p)
            then == len + 1
            els  == IF else THEN then + 1 ELSE 0
            join == IF else THEN then + 2 ELSE then + 1
            no   == IF else THEN els ELSE join
            n    == IF else THEN 3 ELSE 2
            fr   == [last EXCEPT !.pc = "IfThen", !.els = els, !.join = join]
            new  == [b \in 1 .. n |-> <<>>]
            behind == IF else THEN Source!EndIfOf(j, 1) ELSE Source!EndIfOf(p, 0) + 1
            add  == [b \in len + 1 .. len + n |->
                       IF b = then THEN cursor + 1 ELSE IF b = join THEN behind ELSE j + 1]
<1>1. "IfCond" \in ExpPoints /\ EndExp("IfCond")
  BY Waiting DEF EndIfCond
<1>2. /\ frames # <<>> /\ frames \in Seq(Frames) /\ cursor \in Nat /\ cursor > 0
      /\ last \in Frames /\ last.pc = "IfCond" /\ FrameOK(last, len)
      /\ syntax[cursor].n = "EndExp" /\ p \in Nat /\ p > 0 /\ p < cursor /\ p \in 1 .. cursor
      /\ len \in Nat \ {0} /\ len \in Nat
  BY <1>1, Evaluated, Building
<1>3. last = frames[Len(frames)]
  BY <1>2, LastFrame
<1>4. /\ frames' = [frames EXCEPT ![Len(frames)] = fr] /\ insert' = then
      /\ blocks' = Put(CondBranch(<<then, no>>)) \o new
  BY <1>3 DEF EndIfCond
<1>. HIDE DEF len, p, last
<1>5. /\ els \in Nat /\ join \in Nat /\ then \in Nat /\ no \in Nat /\ n \in Nat /\ els # join
      /\ then # join /\ (else => els # then)
      /\ then \in len + 1 .. len + n /\ join \in len + 1 .. len + n /\ no \in len + 1 .. len + n
      /\ {join} \cup ({els} \ {0}) = (len + 1 .. len + n) \ {then}
      /\ (else => els # 0 /\ els \in len + 1 .. len + n) /\ (~else => els = 0)
      /\ no = IF else THEN els ELSE join
  BY <1>2
<1>6. new \in [1 .. n -> {<<>>}]
  OBVIOUS
<1>. HIDE DEF n, new, then, no, els, join, behind
<1>7. /\ add[then] = cursor + 1 /\ add[join] = behind
      /\ else => add[els] = j + 1
  BY <1>5
<1>. HIDE DEF add, else
<1>8. fr \in Frames /\ fr.pc = "IfThen" /\ fr.node = p /\ fr.els = els /\ fr.join = join
  <2>1. fr \in Frames
    BY <1>2, <1>5, BodyFrame
  <2>2. fr.pc = "IfThen" /\ fr.node = last.node /\ fr.els = els /\ fr.join = join
    BY <1>2 DEF Frames
  <2>. QED  BY <2>1, <2>2 DEF p
<1>. HIDE DEF fr
<1>9. FrameOK(fr, len + n) /\ Pending(fr) \subseteq (len + 1 .. len + n) \ {then}
  <2>1. FrameOK(fr, len + n)
    BY <1>5, <1>8 DEF FrameOK, LoopPoints
  <2>2. Pending(fr) = {join} \cup ({els} \ {0})
    BY <1>8 DEF Pending
  <2>. QED  BY <1>5, <2>1, <2>2
<1>10. ASSUME NEW en, FrameFits(en, last, cursor - 1),
              \A b \in len + 1 .. len + n : en[b] = add[b]
       PROVE  FrameFits(en, fr, cursor) /\ add[no] = Source!Otherwise(p)
  <2>1. syntax[p].n = "If" /\ Shut(p + 1, cursor - 1)
    <3>1. "IfCond" \notin ElsePoints
      BY DEF ElsePoints
    <3>. QED  BY <1>2, <1>10, <3>1 DEF FrameFits, p
  <2>2. Shut(p + 1, cursor)
    <3>1. cursor - 1 \in Nat /\ cursor = (cursor - 1) + 1 /\ p + 1 \in Nat /\ p + 1 <= cursor
      BY <1>2
    <3>2. PlainNode(cursor)
      BY <1>2 DEF PlainNode
    <3>. QED  BY <2>1, <3>1, <3>2, ShutMore
  <2>3. en[join] = behind /\ (else => en[els] = j + 1)
    BY <1>5, <1>7, <1>10
  <2>4. /\ behind = IF else THEN Source!EndIfOf(j, 1) ELSE Source!EndIfOf(p, 0) + 1
        /\ else <=> fr.els # 0
    BY <1>5, <1>8 DEF behind
  <2>5. IF fr.els = 0 THEN en[fr.join] = Source!EndIfOf(p, 0) + 1
        ELSE en[fr.els] = j + 1 /\ en[fr.join] = Source!EndIfOf(j, 1)
    BY <1>8, <2>3, <2>4
  <2>6. FrameFits(en, fr, cursor)
    <3>1. /\ "IfThen" \in BodyPoints /\ "IfThen" \in ThenPoints
          /\ "IfThen" \notin LoopPoints \cup ElsePoints /\ "IfThen" \notin {"WhileBody", "BodyEnd"}
      BY DEF BodyPoints, ThenPoints, ElsePoints, LoopPoints
    <3>. QED  BY <1>2, <1>8, <2>1, <2>2, <2>5, <3>1 DEF FrameFits, Openers
  <2>7. add[no] = Source!Otherwise(p)
    <3>1. Source!Otherwise(p) = (IF syntax[p].else THEN j ELSE Source!EndIfOf(p, 0)) + 1
      BY <2>1 DEF Source!Otherwise
    <3>2. CASE else
      <4>1. no = els /\ add[els] = j + 1
        BY <1>5, <1>7, <3>2
      <4>. QED  BY <3>1, <3>2, <4>1 DEF else
    <3>3. CASE ~else
      <4>1. no = join /\ add[join] = Source!EndIfOf(p, 0) + 1
        BY <1>5, <1>7, <2>4, <3>3
      <4>. QED  BY <3>1, <3>3, <4>1 DEF else
    <3>. QED  BY <3>2, <3>3
  <2>. QED  BY <2>6, <2>7
<1>11. add[no] = Source!Otherwise(fr.node)
  <2>1. PICK old : Follows(old, frames[1].node, blocks, insert, frames, cursor) /\ FrameFits(old, last, cursor - 1)
    BY <1>1, Evaluated DEF last
  <2>2. syntax[p].n = "If"
    BY <1>2, <2>1 DEF FrameFits, p
  <2>3. Source!Otherwise(p) = (IF syntax[p].else THEN j ELSE Source!EndIfOf(p, 0)) + 1
    BY <2>2 DEF Source!Otherwise
  <2>4. CASE else
    <3>1. no = els /\ add[els] = j + 1
      BY <1>5, <1>7, <2>4
    <3>. QED  BY <1>8, <2>3, <2>4, <3>1 DEF else
  <2>5. CASE ~else
    <3>1. no = join /\ add[join] = Source!EndIfOf(p, 0) + 1
      BY <1>5, <1>7, <2>5 DEF behind
    <3>. QED  BY <1>8, <2>3, <2>5, <3>1 DEF else
  <2>. QED  BY <2>4, <2>5
<1>12. \A en : /\ FrameFits(en, last, cursor - 1)
               /\ \A b \in len + 1 .. len + n : en[b] = add[b]
               => FrameFits(en, fr, cursor)
  BY <1>10
<1>. QED
  <2>1. /\ "IfCond" \in {"IfCond", "WhileCond"} /\ EndExp("IfCond")
        /\ then \in Nat /\ no \in Nat /\ n \in Nat /\ new \in [1 .. n -> {<<>>}]
        /\ blocks' = Put(CondBranch(<<then, no>>)) \o new
        /\ fr \in Frames /\ frames' = [frames EXCEPT ![Len(frames)] = fr]
        /\ fr.node = Last(frames).node /\ FrameOK(fr, Len(blocks) + n)
        /\ insert' = then /\ Pending(fr) \subseteq (Len(blocks) + 1 .. Len(blocks) + n) \ {then}
        /\ then \in Len(blocks) + 1 .. Len(blocks) + n /\ no \in Len(blocks) + 1 .. Len(blocks) + n
        /\ add[then] = cursor + 1 /\ add[no] = Source!Otherwise(fr.node)
    BY <1>1, <1>4, <1>5, <1>6, <1>7, <1>8, <1>9, <1>11 DEF len, p, last
  <2>2. FitsAdded(add, n, fr)
    BY <1>12 DEF len, last, FitsAdded
  <2>. QED  BY <2>1, <2>2, TraceCond

(* The condition of a loop.                                                *)
LEMMA TraceEndWhileCond ==
  ASSUME TypeInv, InsertOK, TablesOK, OperandInv, TraceInv, EndWhileCond
  PROVE  TraceInv'
<1>. DEFINE len  == Len(blocks)  last == Last(frames)  p == last.node
            body == len + 1
            join == len + 2
            fr   == [last EXCEPT !.pc = "WhileBody", !.join = join]
            new  == << <<>>, <<>> >>
            behind == Source!EndWhileOf(p) + 1
            add  == [b \in len + 1 .. len + 2 |-> IF b = body THEN cursor + 1 ELSE behind]
<1>1. "WhileCond" \in ExpPoints /\ EndExp("WhileCond")
  BY Waiting DEF EndWhileCond
<1>2. /\ frames # <<>> /\ frames \in Seq(Frames) /\ cursor \in Nat /\ cursor > 0
      /\ last \in Frames /\ last.pc = "WhileCond" /\ FrameOK(last, len)
      /\ syntax[cursor].n = "EndExp" /\ p \in Nat /\ p > 0 /\ p < cursor /\ p \in 1 .. cursor
      /\ len \in Nat \ {0} /\ len \in Nat
  BY <1>1, Evaluated, Building
<1>3. last = frames[Len(frames)]
  BY <1>2, LastFrame
<1>4. /\ frames' = [frames EXCEPT ![Len(frames)] = fr] /\ insert' = body
      /\ blocks' = Put(CondBranch(<<body, join>>)) \o new
  BY <1>3 DEF EndWhileCond
<1>. HIDE DEF len, p, last
<1>5. /\ join \in Nat /\ body \in Nat /\ 2 \in Nat /\ body # join /\ 0 \in Nat
      /\ body \in len + 1 .. len + 2 /\ join \in len + 1 .. len + 2
      /\ {join} = (len + 1 .. len + 2) \ {body}
  BY <1>2
<1>6. new \in [1 .. 2 -> {<<>>}]
  OBVIOUS
<1>. HIDE DEF new, body, join, behind
<1>7. add[body] = cursor + 1 /\ add[join] = behind
  BY <1>5
<1>. HIDE DEF add
<1>8. fr \in Frames /\ fr.pc = "WhileBody" /\ fr.node = p /\ fr.join = join /\ fr.loop = last.loop
  <2>1. fr \in Frames
    BY <1>2, <1>5, BodyFrame
  <2>2. fr.pc = "WhileBody" /\ fr.node = last.node /\ fr.join = join /\ fr.loop = last.loop
    BY <1>2 DEF Frames
  <2>. QED  BY <2>1, <2>2 DEF p
<1>. HIDE DEF fr
<1>9. FrameOK(fr, len + 2) /\ Pending(fr) \subseteq (len + 1 .. len + 2) \ {body}
  <2>1. last.loop \in 2 .. len
    BY <1>2 DEF FrameOK, LoopPoints
  <2>2. fr.loop \in 2 .. len + 2
    BY <1>2, <1>8, <2>1
  <2>3. FrameOK(fr, len + 2)
    BY <1>8, <2>2 DEF FrameOK, LoopPoints
  <2>4. Pending(fr) = {join}
    BY <1>8 DEF Pending
  <2>. QED  BY <1>5, <2>3, <2>4
<1>10. \A en : FrameFits(en, last, cursor - 1) =>
                 syntax[p].n = "While" /\ Shut(p + 1, cursor - 1) /\ en[last.loop] = p + 1
  BY <1>2 DEF FrameFits, p, LoopPoints, ElsePoints
<1>11. add[join] = Source!Otherwise(fr.node)
  <2>1. PICK old : Follows(old, frames[1].node, blocks, insert, frames, cursor) /\ FrameFits(old, last, cursor - 1)
    BY <1>1, Evaluated DEF last
  <2>2. Source!Otherwise(p) = Source!EndWhileOf(p) + 1
    BY <1>10, <2>1 DEF Source!Otherwise
  <2>. QED  BY <1>7, <1>8, <2>2 DEF behind
<1>12. ASSUME NEW en, FrameFits(en, last, cursor - 1),
              \A b \in len + 1 .. len + 2 : en[b] = add[b]
       PROVE  FrameFits(en, fr, cursor)
  <2>1. syntax[p].n = "While" /\ Shut(p + 1, cursor - 1) /\ en[fr.loop] = p + 1
    BY <1>8, <1>10, <1>12
  <2>2. Shut(p + 1, cursor)
    <3>1. cursor - 1 \in Nat /\ cursor = (cursor - 1) + 1 /\ p + 1 \in Nat /\ p + 1 <= cursor
      BY <1>2
    <3>2. PlainNode(cursor)
      BY <1>2 DEF PlainNode
    <3>. QED  BY <2>1, <3>1, <3>2, ShutMore
  <2>3. en[fr.join] = Source!EndWhileOf(p) + 1
    BY <1>5, <1>7, <1>8, <1>12 DEF behind
  <2>4. /\ "WhileBody" \in LoopPoints /\ "WhileBody" \in {"WhileBody", "BodyEnd"}
        /\ "WhileBody" \notin {"IfCond"} \cup BodyPoints /\ "WhileBody" \notin ThenPoints \cup ElsePoints
    BY DEF BodyPoints, ThenPoints, ElsePoints, LoopPoints
  <2>. QED  BY <1>2, <1>8, <2>1, <2>2, <2>3, <2>4 DEF FrameFits, Openers
<1>. QED
  <2>1. /\ "WhileCond" \in {"IfCond", "WhileCond"} /\ EndExp("WhileCond")
        /\ body \in Nat /\ join \in Nat /\ 2 \in Nat /\ new \in [1 .. 2 -> {<<>>}]
        /\ blocks' = Put(CondBranch(<<body, join>>)) \o new
        /\ fr \in Frames /\ frames' = [frames EXCEPT ![Len(frames)] = fr]
        /\ fr.node = Last(frames).node /\ FrameOK(fr, Len(blocks) + 2)
        /\ insert' = body /\ Pending(fr) \subseteq (Len(blocks) + 1 .. Len(blocks) + 2) \ {body}
        /\ body \in Len(blocks) + 1 .. Len(blocks) + 2 /\ join \in Len(blocks) + 1 .. Len(blocks) + 2
        /\ add[body] = cursor + 1 /\ add[join] = Source!Otherwise(fr.node)
    BY <1>1, <1>4, <1>5, <1>6, <1>7, <1>8, <1>9, <1>11 DEF len, p, last
  <2>2. FitsAdded(add, 2, fr)
    BY <1>12 DEF len, last, FitsAdded
  <2>. QED  BY <2>1, <2>2, TraceCond

(* The program has not changed.                                            *)
LEMMA TraceAfter ==
  ASSUME syntax' = syntax,
         frames' # <<>> =>
           IsBody(frames'[1].node) /\ Built(frames'[1].node, blocks', insert', frames', cursor'),
         \A m \in DOMAIN module' : Compiled(module'[m].def, module'[m].blocks)
  PROVE  TraceInv'
<1>1. /\ \A f : IsBody(f)' <=> IsBody(f)
      /\ \A f, bs, ins, fs, k : Built(f, bs, ins, fs, k)' <=> Built(f, bs, ins, fs, k)
      /\ \A f, bs : Compiled(f, bs)' <=> Compiled(f, bs)
  BY SameBuilt
<1>2. ASSUME frames' # <<>>
      PROVE  IsBody(frames[1].node)' /\ Built(frames[1].node, blocks, insert, frames, cursor)'
  <2>1. IsBody(frames[1].node)'
    BY <1>1, <1>2
  <2>2. Built(frames[1].node, blocks, insert, frames, cursor)'
    BY <1>1, <1>2
  <2>. QED  BY <2>1, <2>2
<1>3. \A m \in DOMAIN module' : Compiled(module[m].def, module[m].blocks)'
  BY <1>1
<1>. QED  BY <1>2, <1>3 DEF TraceInv

(* An assignment is started, unless its variable has no location.          *)
LEMMA TraceVisitAssign ==
  ASSUME TypeInv, InsertOK, TablesOK, TraceInv, VisitAssign
  PROVE  TraceInv'
<1>1. CASE Abort
  BY <1>1, BuiltSame DEF Abort
<1>2. CASE VisitExpOf("Assign", "AssignExp")
  <2>1. "AssignExp" \in PlainPoints
    BY DEF PlainPoints, ExpPoints
  <2>. QED  BY <1>2, <2>1, TraceVisitExpOf
<1>. QED  BY <1>1, <1>2 DEF VisitAssign

(* A function is started, or passed if it has no body.                     *)
LEMMA TraceBegin ==
  ASSUME TypeInv, TraceInv, BeginFunction
  PROVE  TraceInv'
<1>1. /\ cursor \in DOMAIN syntax /\ syntax[cursor].n = "Func" /\ cursor \in Nat \ {0}
      /\ cursor' = cursor + 1 /\ UNCHANGED <<syntax, module>> /\ frames = <<>>
  BY ReadingNode DEF BeginFunction, TypeInv, TypeOK
<1>. DEFINE fr == NewFrame("FuncBody", 0)  fs == <<fr>>  bs == << <<>> >>
            en == [b \in {1} |-> cursor + 1]
<1>2. \/ frames' = <<>>
      \/ syntax[cursor].def.body /\ frames' = fs /\ blocks' = bs /\ insert' = 1
  BY <1>1 DEF BeginFunction
<1>3. fr.pc = "FuncBody" /\ fr.node = cursor /\ Pending(fr) = {} /\ (\A n : FrameOK(fr, n)) /\ fr \in Frames
  <2>1. "FuncBody" \in ControlPoints /\ 0 \in Nat
    BY DEF ControlPoints, StmtPoints
  <2>2. fr \in Frames
    BY <1>1, <2>1 DEF NewFrame, Frames
  <2>. QED  BY <2>2 DEF NewFrame, Pending, FrameOK, LoopPoints
<1>4. fs = Append(<<>>, fr)
  OBVIOUS
<1>. HIDE DEF fr
<1>5. /\ fs # <<>> /\ fs[1] = fr /\ \A i \in DOMAIN fs : fs[i] = fr /\ i = 1
      /\ Len(bs) = 1 /\ (\A b \in DOMAIN bs : bs[b] = <<>>) /\ bs[1] = <<>>
      /\ en[1] = cursor + 1
  OBVIOUS
<1>. HIDE DEF fs, bs, en
<1>6. PendingOK(fs, bs, 1) /\ Inside(bs, Len(bs))
  BY <1>3, <1>5 DEF PendingOK, Inside, Aimed
<1>7. CodeOK(en, bs) /\ EndsAt(en, bs, 1, cursor + 1)
  <2>1. CodeOK(en, bs)
    BY <1>5, TakesNothing DEF CodeOK
  <2>2. EndsAt(en, bs, 1, en[1])
    BY <1>5, EndsEmpty
  <2>. QED  BY <1>5, <2>1, <2>2
<1>8. Fits(en, fs, cursor + 1)
  <2>1. Shut(cursor + 1, cursor) /\ cursor \in 1 .. cursor /\ (cursor + 1) - 1 = cursor
    BY <1>1, ShutEmpty
  <2>2. "FuncBody" \notin LoopPoints \cup BodyPoints \cup {"IfCond"} \cup ElsePoints \cup ThenPoints
    BY DEF LoopPoints, BodyPoints, ElsePoints, ThenPoints
  <2>3. FrameFits(en, fr, cursor)
    BY <1>1, <1>3, <2>1, <2>2 DEF FrameFits, Openers, LoopPoints
  <2>4. FrameFits(en, fr, (cursor + 1) - 1)
    BY <2>1, <2>3
  <2>. DEFINE none == <<>>
  <2>5. none \in Seq(Frames) /\ Fits(en, none, fr.node)
    BY DEF Fits
  <2>6. Fits(en, Append(none, fr), cursor + 1)
    <3>. HIDE DEF none
    <3>. QED  BY <1>3, <2>4, <2>5, FitsJoined
  <2>. QED  BY <1>4, <2>6
<1>9. Built(cursor, bs, 1, fs, cursor + 1)
  BY <1>5, <1>6, <1>7, <1>8 DEF Built, Follows
<1>10. \A m \in DOMAIN module' : Compiled(module'[m].def, module'[m].blocks)
  BY <1>1 DEF TraceInv
<1>11. ASSUME frames' # <<>>
       PROVE  IsBody(frames'[1].node) /\ Built(frames'[1].node, blocks', insert', frames', cursor')
  <2>1. IsBody(cursor) /\ frames' = fs /\ blocks' = bs /\ insert' = 1
    BY <1>1, <1>2, <1>11 DEF IsBody
  <2>2. frames'[1].node = cursor
    BY <1>3, <1>5, <2>1
  <2>. QED  BY <1>1, <1>9, <2>1, <2>2
<1>. QED  BY <1>1, <1>10, <1>11, TraceAfter

(* A function ends, and a missing return is supplied.                      *)
LEMMA TraceEnd ==
  ASSUME TypeInv, InsertOK, TablesOK, TraceInv, EndFunction
  PROVE  TraceInv'
<1>. DEFINE ret  == Instr("ret", <<"i32">>)
            body == IF HasTerminator(blocks[insert]) THEN blocks ELSE Put(<<ret>>)
            g    == frames[1].node
            done == [def |-> g, blocks |-> body]
<1>1. /\ cursor \in DOMAIN syntax /\ syntax[cursor].n = "EndFunc"
      /\ frames # <<>> /\ syntax' = syntax
      /\ module \in Seq([def : Nat, blocks : Seq(Blocks)])
      /\ frames' = <<>> /\ module' = Append(module, done)
  BY ReadingNode DEF EndFunction, TypeInv, TypeOK, At
<1>2. done.def = g /\ done.blocks = body
  OBVIOUS
<1>3. /\ ret \in Instrs /\ ret.op = "ret" /\ ret.to = <<>> /\ <<ret>> \in Seq(Instrs)
      /\ \A n : Aimed(<<ret>>, n)
  <2>1. "ret" \in Opcodes /\ <<"i32">> \in Seq(IRTypes)
    BY DEF Opcodes, Terminators, IRTypes
  <2>2. ret \in Instrs
    BY <2>1, InstrType
  <2>3. ret.op = "ret" /\ ret.to = <<>>
    BY DEF Instr
  <2>. HIDE DEF ret
  <2>4. \A i \in DOMAIN <<ret>> : <<ret>>[i] = ret
    OBVIOUS
  <2>. QED  BY <2>2, <2>3, <2>4 DEF Aimed
<1>4. body = blocks \/ body = Put(<<ret>>)
  OBVIOUS
<1>. HIDE DEF body, done, ret
<1>5. Compiled(g, body)
  <2>1. PICK en : Follows(en, g, blocks, insert, frames, cursor)
    BY <1>1, Building
  <2>2. /\ IsBody(g) /\ blocks # <<>> /\ blocks \in Seq(Blocks) /\ insert \in DOMAIN blocks /\ Inside(blocks, Len(blocks))
        /\ en[1] = g + 1 /\ CodeOK(en, blocks) /\ EndsAt(en, blocks, insert, cursor)
    BY <1>1, <2>1, Building DEF Follows
  <2>3. CodeOK(en, Put(<<ret>>))
    <3>1. Source!Observable(cursor) /\ Source!EventAt(cursor, FALSE) = Source!Returned
      BY <1>1 DEF Source!Observable, Source!EventAt, Source!Reads, Source!Calls, Source!Writes,
                  Source!Tests, Source!Returns
    <3>2. ret.op \in EventOps /\ Does(ret) = Source!Returned
      BY <1>3 DEF EventOps, Does
    <3>. QED  BY <1>1, <1>3, <2>2, <3>1, <3>2, StmtInstr
  <2>4. Inside(Put(<<ret>>), Len(Put(<<ret>>))) /\ Put(<<ret>>) # <<>>
    <3>. DEFINE put == Put(<<ret>>)
    <3>0. Len(put) = Len(blocks) /\ insert \in DOMAIN put
      BY <1>3, <2>2, PutType
    <3>1. Len(Put(<<ret>>)) = Len(blocks) /\ Put(<<ret>>) # <<>>
      <4>. HIDE DEF put
      <4>1. put # <<>>
        BY <3>0
      <4>. QED  BY <3>0, <4>1 DEF put
    <3>2. Inside(Put(<<ret>>), Len(blocks))
      BY <1>3, <2>2, PutInside
    <3>. QED  BY <3>1, <3>2
  <2>. QED  BY <1>4, <2>2, <2>3, <2>4 DEF Compiled
<1>. HIDE DEF g
<1>6. /\ DOMAIN module' = 1 .. Len(module) + 1 /\ DOMAIN module = 1 .. Len(module) /\ Len(module) \in Nat
      /\ \A m \in 1 .. Len(module) : module'[m] = module[m]
      /\ module'[Len(module) + 1] = done
  BY <1>1
<1>7. \A m \in DOMAIN module' : m = Len(module) + 1 \/ m \in DOMAIN module
  BY <1>6
<1>8. \A m \in DOMAIN module' : Compiled(module'[m].def, module'[m].blocks)
  BY <1>2, <1>5, <1>6, <1>7 DEF TraceInv
<1>. QED  BY <1>1, <1>8, TraceAfter

(* Every step of code generation.                                          *)
LEMMA TraceNext ==
  ASSUME IInv, LookupInv, OperandInv, TraceInv, [Next \/ Returned]_vars
  PROVE  TraceInv'
<1>1. TypeInv /\ InsertOK /\ TablesOK
  BY DEF IInv, OpenInv, OthersEnd, InsertOK, LookupInv
<1>2. CASE BeginFunction
  BY <1>1, <1>2, TraceBegin
<1>3. CASE EndFunction
  BY <1>1, <1>3, TraceEnd
<1>4. CASE NextExp
  BY <1>1, <1>4, TraceNextExp
<1>5. CASE NextStmt
  <2>1. ASSUME VisitReturn \/ VisitCallStmt \/ VisitIf \/ VisitSeq PROVE TraceInv'
    <3>1. {"ReturnExp", "CallExp", "IfCond", "Seq"} \subseteq PlainPoints
      BY DEF PlainPoints, ExpPoints
    <3>. QED  BY <1>1, <2>1, <3>1, TraceVisitExpOf DEF VisitReturn, VisitCallStmt, VisitIf, VisitSeq
  <2>2. ASSUME VisitAssign \/ VisitDecl \/ VisitWhile PROVE TraceInv'
    BY <1>1, <2>2, TraceVisitAssign, TraceVisitDecl, TraceVisitWhile
  <2>3. ASSUME EndSeq \/ VisitElse \/ EndIf \/ EndWhile PROVE TraceInv'
    BY <1>1, <2>3, TraceEndSeq, TraceVisitElse, TraceEndIf, TraceEndWhile
  <2>4. ASSUME EndCallStmt \/ EndReturn \/ EndAssign \/ EndDeclInit PROVE TraceInv'
    BY <1>1, <2>4, TraceEndStmt
  <2>5. ASSUME EndIfCond \/ EndWhileCond PROVE TraceInv'
    BY <1>1, <2>5, TraceEndIfCond, TraceEndWhileCond
  <2>. QED  BY <1>5, <2>1, <2>2, <2>3, <2>4, <2>5 DEF NextStmt
<1>6. CASE Finish \/ UNCHANGED vars
  BY <1>6, BuiltSame DEF Finish, vars, genVars
<1>. QED  BY <1>2, <1>3, <1>4, <1>5, <1>6 DEF Next, Returned

LEMMA StartTrace == ASSUME Start PROVE TraceInv
  BY DEF Start, TraceInv

-----------------------------------------------------------------------------
(* Execution                                                               *)

\* The next instruction stands for the source where it is followed, or where
\* it gets to silently.
OnTrack ==
  LET bs == module[running].blocks IN
  /\ block \in DOMAIN bs /\ next \in DOMAIN bs[block]
  /\ \E en, p : /\ CodeOK(en, bs) /\ Traced(en, p, bs[block])
                /\ \E z : Leads(p[next], z) /\ Leads(at, z)

ExecInv ==
  /\ DefinedIsStored
  /\ running = 0 => at = 0 /\ defined = {}
  /\ running # 0 => running \in DOMAIN module /\ status = "done" /\ ModuleVerifies
  /\ running # 0 /\ event # Source!Returned => OnTrack

(* The blocks of verified functions.                                       *)
LEMMA VerifiedBlocks ==
  ASSUME TypeOK, TraceInv, ModuleVerifies, NEW m \in DOMAIN module
  PROVE  LET bs == module[m].blocks IN
         /\ bs \in Seq(Blocks) /\ bs # <<>> /\ 1 \in DOMAIN bs /\ DOMAIN bs = 1 .. Len(bs)
         /\ Inside(bs, Len(bs))
         /\ \A b \in DOMAIN bs :
              /\ bs[b] \in Seq(Instrs) /\ Len(bs[b]) \in Nat /\ DOMAIN bs[b] = 1 .. Len(bs[b])
              /\ 1 \in DOMAIN bs[b] /\ bs[b][Len(bs[b])].op \in Terminators /\ ~Cut(bs[b])
<1>. DEFINE bs == module[m].blocks
<1>1. bs \in Seq(Blocks)
  <2>. DEFINE S == [def : Nat, blocks : Seq(Blocks)]
  <2>1. module \in Seq(S)
    BY DEF TypeOK
  <2>2. module[m] \in S
    <3>. HIDE DEF S
    <3>. QED  BY <2>1
  <2>. QED  BY <2>2
<1>2. bs # <<>> /\ Inside(bs, Len(bs))
  BY DEF TraceInv, Compiled
<1>3. \A b \in DOMAIN bs : TerminatorsEnd(bs[b])
  BY DEF ModuleVerifies, Passes, Verified
<1>. HIDE DEF bs
<1>4. 1 \in DOMAIN bs /\ DOMAIN bs = 1 .. Len(bs)
  BY <1>1, <1>2
<1>5. ASSUME NEW b \in DOMAIN bs
      PROVE  /\ bs[b] \in Seq(Instrs) /\ Len(bs[b]) \in Nat /\ DOMAIN bs[b] = 1 .. Len(bs[b])
             /\ 1 \in DOMAIN bs[b] /\ bs[b][Len(bs[b])].op \in Terminators /\ ~Cut(bs[b])
  <2>. DEFINE c == bs[b]
  <2>1. c \in Seq(Instrs)
    BY <1>1 DEF Blocks
  <2>2. c # <<>> /\ c[Len(c)].op \in Terminators /\ ~Cut(c)
    BY <1>3 DEF TerminatorsEnd, HasTerminator, Cut
  <2>. HIDE DEF c
  <2>3. Len(c) \in Nat /\ DOMAIN c = 1 .. Len(c) /\ 1 \in DOMAIN c
    BY <2>1, <2>2
  <2>. QED  BY <2>1, <2>2, <2>3 DEF c
<1>. QED  BY <1>1, <1>2, <1>4, <1>5 DEF bs

(* The program and its code do not change.                                 *)
LEMMA TrackAfter ==
  ASSUME syntax' = syntax, module' = module,
         NEW bs, bs = module[running'].blocks,
         block' \in DOMAIN bs, next' \in DOMAIN bs[block'],
         NEW en, CodeOK(en, bs), NEW p, Traced(en, p, bs[block']),
         NEW z, Leads(p[next'], z), Leads(at', z)
  PROVE  OnTrack'
<1>1. /\ \A x, y : Leads(x, y)' <=> Leads(x, y)
      /\ \A e, q, b : Traced(e, q, b)' <=> Traced(e, q, b)
      /\ \A e, cs : CodeOK(e, cs)' <=> CodeOK(e, cs)
  BY SameTrace
<1>2. CodeOK(en, module[running].blocks)' /\ Traced(en, p, module[running].blocks[block])'
  BY <1>1
<1>3. Leads(p[next], z)' /\ Leads(at, z)'
  BY <1>1
<1>. QED  BY <1>2, <1>3 DEF OnTrack

(* The source at the next instruction.                                     *)
LEMMA AtPoint ==
  ASSUME TypeOK, TraceInv, ExecInv, Running
  PROVE  LET bs == module[running].blocks IN
         /\ running \in DOMAIN module /\ block \in DOMAIN bs /\ next \in DOMAIN bs[block] /\ ModuleVerifies
         /\ Current \in Instrs /\ ~Silent(at)
         /\ \E en, p : /\ CodeOK(en, bs) /\ Traced(en, p, bs[block])
                       /\ Leads(p[next], at) /\ Moves(en, p[next], Current, p[next + 1])
<1>. DEFINE bs == module[running].blocks
<1>1. /\ running \in DOMAIN module /\ ModuleVerifies /\ OnTrack
  BY DEF ExecInv, Running, Settled
<1>2. block \in DOMAIN bs /\ next \in DOMAIN bs[block]
  BY <1>1 DEF OnTrack
<1>3. bs[block] \in Seq(Instrs)
  BY <1>1, <1>2, VerifiedBlocks
<1>4. Current \in Instrs /\ Current = bs[block][next]
  BY <1>2, <1>3 DEF Current
<1>5. ~Silent(at)
  BY DEF Running, Settled, Silent, Source!Executing
<1>6. PICK en, p : /\ CodeOK(en, bs) /\ Traced(en, p, bs[block])
                   /\ \E z : Leads(p[next], z) /\ Leads(at, z)
  BY <1>1 DEF OnTrack
<1>7. Leads(p[next], at)
  BY <1>5, <1>6, LeadsNowhere
<1>8. Moves(en, p[next], Current, p[next + 1])
  BY <1>2, <1>4, <1>6 DEF Traced
<1>. QED  BY <1>1, <1>2, <1>4, <1>5, <1>6, <1>7, <1>8

(* Control goes on to the next instruction, or to a block.                 *)
LEMMA WentOn ==
  ASSUME TypeOK, TraceInv, running \in DOMAIN module, ModuleVerifies,
         UNCHANGED <<syntax, module, running>>,
         NEW bs, bs = module[running].blocks, block \in DOMAIN bs, next \in DOMAIN bs[block],
         NEW en, CodeOK(en, bs), NEW p, Traced(en, p, bs[block]),
         NEW taken \in BOOLEAN, GoOn(taken), Current.op # "ret",
         Current.op \in {"br", "condbr"} => Current.to # <<>>,
         Leads(IF Current.to = <<>> THEN p[next + 1]
               ELSE en[Current.to[IF taken THEN 1 ELSE Len(Current.to)]], at')
  PROVE  OnTrack'
<1>. DEFINE c == bs[block]
<1>1. /\ bs \in Seq(Blocks) /\ DOMAIN bs = 1 .. Len(bs) /\ Inside(bs, Len(bs))
      /\ \A b \in DOMAIN bs :
           /\ bs[b] \in Seq(Instrs) /\ Len(bs[b]) \in Nat /\ DOMAIN bs[b] = 1 .. Len(bs[b])
           /\ 1 \in DOMAIN bs[b] /\ bs[b][Len(bs[b])].op \in Terminators /\ ~Cut(bs[b])
  BY VerifiedBlocks
<1>2. Current = c[next] /\ c \in Seq(Instrs) /\ Current \in Instrs
  BY <1>1 DEF Current
<1>3. Leads(at', at')
  BY LeadsSelf
<1>4. CASE Current.to = <<>>
  <2>1. Current.op \notin Terminators
    BY <1>4 DEF Terminators
  <2>2. next + 1 \in DOMAIN c
    <3>1. /\ Len(c) \in Nat /\ DOMAIN c = 1 .. Len(c) /\ c[Len(c)].op \in Terminators
      BY <1>1
    <3>2. next # Len(c)
      BY <1>2, <2>1, <3>1
    <3>3. next \in DOMAIN c
      OBVIOUS
    <3>. HIDE DEF c
    <3>. QED  BY <3>1, <3>2, <3>3
  <2>3. block' = block /\ next' = next + 1
    BY <1>4 DEF GoOn
  <2>4. Leads(p[next'], at')
    BY <1>4, <2>3
  <2>. QED  BY <1>3, <2>2, <2>3, <2>4, TrackAfter
<1>5. CASE Current.to # <<>>
  <2>. DEFINE t == IF taken THEN 1 ELSE Len(Current.to)  b == Current.to[t]
  <2>1. t \in DOMAIN Current.to
    <3>1. Current.to \in Seq(Nat)
      BY <1>2 DEF Instrs
    <3>. QED  BY <1>5, <3>1
  <2>2. b \in DOMAIN bs
    <3>1. b \in 2 .. Len(bs)
      BY <1>1, <1>2, <2>1 DEF Inside, Aimed
    <3>2. Len(bs) \in Nat
      BY <1>1
    <3>. HIDE DEF b
    <3>. QED  BY <1>1, <3>1, <3>2
  <2>3. block' = b /\ next' = 1
    BY <1>5 DEF GoOn
  <2>4. Leads(en[b], at')
    BY <1>5
  <2>. HIDE DEF b, t
  <2>5. PICK q : q[1] = en[b] /\ Traced(en, q, bs[b])
    BY <1>1, <2>2 DEF CodeOK, Takes
  <2>6. Leads(q[next'], at') /\ next' \in DOMAIN bs[block']
    BY <1>1, <2>2, <2>3, <2>4, <2>5
  <2>. QED  BY <1>3, <2>2, <2>3, <2>5, <2>6, TrackAfter
<1>. QED  BY <1>4, <1>5

(* What the steps of the source do to the variables that are defined.      *)
LEMMA DefinedNext ==
  /\ ~Source!Writes(at) => Source!DefinedAfter(at) \subseteq defined
  /\ Source!Writes(at) => Source!DefinedAfter(at) \subseteq defined \cup {Source!Target(Source!StmtOf(at))}
  /\ syntax[at].n = "Decl" => Source!DefinedAfter(at) = defined \ {Source!Target(at)}
<1>1. syntax[at].n = "Decl" => ~Source!Writes(at)
  BY DEF Source!Writes
<1>. QED  BY <1>1 DEF Source!DefinedAfter

(* A function is called.                                                   *)
LEMMA RunStep ==
  ASSUME TypeOK, TraceInv, ExecInv, Run
  PROVE  ExecInv' /\ Source!CallFunction
<1>1. PICK m \in DOMAIN module : running' = m /\ at' = module[m].def + 1
  BY DEF Run
<1>2. /\ status = "done" /\ running = 0 /\ ModuleVerifies /\ block' = 1 /\ next' = 1 /\ stored' = {}
      /\ event' = Source!Called /\ defined' = {}
      /\ UNCHANGED <<syntax, module, status>> /\ at = 0 /\ defined = {}
  BY DEF Run, ExecInv, vars, genVars
<1>. DEFINE bs == module[m].blocks
<1>3. /\ IsBody(module[m].def)
      /\ \E en : en[1] = module[m].def + 1 /\ CodeOK(en, bs)
  BY DEF TraceInv, Compiled
<1>4. 1 \in DOMAIN bs /\ 1 \in DOMAIN bs[1] /\ ~Cut(bs[1])
  BY <1>2, VerifiedBlocks
<1>5. PICK en : en[1] = at' /\ CodeOK(en, bs)
  BY <1>1, <1>3
<1>6. PICK p : p[1] = at' /\ Traced(en, p, bs[1])
  BY <1>4, <1>5 DEF CodeOK, Takes
<1>7. Leads(at', at')
  BY LeadsSelf
<1>8. OnTrack'
  <2>1. Leads(p[next'], at')
    BY <1>2, <1>6, <1>7
  <2>2. bs = module[running'].blocks /\ block' \in DOMAIN bs /\ next' \in DOMAIN bs[block'] /\ Traced(en, p, bs[block'])
    BY <1>1, <1>2, <1>4, <1>6
  <2>. HIDE DEF bs
  <2>. QED  BY <1>2, <1>5, <1>7, <2>1, <2>2, TrackAfter
<1>9. ModuleVerifies'
  BY <1>2 DEF ModuleVerifies, Passes
<1>10. running' # 0
  <2>1. module \in Seq([def : Nat, blocks : Seq(Blocks)])
    BY DEF TypeOK
  <2>. QED  BY <1>1, <2>1
<1>11. ExecInv'
  BY <1>1, <1>2, <1>8, <1>9, <1>10 DEF ExecInv, DefinedIsStored
<1>12. Source!CallFunction
  BY <1>1, <1>2, <1>3 DEF Source!CallFunction, IsBody
<1>. QED  BY <1>11, <1>12

(* The source is followed to where something is observed.                  *)
LEMMA FollowStep ==
  ASSUME TypeOK, TraceInv, ExecInv, Follow
  PROVE  ExecInv' /\ Source!Silently
<1>1. /\ running # 0 /\ Source!Executing /\ ~Source!Observable(at) /\ Source!Proceed(FALSE)
      /\ stored' = IF syntax[at].n = "Decl" THEN stored \ {Source!Target(at)} ELSE stored
      /\ UNCHANGED <<syntax, module, status, running, block, next, event>>
  BY DEF Follow, vars, genVars
<1>2. at' = Source!Onward(at, FALSE) /\ defined' = Source!DefinedAfter(at)
  BY <1>1 DEF Source!Proceed
<1>3. Silent(at)
  BY <1>1 DEF Silent, Source!Executing
<1>4. Source!Silently
  BY <1>1 DEF Source!Silently
<1>5. DefinedIsStored'
  <2>1. ~Source!Writes(at)
    BY <1>1 DEF Source!Observable
  <2>2. CASE syntax[at].n = "Decl"
    BY <1>1, <1>2, <2>2, DefinedNext DEF ExecInv, DefinedIsStored
  <2>3. CASE syntax[at].n # "Decl"
    BY <1>1, <1>2, <2>1, <2>3, DefinedNext DEF ExecInv, DefinedIsStored
  <2>. QED  BY <2>2, <2>3
<1>6. ASSUME event' # Source!Returned PROVE OnTrack'
  <2>. DEFINE bs == module[running].blocks
  <2>1. OnTrack
    BY <1>1, <1>6 DEF ExecInv
  <2>2. block \in DOMAIN bs /\ next \in DOMAIN bs[block]
    BY <2>1 DEF OnTrack
  <2>3. PICK en, p : /\ CodeOK(en, bs) /\ Traced(en, p, bs[block])
                     /\ \E z : Leads(p[next], z) /\ Leads(at, z)
    BY <2>1 DEF OnTrack
  <2>4. PICK z : Leads(p[next], z) /\ Leads(at, z)
    BY <2>3
  <2>5. \E y : Leads(p[next], y) /\ Leads(at', y)
    <3>1. CASE at = z
      <4>1. Leads(p[next], at')
        BY <1>2, <1>3, <2>4, <3>1, LeadsOn
      <4>. QED  BY <4>1, LeadsSelf
    <3>2. CASE at # z
      BY <1>2, <1>3, <2>4, <3>2, LeadsFirst
    <3>. QED  BY <3>1, <3>2
  <2>6. PICK y : Leads(p[next], y) /\ Leads(at', y)
    BY <2>5
  <2>7. bs = module[running'].blocks /\ block' \in DOMAIN bs /\ next' \in DOMAIN bs[block']
        /\ Traced(en, p, bs[block']) /\ Leads(p[next'], y)
    BY <1>1, <2>2, <2>3, <2>6
  <2>. HIDE DEF bs
  <2>. QED  BY <1>1, <2>3, <2>6, <2>7, TrackAfter
<1>7. ModuleVerifies => ModuleVerifies'
  BY <1>1 DEF ModuleVerifies, Passes
<1>8. ExecInv'
  BY <1>1, <1>5, <1>6, <1>7 DEF ExecInv
<1>. QED  BY <1>4, <1>8

(* An instruction that nothing is observed of.                             *)
LEMMA ComputeStep ==
  ASSUME TypeOK, TraceInv, ExecInv, Compute
  PROVE  ExecInv' /\ UNCHANGED Source!meaningVars
<1>. DEFINE bs == module[running].blocks
<1>1. /\ Running /\ Current.op \notin DOMAIN Events \cup {"condbr"} /\ GoOn(TRUE)
      /\ UNCHANGED <<syntax, module, status, running, stored, event, at, defined>>
  BY DEF Compute, vars, genVars
<1>2. Current.op \notin EventOps \cup {"condbr"}
  BY <1>1 DEF Events, EventOps
<1>3. /\ running \in DOMAIN module /\ block \in DOMAIN bs /\ next \in DOMAIN bs[block] /\ ModuleVerifies
      /\ Current \in Instrs /\ ~Silent(at)
      /\ \E en, p : /\ CodeOK(en, bs) /\ Traced(en, p, bs[block])
                    /\ Leads(p[next], at) /\ Moves(en, p[next], Current, p[next + 1])
  BY <1>1, AtPoint
<1>4. PICK en, p : /\ CodeOK(en, bs) /\ Traced(en, p, bs[block])
                   /\ Leads(p[next], at) /\ Moves(en, p[next], Current, p[next + 1])
  BY <1>3
<1>5. Current.op \in {"br", "condbr"} => Current.to # <<>>
  BY <1>2, <1>4 DEF Moves
<1>. DEFINE y == IF Current.to = <<>> THEN p[next + 1]
                 ELSE en[Current.to[IF TRUE THEN 1 ELSE Len(Current.to)]]
<1>6. Leads(y, at')
  <2>1. Leads(p[next], y)
    BY <1>2, <1>4 DEF Moves
  <2>. HIDE DEF y
  <2>2. Leads(y, at)
    BY <1>3, <1>4, <2>1, LeadsOneWay
  <2>. QED  BY <1>1, <2>2
<1>7. Current.op # "ret" /\ TRUE \in BOOLEAN
  BY <1>2 DEF EventOps
<1>8. OnTrack'
  <2>. HIDE DEF bs
  <2>1. bs = module[running].blocks
    BY DEF bs
  <2>. QED  BY <1>1, <1>3, <1>4, <1>5, <1>6, <1>7, <2>1, WentOn
<1>9. ModuleVerifies'
  BY <1>1, <1>3 DEF ModuleVerifies, Passes
<1>10. ExecInv'
  BY <1>1, <1>8, <1>9 DEF ExecInv, DefinedIsStored
<1>11. UNCHANGED Source!meaningVars
  BY <1>1 DEF Source!meaningVars
<1>. QED  BY <1>10, <1>11

(* An access, a call or a return.                                          *)
LEMMA PerformStep ==
  ASSUME TypeOK, TraceInv, ExecInv, Perform
  PROVE  ExecInv' /\ Source!Observably
<1>. DEFINE bs == module[running].blocks
<1>1. /\ Running /\ Current.op \in DOMAIN Events /\ Observe(FALSE, Events[Current.op])
  BY DEF Perform
<1>2. Current.op \in EventOps /\ Events[Current.op] = Does(Current)
  BY <1>1 DEF Events, EventOps, Does
<1>3. /\ running \in DOMAIN module /\ block \in DOMAIN bs /\ next \in DOMAIN bs[block] /\ ModuleVerifies
      /\ Current \in Instrs /\ ~Silent(at)
      /\ \E en, p : /\ CodeOK(en, bs) /\ Traced(en, p, bs[block])
                    /\ Leads(p[next], at) /\ Moves(en, p[next], Current, p[next + 1])
  BY <1>1, AtPoint
<1>4. PICK en, p : /\ CodeOK(en, bs) /\ Traced(en, p, bs[block])
                   /\ Leads(p[next], at) /\ Moves(en, p[next], Current, p[next + 1])
  BY <1>3
<1>5. /\ at \in DOMAIN syntax /\ Source!Observable(at) /\ Source!EventAt(at, FALSE) = Does(Current)
      /\ p[next + 1] = Source!Onward(at, FALSE) /\ Current.to = <<>>
  <2>1. PICK k \in DOMAIN syntax :
          /\ Leads(p[next], k) /\ Source!Observable(k)
          /\ Source!EventAt(k, FALSE) = Does(Current) /\ p[next + 1] = Source!Onward(k, FALSE)
    BY <1>2, <1>4 DEF Moves
  <2>2. ~Silent(k)
    BY <2>1 DEF Silent
  <2>3. Leads(at, k)
    BY <1>4, <2>1, <2>2, LeadsOneWay
  <2>4. k = at
    BY <1>3, <2>3, LeadsNowhere
  <2>5. Current.to = <<>>
    BY <1>2, <1>4 DEF Moves
  <2>. QED  BY <2>1, <2>4, <2>5
<1>6. /\ GoOn(FALSE) /\ event' = Does(Current)
      /\ stored' = IF Current.op = "store" THEN stored \cup {Current.ref} ELSE stored
      /\ at' = Source!Onward(at, FALSE) /\ defined' = Source!DefinedAfter(at)
      /\ UNCHANGED <<syntax, module, status, running>>
  BY <1>1, <1>2, <1>5 DEF Observe, Source!Proceed, Source!Executing, vars, genVars
<1>7. Source!Observably
  <2>1. Source!Executing /\ FALSE \in BOOLEAN
    BY <1>5 DEF Source!Executing
  <2>2. Source!Proceed(FALSE) /\ event' = Source!EventAt(at, FALSE)
    BY <1>5, <1>6 DEF Source!Proceed
  <2>. QED  BY <1>5, <1>6, <2>1, <2>2 DEF Source!Observably
<1>8. DefinedIsStored'
  <2>1. CASE ~Source!Writes(at)
    BY <1>6, <2>1, DefinedNext DEF ExecInv, DefinedIsStored
  <2>2. CASE Source!Writes(at)
    <3>. DEFINE target == Source!Target(Source!StmtOf(at))
    <3>1. Source!EventAt(at, FALSE) = Source!Store(target)
      <4>1. ~Source!Reads(at) /\ ~Source!Calls(at) /\ ~Source!Tests(at) /\ ~Source!Returns(at)
        BY <2>2 DEF Source!Writes, Source!Reads, Source!Calls, Source!Tests, Source!Returns
      <4>. QED  BY <2>2, <4>1 DEF Source!EventAt
    <3>2. Source!DefinedAfter(at) \subseteq defined \cup {target}
      BY <2>2, DefinedNext
    <3>. HIDE DEF target
    <3>3. Does(Current) = Source!Store(target)
      BY <1>5, <3>1
    <3>4. Current.op = "store" /\ Current.ref = target
      BY <1>2, <3>3 DEF EventOps, Does, Source!Load, Source!Store, Source!CallOf, Source!Returned, Source!Event
    <3>. QED  BY <1>6, <3>2, <3>4 DEF ExecInv, DefinedIsStored
  <2>. QED  BY <2>1, <2>2
<1>9. ASSUME event' # Source!Returned PROVE OnTrack'
  <2>1. Current.op # "ret"
    BY <1>2, <1>6, <1>9 DEF Does
  <2>2. FALSE \in BOOLEAN /\ (Current.op \in {"br", "condbr"} => Current.to # <<>>)
    BY <1>2 DEF EventOps
  <2>. DEFINE y == IF Current.to = <<>> THEN p[next + 1]
                   ELSE en[Current.to[IF FALSE THEN 1 ELSE Len(Current.to)]]
  <2>3. y = at'
    BY <1>5, <1>6
  <2>4. Leads(y, at')
    <3>. HIDE DEF y
    <3>. QED  BY <2>3, LeadsSelf
  <2>. HIDE DEF bs
  <2>5. bs = module[running].blocks
    BY DEF bs
  <2>. QED  BY <1>3, <1>4, <1>6, <2>1, <2>2, <2>4, <2>5, WentOn
<1>10. ModuleVerifies'
  BY <1>3, <1>6 DEF ModuleVerifies, Passes
<1>11. ExecInv'
  BY <1>1, <1>6, <1>8, <1>9, <1>10 DEF ExecInv, Running, Settled
<1>. QED  BY <1>7, <1>11

(* A condition is tested.                                                  *)
LEMMA BranchStep ==
  ASSUME TypeOK, TraceInv, ExecInv, Branch
  PROVE  ExecInv' /\ Source!Observably
<1>. DEFINE bs == module[running].blocks
<1>1. Running /\ Current.op = "condbr"
  BY DEF Branch
<1>2. PICK taken \in BOOLEAN : Observe(taken, Source!Test(taken))
  BY DEF Branch
<1>3. /\ running \in DOMAIN module /\ block \in DOMAIN bs /\ next \in DOMAIN bs[block] /\ ModuleVerifies
      /\ Current \in Instrs /\ ~Silent(at)
      /\ \E en, p : /\ CodeOK(en, bs) /\ Traced(en, p, bs[block])
                    /\ Leads(p[next], at) /\ Moves(en, p[next], Current, p[next + 1])
  BY <1>1, AtPoint
<1>4. PICK en, p : /\ CodeOK(en, bs) /\ Traced(en, p, bs[block])
                   /\ Leads(p[next], at) /\ Moves(en, p[next], Current, p[next + 1])
  BY <1>3
<1>5. /\ at \in DOMAIN syntax /\ Source!Tests(at) /\ Current.to # <<>>
      /\ en[Current.to[1]] = Source!Onward(at, TRUE)
      /\ en[Current.to[Len(Current.to)]] = Source!Onward(at, FALSE)
  <2>1. PICK k \in DOMAIN syntax :
          /\ Leads(p[next], k) /\ Source!Tests(k)
          /\ en[Current.to[1]] = Source!Onward(k, TRUE)
          /\ en[Current.to[Len(Current.to)]] = Source!Onward(k, FALSE)
    BY <1>1, <1>4 DEF Moves
  <2>2. ~Silent(k)
    BY <2>1 DEF Silent, Source!Observable
  <2>3. Leads(at, k)
    BY <1>4, <2>1, <2>2, LeadsOneWay
  <2>4. k = at
    BY <1>3, <2>3, LeadsNowhere
  <2>5. Current.to # <<>>
    BY <1>1, <1>4 DEF Moves
  <2>. QED  BY <2>1, <2>4, <2>5
<1>6. /\ GoOn(taken) /\ event' = Source!Test(taken)
      /\ stored' = stored
      /\ at' = Source!Onward(at, taken) /\ defined' = Source!DefinedAfter(at)
      /\ UNCHANGED <<syntax, module, status, running>>
  BY <1>1, <1>2, <1>5 DEF Observe, Source!Proceed, Source!Executing, vars, genVars
<1>7. ~Source!Reads(at) /\ ~Source!Calls(at) /\ ~Source!Writes(at) /\ ~Source!Returns(at)
  BY <1>5 DEF Source!Writes, Source!Reads, Source!Calls, Source!Tests, Source!Returns
<1>8. Source!Observably
  <2>1. Source!Executing /\ Source!Observable(at)
    BY <1>5 DEF Source!Executing, Source!Observable
  <2>2. Source!EventAt(at, taken) = Source!Test(taken)
    BY <1>5, <1>7 DEF Source!EventAt
  <2>3. Source!Proceed(taken) /\ event' = Source!EventAt(at, taken)
    BY <1>6, <2>2 DEF Source!Proceed
  <2>. QED  BY <1>6, <2>1, <2>3 DEF Source!Observably
<1>9. DefinedIsStored'
  BY <1>6, <1>7, DefinedNext DEF ExecInv, DefinedIsStored
<1>10. OnTrack'
  <2>. DEFINE y == IF Current.to = <<>> THEN p[next + 1]
                   ELSE en[Current.to[IF taken THEN 1 ELSE Len(Current.to)]]
  <2>1. y = at'
    BY <1>5, <1>6
  <2>2. Leads(y, at')
    <3>. HIDE DEF y
    <3>. QED  BY <2>1, LeadsSelf
  <2>. HIDE DEF bs
  <2>3. bs = module[running].blocks /\ Current.op # "ret"
    BY <1>1 DEF bs
  <2>. QED  BY <1>3, <1>4, <1>5, <1>6, <2>2, <2>3, WentOn
<1>11. ModuleVerifies'
  BY <1>3, <1>6 DEF ModuleVerifies, Passes
<1>12. ExecInv'
  BY <1>1, <1>6, <1>9, <1>10, <1>11 DEF ExecInv, Running, Settled
<1>. QED  BY <1>8, <1>12

(* Code is generated before it is run.                                     *)
LEMMA Generates == ASSUME Next PROVE status = "running"
<1>1. \A kind : Reading(kind) => status = "running"
  BY DEF Reading
<1>2. \A kind, pc : VisitExpOf(kind, pc) => status = "running"
  BY <1>1 DEF VisitExpOf, VisitStmt
<1>3. \A pc : EndExp(pc) => status = "running"
  BY <1>1 DEF EndExp
<1>4. \A points, mark : EndVisit(points, mark) => status = "running"
  BY <1>1 DEF EndVisit
<1>5. CASE BeginFunction \/ EndFunction \/ Finish
  BY <1>1, <1>5 DEF BeginFunction, EndFunction, Finish
<1>6. CASE NextExp
  BY <1>1, <1>6 DEF NextExp, VisitConst, VisitVarExp, VisitCallExp, VisitExp
<1>7. CASE VisitReturn \/ VisitCallStmt \/ VisitIf \/ VisitSeq \/ VisitAssign
  BY <1>1, <1>2, <1>7 DEF VisitReturn, VisitCallStmt, VisitIf, VisitSeq, VisitAssign
<1>8. CASE VisitDecl \/ VisitWhile \/ EndSeq \/ VisitElse \/ EndIf \/ EndWhile
  BY <1>1, <1>4, <1>8 DEF VisitDecl, VisitWhile, VisitStmt, EndSeq, VisitElse, EndIf, EndWhile
<1>9. CASE EndCallStmt \/ EndReturn \/ EndAssign \/ EndDeclInit \/ EndIfCond \/ EndWhileCond
  BY <1>3, <1>9 DEF EndCallStmt, EndReturn, EndAssign, EndDeclInit, EndStmtExp, EndIfCond, EndWhileCond
<1>. QED  BY <1>5, <1>6, <1>7, <1>8, <1>9 DEF Next, NextStmt

\* All that the execution needs of the code.
CodeInv == IInv /\ LookupInv /\ OperandInv /\ TraceInv

ExecNext == GenerateCode \/ Execute \/ (Over /\ UNCHANGED allVars)

LEMMA StartExec == ASSUME ExecInit PROVE CodeInv /\ ExecInv /\ Source!Init
<1>1. syntax \in Seq(Nodes) /\ Start
  BY CodegenAssumption DEF ExecInit, Init
<1>2. CodeInv
  BY <1>1, StartInv, StartLookup, StartOperand, StartTrace DEF CodeInv
<1>3. ExecInv
  BY DEF ExecInit, Source!Init, ExecInv, DefinedIsStored
<1>. QED  BY <1>2, <1>3 DEF ExecInit

(* Every step keeps the invariant, and is one of the source or none.       *)
LEMMA ExecStep ==
  ASSUME CodeInv, ExecInv, [ExecNext]_allVars
  PROVE  CodeInv' /\ ExecInv' /\ [Source!Next]_(Source!meaningVars)
<1>1. TypeOK /\ TraceInv
  BY DEF CodeInv, IInv, TypeInv
<1>2. ASSUME [Next \/ Returned]_vars PROVE CodeInv'
  BY <1>2, StepInv, NextLookup, NextOperand, TraceNext DEF CodeInv
<1>3. ASSUME UNCHANGED vars PROVE CodeInv'
  BY <1>2, <1>3
<1>4. CASE GenerateCode
  <2>1. Next /\ UNCHANGED <<running, block, next, stored, event, at, defined>>
    BY <1>4 DEF GenerateCode, execVars
  <2>2. syntax' = syntax
    BY <2>1, SameProgram
  <2>3. running = 0
    BY <2>1, Generates DEF ExecInv
  <2>4. ExecInv'
    BY <2>1, <2>3 DEF ExecInv, DefinedIsStored
  <2>5. UNCHANGED Source!meaningVars
    BY <2>1, <2>2 DEF Source!meaningVars
  <2>. QED  BY <1>2, <2>1, <2>4, <2>5
<1>5. CASE Run
  <2>1. UNCHANGED vars
    BY <1>5 DEF Run
  <2>2. ExecInv' /\ Source!CallFunction
    BY <1>1, <1>5, RunStep
  <2>. QED  BY <1>3, <2>1, <2>2 DEF Source!Next
<1>6. CASE Follow
  <2>1. UNCHANGED vars
    BY <1>6 DEF Follow
  <2>2. ExecInv' /\ Source!Silently
    BY <1>1, <1>6, FollowStep
  <2>. QED  BY <1>3, <2>1, <2>2 DEF Source!Next
<1>7. CASE Compute
  <2>1. UNCHANGED vars
    BY <1>7 DEF Compute
  <2>2. ExecInv' /\ UNCHANGED Source!meaningVars
    BY <1>1, <1>7, ComputeStep
  <2>. QED  BY <1>3, <2>1, <2>2
<1>8. CASE Perform
  <2>1. UNCHANGED vars
    BY <1>8 DEF Perform, Observe
  <2>2. ExecInv' /\ Source!Observably
    BY <1>1, <1>8, PerformStep
  <2>. QED  BY <1>3, <2>1, <2>2 DEF Source!Next
<1>9. CASE Branch
  <2>1. UNCHANGED vars
    BY <1>9 DEF Branch, Observe
  <2>2. ExecInv' /\ Source!Observably
    BY <1>1, <1>9, BranchStep
  <2>. QED  BY <1>3, <2>1, <2>2 DEF Source!Next
<1>10. CASE UNCHANGED allVars
  <2>1. UNCHANGED vars /\ UNCHANGED <<running, block, next, stored, event, at, defined>>
    BY <1>10 DEF allVars, execVars
  <2>2. UNCHANGED <<syntax, module, status>>
    BY <2>1 DEF vars, genVars
  <2>3. UNCHANGED Source!meaningVars
    BY <2>1, <2>2 DEF Source!meaningVars
  <2>4. OnTrack => OnTrack'
    <3>. SUFFICES ASSUME OnTrack PROVE OnTrack'
      OBVIOUS
    <3>. DEFINE bs == module[running].blocks
    <3>1. block \in DOMAIN bs /\ next \in DOMAIN bs[block]
      BY DEF OnTrack
    <3>2. PICK en, p : /\ CodeOK(en, bs) /\ Traced(en, p, bs[block])
                       /\ \E z : Leads(p[next], z) /\ Leads(at, z)
      BY DEF OnTrack
    <3>3. PICK z : Leads(p[next], z) /\ Leads(at, z)
      BY <3>2
    <3>4. bs = module[running'].blocks /\ block' \in DOMAIN bs /\ next' \in DOMAIN bs[block']
          /\ Traced(en, p, bs[block']) /\ Leads(p[next'], z) /\ Leads(at', z)
      BY <2>1, <3>1, <3>2, <3>3
    <3>. HIDE DEF bs
    <3>. QED  BY <2>2, <3>2, <3>4, TrackAfter
  <2>5. ModuleVerifies => ModuleVerifies'
    BY <2>2 DEF ModuleVerifies, Passes
  <2>6. ExecInv'
    BY <2>1, <2>2, <2>4, <2>5 DEF ExecInv, DefinedIsStored
  <2>. QED  BY <1>3, <2>1, <2>3, <2>6
<1>. QED  BY <1>4, <1>5, <1>6, <1>7, <1>8, <1>9, <1>10 DEF ExecNext, Execute

(* Whatever the program: a call of a function that the verifier has        *)
(* accepted accesses the same variables, calls the same functions, tests   *)
(* as many conditions, with the same consequences, and returns at the same *)
(* point as its source, in the same order, on every path through branches  *)
(* and loops, however they are nested (Codegen.cpp:216-348).               *)
THEOREM CodeImplementsSource == ExecSpec => ImplementsSource
<1>1. ExecInit => CodeInv /\ ExecInv /\ Source!Init
  BY StartExec
<1>2. CodeInv /\ ExecInv /\ [ExecNext]_allVars => CodeInv' /\ ExecInv' /\ [Source!Next]_(Source!meaningVars)
  BY ExecStep
<1>. QED  BY <1>1, <1>2, PTL DEF ExecSpec, ExecNext, ImplementsSource, Source!Spec

(* Whatever the program: every variable that has a value in the source has *)
(* storage that has been written to since it was declared, in this call    *)
(* and in this turn of a loop (Codegen.cpp:252-264).                       *)
THEOREM DefinedVariablesAreStored == ExecSpec => []DefinedIsStored
<1>1. ExecInit => CodeInv /\ ExecInv
  BY StartExec
<1>2. CodeInv /\ ExecInv /\ [ExecNext]_allVars => CodeInv' /\ ExecInv'
  BY ExecStep
<1>3. ExecInv => DefinedIsStored
  BY DEF ExecInv
<1>. QED  BY <1>1, <1>2, <1>3, PTL DEF ExecSpec, ExecNext
=============================================================================
