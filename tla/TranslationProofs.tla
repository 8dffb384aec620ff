-------------------------- MODULE TranslationProofs --------------------------
(***************************************************************************)
(* What the conversions of Translation keep of a conversation, for every   *)
(* set of texts, images and calls and for conversations of any length.     *)
(*                                                                         *)
(* A conversion works on one message after the other, and what the         *)
(* properties of Exchange look at (calls, texts, results, turns) is        *)
(* gathered from one message or block after the other.  So most of it is   *)
(* about gathering: what is gathered from a sequence that was changed      *)
(* element by element, and from what was itself gathered.  These are       *)
(* inductions over sequences, over a set in the place of a predicate       *)
(* (module Sums), and Gather is replaced by GatherBy, which takes a        *)
(* function where Gather takes an operator.                                *)
(*                                                                         *)
(* From OpenAI to Anthropic (ToAnthropicKeeps) a message keeps its texts,  *)
(* calls and results; only those of the system are left out, and they have *)
(* texts and images alone.  From Anthropic to OpenAI (ToOpenAIKeeps) it    *)
(* keeps its calls, and the texts and results of a plain message; of the   *)
(* others, at most one result is left and none is new.  That is enough for *)
(* every result of the whole request to follow its call.                   *)
(***************************************************************************)
EXTENDS Exchange, SequenceTheorems, Sums

\* Induction over sequences.
LEMMA SeqInductive ==
  ASSUME NEW S, NEW F, <<>> \in F,
         \A s \in Seq(S), x \in S : s \in F => Append(s, x) \in F
  PROVE  \A s \in Seq(S) : s \in F
<1> DEFINE N == {n \in Nat : \A s \in Seq(S) : Len(s) = n => s \in F}
<1>1. 0 \in N BY EmptySeq
<1>2. ASSUME NEW n \in Nat, n \in N PROVE n + 1 \in N
  <2>1. ASSUME NEW s \in Seq(S), Len(s) = n + 1 PROVE s \in F
    <3>1. s # <<>> BY <2>1, EmptySeq
    <3>2. PICK t \in Seq(S), x \in S : s = Append(t, x) BY <3>1, SequenceEmptyOrAppend
    <3>3. Len(s) = Len(t) + 1 /\ Len(t) \in Nat BY <3>2, AppendProperties, LenProperties
    <3>4. t \in F BY <1>2, <2>1, <3>3
    <3> QED BY <3>2, <3>4
  <2> QED BY <2>1
<1> HIDE DEF N
<1>3. \A n \in Nat : n \in N BY <1>1, <1>2, NatInductive
<1> QED BY <1>3, LenProperties DEF N

-----------------------------------------------------------------------------
(* FlattenSeq (module SequencesExt) obeys its recursive definition         *)

Flattens(f, ss, n) ==
  f = [i \in 1..n |-> IF i = 1 THEN ss[i] ELSE f[i - 1] \o ss[i]]

LEMMA FlattenIs ==
  ASSUME NEW ss, Len(ss) # 0
  PROVE  FlattenSeq(ss) = (CHOOSE f : Flattens(f, ss, Len(ss)))[Len(ss)]
BY DEF FlattenSeq, Flattens

LEMMA FlattensAt ==
  ASSUME NEW f, NEW ss, NEW n, Flattens(f, ss, n), NEW i \in 1..n
  PROVE  f[i] = IF i = 1 THEN ss[i] ELSE f[i - 1] \o ss[i]
<1> DEFINE h == [j \in 1..n |-> IF j = 1 THEN ss[j] ELSE f[j - 1] \o ss[j]]
<1>1. f = h BY DEF Flattens
<1>2. h[i] = IF i = 1 THEN ss[i] ELSE f[i - 1] \o ss[i] OBVIOUS
<1> HIDE DEF h
<1> QED BY <1>1, <1>2

LEMMA FlattensExists ==
  ASSUME NEW ss
  PROVE  \A n \in Nat : \E f : Flattens(f, ss, n)
<1> DEFINE N == {n \in Nat : \E f : Flattens(f, ss, n)}
<1>1. 0 \in N
  <2>1. Flattens([i \in 1..0 |-> ss[i]], ss, 0) BY DEF Flattens
  <2> QED BY <2>1
<1>2. ASSUME NEW n \in Nat, n \in N PROVE n + 1 \in N
  <2>1. PICK f : Flattens(f, ss, n) BY <1>2
  <2> DEFINE h == [i \in 1..(n + 1) |-> IF i = 1 THEN ss[i] ELSE f[i - 1] \o ss[i]]
  <2>2. ASSUME NEW i \in 1..n PROVE h[i] = f[i]
    <3>1. f[i] = IF i = 1 THEN ss[i] ELSE f[i - 1] \o ss[i] BY <2>1, FlattensAt
    <3>2. i \in 1..(n + 1) OBVIOUS
    <3> QED BY <3>1, <3>2
  <2>3. ASSUME NEW i \in 1..(n + 1), i # 1 PROVE h[i - 1] = f[i - 1]
    <3>1. i - 1 \in 1..n BY <2>3
    <3> HIDE DEF h
    <3> QED BY <2>2, <3>1
  <2> DEFINE e(k, i) == IF i = 1 THEN ss[i] ELSE k[i - 1] \o ss[i]
  <2>5. \A i \in 1..(n + 1) : e(f, i) = e(h, i)
    <3> HIDE DEF h
    <3> QED BY <2>3
  <2>6. h = [i \in 1..(n + 1) |-> e(f, i)] OBVIOUS
  <2> HIDE DEF h, e
  <2>7. h = [i \in 1..(n + 1) |-> e(h, i)] BY <2>5, <2>6
  <2>4. Flattens(h, ss, n + 1) BY <2>7 DEF Flattens, e
  <2> QED BY <2>4
<1> HIDE DEF N
<1>3. \A n \in Nat : n \in N BY <1>1, <1>2, NatInductive
<1> QED BY <1>3 DEF N

\* Its values depend on the first sequences only.
LEMMA FlattensAgree ==
  ASSUME NEW f, NEW g, NEW ss, NEW tt, NEW n \in Nat, NEW m \in Nat, n <= m,
         Flattens(f, ss, n), Flattens(g, tt, m), \A i \in 1..n : ss[i] = tt[i]
  PROVE  \A i \in 1..n : f[i] = g[i]
<1> DEFINE N == {k \in Nat : k \in 1..n => f[k] = g[k]}
<1>1. 0 \in N OBVIOUS
<1>2. ASSUME NEW k \in Nat, k \in N PROVE k + 1 \in N
  <2>1. CASE k + 1 \in 1..n
    <3>1. f[k + 1] = IF k + 1 = 1 THEN ss[k + 1] ELSE f[k + 1 - 1] \o ss[k + 1]
      BY <2>1, FlattensAt
    <3>2. k + 1 \in 1..m BY <2>1
    <3>3. g[k + 1] = IF k + 1 = 1 THEN tt[k + 1] ELSE g[k + 1 - 1] \o tt[k + 1]
      BY <3>2, FlattensAt
    <3>4. ss[k + 1] = tt[k + 1] BY <2>1
    <3>5. k + 1 # 1 => f[k + 1 - 1] = g[k + 1 - 1] BY <1>2, <2>1
    <3> QED BY <3>1, <3>3, <3>4, <3>5
  <2> QED BY <2>1
<1> HIDE DEF N
<1>3. \A k \in Nat : k \in N BY <1>1, <1>2, NatInductive
<1> QED BY <1>3 DEF N

LEMMA FlattenEmpty == FlattenSeq(<<>>) = <<>>
BY EmptySeq DEF FlattenSeq

LEMMA FlattenAppend ==
  ASSUME NEW S, NEW ss \in Seq(Seq(S)), NEW x \in Seq(S)
  PROVE  FlattenSeq(Append(ss, x)) = IF ss = <<>> THEN x ELSE FlattenSeq(ss) \o x
<1> DEFINE tt == Append(ss, x)  n == Len(ss)
<1>1. /\ n \in Nat /\ Len(tt) = n + 1 /\ tt[n + 1] = x
      /\ \A i \in 1..n : tt[i] = ss[i]
  BY AppendProperties, LenProperties
<1>2. n = 0 <=> ss = <<>> BY EmptySeq
<1> DEFINE g == CHOOSE f : Flattens(f, tt, n + 1)
<1>3. Flattens(g, tt, n + 1)
  <2>2. n + 1 \in Nat BY <1>1
  <2> HIDE DEF tt
  <2>1. \E f : Flattens(f, tt, n + 1) BY <2>2, FlattensExists
  <2> QED BY <2>1
<1>4. FlattenSeq(tt) = g[n + 1]
  <2>1. Len(tt) # 0 BY <1>1
  <2> HIDE DEF tt
  <2> QED BY <1>1, <2>1, FlattenIs
<1>5. g[n + 1] = IF n + 1 = 1 THEN tt[n + 1] ELSE g[n + 1 - 1] \o tt[n + 1]
  <2>1. n + 1 \in 1..(n + 1) BY <1>1
  <2> HIDE DEF g, tt
  <2> QED BY <1>1, <1>3, <2>1, FlattensAt
<1>6. CASE ss # <<>>
  <2> DEFINE f == CHOOSE f : Flattens(f, ss, n)
  <2>1. Flattens(f, ss, n)
    <3>1. \E h : Flattens(h, ss, n) BY <1>1, FlattensExists
    <3> QED BY <3>1
  <2>2. FlattenSeq(ss) = f[n] BY <1>2, <1>6, FlattenIs
  <2> HIDE DEF f, g, tt
  <2>3. \A i \in 1..n : f[i] = g[i]
    <3>1. n + 1 \in Nat /\ n <= n + 1 BY <1>1
    <3>2. \A i \in 1..n : ss[i] = tt[i] BY <1>1
    <3> DEFINE m == n + 1
    <3>3. Flattens(g, tt, m) /\ m \in Nat /\ n <= m /\ n \in Nat BY <1>1, <1>3, <3>1
    <3> HIDE DEF m, n
    <3> QED BY <2>1, <3>2, <3>3, FlattensAgree
  <2>4. n \in 1..n BY <1>1, <1>2, <1>6
  <2>5. n + 1 - 1 = n BY <1>1
  <2>6. g[n + 1] = f[n] \o x
    <3>1. n + 1 # 1 /\ g[n] = f[n] BY <1>1, <1>2, <1>6, <2>3, <2>4
    <3> QED BY <1>1, <1>5, <2>5, <3>1
  <2> QED BY <1>4, <1>6, <2>2, <2>6 DEF tt
<1>7. CASE ss = <<>>
  <2>1. n = 0 BY <1>2, <1>7
  <2>2. n + 1 = 1 BY <2>1
  <2> HIDE DEF g, tt, n
  <2>3. FlattenSeq(tt) = x BY <1>1, <1>4, <1>5, <2>2
  <2> QED BY <1>7, <2>3 DEF tt
<1> QED BY <1>6, <1>7

-----------------------------------------------------------------------------
(* What f gives for the elements of s, one after the other                 *)

GatherBy(f, s) == FlattenSeq([i \in DOMAIN s |-> f[s[i]]])

LEMMA GatherEmpty == ASSUME NEW f PROVE GatherBy(f, <<>>) = <<>>
<1>1. [i \in DOMAIN <<>> |-> f[<<>>[i]]] = <<>> OBVIOUS
<1> QED BY <1>1, FlattenEmpty DEF GatherBy

LEMMA MapAppend ==
  ASSUME NEW S, NEW T, NEW f \in [S -> T], NEW s \in Seq(S), NEW x \in S
  PROVE  /\ [i \in DOMAIN s |-> f[s[i]]] \in Seq(T)
         /\ [i \in DOMAIN Append(s, x) |-> f[Append(s, x)[i]]]
              = Append([i \in DOMAIN s |-> f[s[i]]], f[x])
OBVIOUS

LEMMA GatherAppend ==
  ASSUME NEW S, NEW T, NEW f \in [S -> Seq(T)], NEW s \in Seq(S), NEW x \in S
  PROVE  GatherBy(f, Append(s, x)) = IF s = <<>> THEN f[x] ELSE GatherBy(f, s) \o f[x]
<1> DEFINE ss == [i \in DOMAIN s |-> f[s[i]]]
<1>1. ss \in Seq(Seq(T)) BY MapAppend
<1>2. [i \in DOMAIN Append(s, x) |-> f[Append(s, x)[i]]] = Append(ss, f[x])
  BY MapAppend
<1>3. ss = <<>> <=> s = <<>> OBVIOUS
<1>4. f[x] \in Seq(T) OBVIOUS
<1> HIDE DEF ss
<1>5. FlattenSeq(Append(ss, f[x])) = IF ss = <<>> THEN f[x] ELSE FlattenSeq(ss) \o f[x]
  BY <1>1, <1>4, FlattenAppend
<1> QED BY <1>2, <1>3, <1>5 DEF GatherBy, ss

\* The two facts that everything else follows from, by induction.
LEMMA GatherFacts ==
  ASSUME NEW S, NEW T, NEW f \in [S -> Seq(T)]
  PROVE  /\ GatherBy(f, <<>>) = <<>>
         /\ \A s \in Seq(S) : GatherBy(f, s) \in Seq(T)
         /\ \A s \in Seq(S), x \in S :
              GatherBy(f, Append(s, x)) = GatherBy(f, s) \o f[x]
<1>1. GatherBy(f, <<>>) = <<>> BY GatherEmpty
<1> DEFINE F == {s \in Seq(S) : GatherBy(f, s) \in Seq(T)}
<1>2. <<>> \in F BY <1>1, EmptySeq
<1>3. ASSUME NEW s \in Seq(S), NEW x \in S
      PROVE  GatherBy(f, Append(s, x)) = GatherBy(f, s) \o f[x]
  <2>1. GatherBy(f, Append(s, x)) = IF s = <<>> THEN f[x] ELSE GatherBy(f, s) \o f[x]
    BY GatherAppend
  <2>2. f[x] \in Seq(T) OBVIOUS
  <2>3. <<>> \o f[x] = f[x] BY <2>2, ConcatEmptySeq
  <2> QED BY <1>1, <2>1, <2>3
<1>4. ASSUME NEW s \in Seq(S), NEW x \in S, s \in F PROVE Append(s, x) \in F
  <2>1. f[x] \in Seq(T) /\ GatherBy(f, s) \in Seq(T) /\ Append(s, x) \in Seq(S)
    BY <1>4, AppendProperties
  <2> QED BY <1>3, <2>1, ConcatProperties, ZenonT(60)
<1> HIDE DEF F
<1>5. \A s \in Seq(S) : s \in F BY <1>2, <1>4, SeqInductive
<1> QED BY <1>1, <1>3, <1>5 DEF F

LEMMA GatherType ==
  ASSUME NEW S, NEW T, NEW f \in [S -> Seq(T)], NEW s \in Seq(S)
  PROVE  GatherBy(f, s) \in Seq(T)
BY GatherFacts

LEMMA GatherNext ==
  ASSUME NEW S, NEW T, NEW f \in [S -> Seq(T)], NEW s \in Seq(S), NEW x \in S
  PROVE  GatherBy(f, Append(s, x)) = GatherBy(f, s) \o f[x]
BY GatherFacts, SMTT(30)

LEMMA GatherSingle ==
  ASSUME NEW S, NEW T, NEW f \in [S -> Seq(T)], NEW x \in S
  PROVE  GatherBy(f, <<x>>) = f[x]
<1>1. <<>> \in Seq(S) /\ Append(<<>>, x) = <<x>> BY EmptySeq
<1>2. GatherBy(f, Append(<<>>, x)) = IF <<>> = <<>> THEN f[x] ELSE GatherBy(f, <<>>) \o f[x]
  BY <1>1, GatherAppend
<1> QED BY <1>1, <1>2

LEMMA GatherConcat ==
  ASSUME NEW S, NEW T, NEW f \in [S -> Seq(T)], NEW s \in Seq(S), NEW t \in Seq(S)
  PROVE  GatherBy(f, s \o t) = GatherBy(f, s) \o GatherBy(f, t)
<1> DEFINE F == {u \in Seq(S) : GatherBy(f, s \o u) = GatherBy(f, s) \o GatherBy(f, u)}
<1>1. <<>> \in F
  <2>1. GatherBy(f, s) \o <<>> = GatherBy(f, s) BY GatherType, ConcatEmptySeq
  <2>2. s \o <<>> = s BY ConcatEmptySeq
  <2> QED BY <2>1, <2>2, GatherEmpty, EmptySeq
<1>2. ASSUME NEW u \in Seq(S), NEW x \in S, u \in F PROVE Append(u, x) \in F
  <2>1. s \o Append(u, x) = Append(s \o u, x) OBVIOUS
  <2>2. s \o u \in Seq(S) BY ConcatProperties
  <2>3. GatherBy(f, Append(s \o u, x)) = GatherBy(f, s \o u) \o f[x] BY <2>2, GatherNext
  <2>4. GatherBy(f, Append(u, x)) = GatherBy(f, u) \o f[x] BY GatherNext
  <2>5. /\ GatherBy(f, s) \in Seq(T) /\ GatherBy(f, u) \in Seq(T) /\ f[x] \in Seq(T)
    BY GatherType
  <2>6. (GatherBy(f, s) \o GatherBy(f, u)) \o f[x] = GatherBy(f, s) \o (GatherBy(f, u) \o f[x])
    BY <2>5, ConcatAssociative, SMTT(30)
  <2>7. Append(u, x) \in Seq(S) BY AppendProperties
  <2> QED BY <1>2, <2>1, <2>3, <2>4, <2>6, <2>7
<1> HIDE DEF F
<1>3. \A u \in Seq(S) : u \in F BY <1>1, <1>2, SeqInductive
<1> QED BY <1>3 DEF F

Additive(f, S) ==
  \A s, t \in Seq(S) : GatherBy(f, s \o t) = GatherBy(f, s) \o GatherBy(f, t)

LEMMA GatherAdditive ==
  ASSUME NEW S, NEW T, NEW f \in [S -> Seq(T)]
  PROVE  Additive(f, S)
BY GatherConcat DEF Additive

\* Functions that agree on the elements gather the same.
LEMMA GatherSame ==
  ASSUME NEW s, NEW f, NEW g, \A i \in DOMAIN s : f[s[i]] = g[s[i]]
  PROVE  GatherBy(f, s) = GatherBy(g, s)
<1>1. [i \in DOMAIN s |-> f[s[i]]] = [i \in DOMAIN s |-> g[s[i]]] OBVIOUS
<1> QED BY <1>1 DEF GatherBy

\* And on a sequence changed element by element.
LEMMA GatherOfMap ==
  ASSUME NEW s, NEW f, NEW g, NEW h, \A i \in DOMAIN s : f[h[s[i]]] = g[s[i]]
  PROVE  GatherBy(f, [i \in DOMAIN s |-> h[s[i]]]) = GatherBy(g, s)
<1> DEFINE m == [i \in DOMAIN s |-> h[s[i]]]
<1>1. DOMAIN m = DOMAIN s OBVIOUS
<1>2. [i \in DOMAIN m |-> f[m[i]]] = [i \in DOMAIN s |-> g[s[i]]] OBVIOUS
<1> HIDE DEF m
<1>3. GatherBy(f, m) = GatherBy(g, s) BY <1>2 DEF GatherBy
<1> QED BY <1>3 DEF m

\* Gathering from what was gathered.
Composes(k, f, h, S, T, U) ==
  /\ f \in [S -> Seq(T)] /\ h \in [T -> Seq(U)]
  /\ \A x \in S : k[x] = GatherBy(h, f[x])

LEMMA GatherTwice ==
  ASSUME NEW S, NEW T, NEW U, NEW f, NEW h, NEW k, Composes(k, f, h, S, T, U),
         NEW s \in Seq(S)
  PROVE  GatherBy(h, GatherBy(f, s)) = GatherBy(k, s)
<1> f \in [S -> Seq(T)] /\ h \in [T -> Seq(U)] BY DEF Composes
<1>0. Additive(h, T) BY GatherAdditive
<1> DEFINE l == [x \in S |-> GatherBy(h, f[x])]
           F == {u \in Seq(S) : GatherBy(h, GatherBy(f, u)) = GatherBy(l, u)}
<1>1. l \in [S -> Seq(U)] BY GatherType
<1>2. <<>> \in F BY GatherEmpty, EmptySeq
<1>3. ASSUME NEW u \in Seq(S), NEW x \in S, u \in F PROVE Append(u, x) \in F
  <2> HIDE DEF l
  <2>1. GatherBy(f, Append(u, x)) = GatherBy(f, u) \o f[x] BY GatherNext
  <2>2. GatherBy(l, Append(u, x)) = GatherBy(l, u) \o l[x] BY <1>1, GatherNext
  <2>3. l[x] = GatherBy(h, f[x]) BY DEF l
  <2>4. GatherBy(f, u) \in Seq(T) /\ f[x] \in Seq(T) BY GatherType
  <2>5. GatherBy(h, GatherBy(f, u) \o f[x]) = GatherBy(h, GatherBy(f, u)) \o GatherBy(h, f[x])
    BY <2>4, <1>0 DEF Additive
  <2>6. Append(u, x) \in Seq(S) BY AppendProperties
  <2> QED BY <1>3, <2>1, <2>2, <2>3, <2>5, <2>6
<1>4. \A i \in DOMAIN s : k[s[i]] = l[s[i]] BY DEF Composes
<1> HIDE DEF F, l
<1>5. \A u \in Seq(S) : u \in F BY <1>2, <1>3, SeqInductive
<1>6. GatherBy(k, s) = GatherBy(l, s) BY <1>4, GatherSame
<1> QED BY <1>5, <1>6 DEF F

\* Gathering every element gives the sequence, gathering nothing gives none.
LEMMA GatherAll ==
  ASSUME NEW S, NEW f, NEW s \in Seq(S), \A i \in DOMAIN s : f[s[i]] = <<s[i]>>
  PROVE  GatherBy(f, s) = s
<1> DEFINE g == [x \in S |-> <<x>>]
           F == {u \in Seq(S) : GatherBy(g, u) = u}
<1>1. g \in [S -> Seq(S)] OBVIOUS
<1>2. <<>> \in F BY GatherEmpty, EmptySeq
<1>3. ASSUME NEW u \in Seq(S), NEW x \in S, u \in F PROVE Append(u, x) \in F
  <2>1. GatherBy(g, Append(u, x)) = GatherBy(g, u) \o g[x]
    <3> HIDE DEF g
    <3> QED BY <1>1, GatherNext
  <2>2. Append(u, x) \in Seq(S) /\ Append(u, x) = u \o <<x>> BY AppendProperties, AppendIsConcat
  <2>3. g[x] = <<x>> OBVIOUS
  <2> HIDE DEF g
  <2> QED BY <1>3, <2>1, <2>2, <2>3
<1>4. \A i \in DOMAIN s : f[s[i]] = g[s[i]] OBVIOUS
<1> HIDE DEF F, g
<1>5. \A u \in Seq(S) : u \in F BY <1>2, <1>3, SeqInductive
<1>6. GatherBy(f, s) = GatherBy(g, s) BY <1>4, GatherSame
<1> QED BY <1>5, <1>6 DEF F

LEMMA GatherNone ==
  ASSUME NEW S, NEW f, NEW s \in Seq(S), \A i \in DOMAIN s : f[s[i]] = <<>>
  PROVE  GatherBy(f, s) = <<>>
<1> DEFINE g == [x \in S |-> <<>>]
           F == {u \in Seq(S) : GatherBy(g, u) = <<>>}
<1>1. g \in [S -> Seq(S)] OBVIOUS
<1>2. <<>> \in F BY GatherEmpty, EmptySeq
<1>3. ASSUME NEW u \in Seq(S), NEW x \in S, u \in F PROVE Append(u, x) \in F
  <2>1. GatherBy(g, Append(u, x)) = GatherBy(g, u) \o g[x]
    <3> HIDE DEF g
    <3> QED BY <1>1, GatherNext
  <2>2. Append(u, x) \in Seq(S) BY AppendProperties
  <2>3. g[x] = <<>> OBVIOUS
  <2>4. <<>> \o <<>> = <<>> BY EmptySeq, ConcatEmptySeq
  <2> HIDE DEF g
  <2> QED BY <1>3, <2>1, <2>2, <2>3, <2>4
<1>4. \A i \in DOMAIN s : f[s[i]] = g[s[i]] OBVIOUS
<1> HIDE DEF F, g
<1>5. \A u \in Seq(S) : u \in F BY <1>2, <1>3, SeqInductive
<1>6. GatherBy(f, s) = GatherBy(g, s) BY <1>4, GatherSame
<1> QED BY <1>5, <1>6 DEF F

\* What was gathered comes from some element.
In(x, s) == \E i \in DOMAIN s : s[i] = x

LEMMA InConcat ==
  ASSUME NEW S, NEW s \in Seq(S), NEW t \in Seq(S), NEW x
  PROVE  In(x, s \o t) <=> In(x, s) \/ In(x, t)
<1>1. /\ s \o t \in Seq(S) /\ Len(s \o t) = Len(s) + Len(t)
      /\ \A i \in 1..(Len(s) + Len(t)) :
           (s \o t)[i] = IF i <= Len(s) THEN s[i] ELSE t[i - Len(s)]
  BY ConcatProperties
<1>2. /\ DOMAIN s = 1..Len(s) /\ DOMAIN t = 1..Len(t)
      /\ DOMAIN (s \o t) = 1..(Len(s) + Len(t)) /\ Len(s) \in Nat /\ Len(t) \in Nat
  BY <1>1, LenProperties
<1>3. ASSUME NEW i \in DOMAIN s PROVE (s \o t)[i] = s[i] /\ i \in DOMAIN (s \o t)
  BY <1>1, <1>2
<1>4. ASSUME NEW i \in DOMAIN t
      PROVE  (s \o t)[i + Len(s)] = t[i] /\ i + Len(s) \in DOMAIN (s \o t)
  BY <1>1, <1>2
<1>5. ASSUME NEW i \in DOMAIN (s \o t), (s \o t)[i] = x PROVE In(x, s) \/ In(x, t)
  <2>1. CASE i <= Len(s) BY <1>1, <1>2, <1>5, <2>1 DEF In
  <2>2. CASE ~ (i <= Len(s))
    <3>1. i - Len(s) \in DOMAIN t /\ t[i - Len(s)] = x BY <1>1, <1>2, <1>5, <2>2
    <3> QED BY <3>1 DEF In
  <2> QED BY <2>1, <2>2
<1>6. ASSUME In(x, s) PROVE In(x, s \o t) BY <1>3, <1>6 DEF In
<1>7. ASSUME In(x, t) PROVE In(x, s \o t) BY <1>4, <1>7 DEF In
<1> QED BY <1>5, <1>6, <1>7 DEF In

LEMMA GatherElements ==
  ASSUME NEW S, NEW T, NEW f \in [S -> Seq(T)], NEW s \in Seq(S), NEW y
  PROVE  In(y, GatherBy(f, s)) <=> \E i \in DOMAIN s : In(y, f[s[i]])
<1> DEFINE F == {u \in Seq(S) : In(y, GatherBy(f, u)) <=> \E i \in DOMAIN u : In(y, f[u[i]])}
<1>1. <<>> \in F BY GatherEmpty, EmptySeq DEF In
<1>2. ASSUME NEW u \in Seq(S), NEW x \in S, u \in F PROVE Append(u, x) \in F
  <2> DEFINE v == Append(u, x)
  <2>1. GatherBy(f, v) = GatherBy(f, u) \o f[x] BY GatherNext
  <2>2. GatherBy(f, u) \in Seq(T) /\ f[x] \in Seq(T) BY GatherType
  <2>3. In(y, GatherBy(f, v)) <=> In(y, GatherBy(f, u)) \/ In(y, f[x])
    BY <2>1, <2>2, InConcat
  <2>4. /\ v \in Seq(S) /\ DOMAIN v = 1..(Len(u) + 1) /\ DOMAIN u = 1..Len(u)
        /\ Len(u) \in Nat /\ v[Len(u) + 1] = x /\ \A i \in 1..Len(u) : v[i] = u[i]
    OBVIOUS
  <2> HIDE DEF v
  <2>5. (\E i \in DOMAIN v : In(y, f[v[i]]))
          <=> (\E i \in DOMAIN u : In(y, f[u[i]])) \/ In(y, f[x])
    <3>1. ASSUME NEW i \in DOMAIN v, In(y, f[v[i]])
          PROVE  (\E j \in DOMAIN u : In(y, f[u[j]])) \/ In(y, f[x])
      BY <2>4, <3>1, SMTT(30)
    <3>2. ASSUME NEW i \in DOMAIN u, In(y, f[u[i]]) PROVE \E j \in DOMAIN v : In(y, f[v[j]])
      BY <2>4, <3>2
    <3>3. ASSUME In(y, f[x]) PROVE \E j \in DOMAIN v : In(y, f[v[j]])
      <4>1. Len(u) + 1 \in DOMAIN v BY <2>4
      <4> QED BY <2>4, <3>3, <4>1
    <3> QED BY <3>1, <3>2, <3>3
  <2> QED BY <1>2, <2>3, <2>4, <2>5 DEF v
<1> HIDE DEF F
<1>3. \A u \in Seq(S) : u \in F BY <1>1, <1>2, SeqInductive
<1> QED BY <1>3 DEF F

\* Changing the elements is gathering one for each.
OneEach(k, g, S) == \A x \in S : k[x] = <<g[x]>>

LEMMA MapIsGather ==
  ASSUME NEW S, NEW T, NEW g \in [S -> T], NEW s \in Seq(S),
         NEW k, OneEach(k, g, S)
  PROVE  [i \in DOMAIN s |-> g[s[i]]] = GatherBy(k, s)
<1> DEFINE m == [i \in DOMAIN s |-> g[s[i]]]  one == [y \in T |-> <<y>>]
<1>1. m \in Seq(T) BY MapAppend
<1>2. \A i \in DOMAIN s : one[g[s[i]]] = k[s[i]] BY DEF OneEach
<1>3. \A i \in DOMAIN m : one[m[i]] = <<m[i]>> BY <1>1
<1> HIDE DEF one
<1>4. GatherBy(one, m) = GatherBy(k, s) BY <1>2, GatherOfMap
<1> HIDE DEF m
<1>5. GatherBy(one, m) = m BY <1>1, <1>3, GatherAll
<1> QED BY <1>4, <1>5 DEF m

-----------------------------------------------------------------------------
(* Translation: blocks and messages, and what is gathered from them        *)

\* Blocks whose call is one, if they are about a call.
Block == {b \in ContentBlock : b.kind \in {"tool_use", "tool_result"} => b.call \in Calls}
Shown == {b \in ContentBlock : b.kind \in {"text", "image"}}
Parsed == {b \in Block : b.kind # "thinking"}

Messages == [role : Roles, content : Seq(Block), calls : Seq(Calls),
             callId : Calls \union {NoCall}]

KindF(kinds) == [b \in Block |-> IF b.kind \in kinds THEN <<b>> ELSE <<>>]
UseF  == [b \in Block |-> IF b.kind = "tool_use" THEN <<b.call>> ELSE <<>>]
TextF == [b \in Block |-> IF b.kind \in {"text", "tool_result"} /\ b.ref # Empty
                          THEN <<b.ref>> ELSE <<>>]
CallF == [m \in Messages |-> CallsOf(m)]
RestF == [m \in Messages |-> IF m.role = "system" THEN <<>> ELSE <<m>>]

LEMMA BlockFacts ==
  /\ Shown \subseteq Block /\ Parsed \subseteq Block /\ Block \subseteq ContentBlock
  /\ Shown \subseteq Parsed
  /\ \A b \in Block : /\ b.kind \in ContentTypes /\ b.ref \in Refs
                      /\ b.call \in Calls \union {NoCall}
                      /\ b = [kind |-> b.kind, ref |-> b.ref, call |-> b.call]
BY DEF Block, Shown, Parsed, ContentBlock, ContentTypes

LEMMA Constructors ==
  /\ \A x \in Refs : Text(x) \in Shown
  /\ \A x \in Images \union {Empty} : Image(x) \in Shown
  /\ \A c \in Calls : Use(c) \in Parsed
  /\ \A c \in Calls, x \in Refs : Result(c, x) \in Parsed
  /\ Thinking \in Block
BY DEF Text, Image, Use, Result, Thinking, Shown, Block, Parsed, ContentBlock, ContentTypes,
       Refs

LEMMA KindFType == ASSUME NEW kinds PROVE KindF(kinds) \in [Block -> Seq(Block)]
BY DEF KindF

LEMMA UseFType == UseF \in [Block -> Seq(Calls)]
BY DEF UseF, Block

LEMMA TextFType == TextF \in [Block -> Seq(Refs)]
BY BlockFacts DEF TextF

LEMMA OfKindIs ==
  ASSUME NEW s \in Seq(Block), NEW kinds
  PROVE  OfKind(s, kinds) = GatherBy(KindF(kinds), s)
<1>1. \A i \in DOMAIN s : s[i] \in Block OBVIOUS
<1>2. [i \in DOMAIN s |-> IF s[i].kind \in kinds THEN <<s[i]>> ELSE <<>>]
        = [i \in DOMAIN s |-> KindF(kinds)[s[i]]]
  BY <1>1 DEF KindF
<1> QED BY <1>2 DEF OfKind, Gather, Map, GatherBy

LEMMA UsesIs == ASSUME NEW s \in Seq(Block) PROVE Uses(s) = GatherBy(UseF, s)
<1>1. \A i \in DOMAIN s : s[i] \in Block OBVIOUS
<1>2. [i \in DOMAIN s |-> IF s[i].kind = "tool_use" THEN <<s[i].call>> ELSE <<>>]
        = [i \in DOMAIN s |-> UseF[s[i]]]
  BY <1>1 DEF UseF
<1> QED BY <1>2 DEF Uses, Gather, Map, GatherBy

LEMMA TextsOfIs ==
  ASSUME NEW m \in Messages PROVE TextsOf(m) = GatherBy(TextF, m.content)
<1> DEFINE s == m.content
<1>1. \A i \in DOMAIN s : s[i] \in Block BY DEF Messages
<1>2. [i \in DOMAIN s |-> IF s[i].kind \in {"text", "tool_result"} /\ s[i].ref # Empty
                          THEN <<s[i].ref>> ELSE <<>>]
        = [i \in DOMAIN s |-> TextF[s[i]]]
  BY <1>1 DEF TextF
<1> QED BY <1>2 DEF TextsOf, Gather, Map, GatherBy

LEMMA CallsOfIs ==
  ASSUME NEW m \in Messages
  PROVE  /\ CallsOf(m) = m.calls \o GatherBy(UseF, m.content)
         /\ CallsOf(m) \in Seq(Calls)
<1>1. m.content \in Seq(Block) /\ m.calls \in Seq(Calls) BY DEF Messages
<1>2. CallsOf(m) = m.calls \o GatherBy(UseF, m.content) BY <1>1, UsesIs DEF CallsOf
<1>3. GatherBy(UseF, m.content) \in Seq(Calls) BY <1>1, UseFType, GatherType
<1> QED BY <1>1, <1>2, <1>3, ConcatProperties

LEMMA CallFType == CallF \in [Messages -> Seq(Calls)]
BY CallsOfIs DEF CallF

LEMMA RestFType == RestF \in [Messages -> Seq(Messages)]
BY DEF RestF

LEMMA AllCallsIs ==
  ASSUME NEW s \in Seq(Messages) PROVE AllCalls(s) = GatherBy(CallF, s)
<1>1. \A i \in DOMAIN s : s[i] \in Messages OBVIOUS
<1>2. [i \in DOMAIN s |-> CallsOf(s[i])] = [i \in DOMAIN s |-> CallF[s[i]]]
  BY <1>1 DEF CallF
<1> QED BY <1>2 DEF AllCalls, Gather, Map, GatherBy

LEMMA NotSystemIs ==
  ASSUME NEW s \in Seq(Messages) PROVE NotSystem(s) = GatherBy(RestF, s)
<1>1. \A i \in DOMAIN s : s[i] \in Messages OBVIOUS
<1>2. [i \in DOMAIN s |-> IF s[i].role = "system" THEN <<>> ELSE <<s[i]>>]
        = [i \in DOMAIN s |-> RestF[s[i]]]
  BY <1>1 DEF RestF
<1> QED BY <1>2 DEF NotSystem, Gather, Map, GatherBy

-----------------------------------------------------------------------------
(* From OpenAI's format to Anthropic's                                     *)

OpenAIMessages ==
  {m \in [role : Roles, content : Seq(Shown), calls : Seq(Calls),
          callId : Calls \union {NoCall}] :
     m.role = "system" => /\ m.content \in Seq(Spoken)
                          /\ m.calls = <<>> /\ m.callId = NoCall}

AnthropicMessages ==
  [role : Roles \ {"system"}, content : Seq(Block), calls : {<<>>}, callId : {NoCall}]

LEMMA SpokenIsShown == Spoken \subseteq Shown
<1>1. ASSUME NEW x \in Texts PROVE Text(x) \in Shown BY Constructors DEF Refs
<1>2. ASSUME NEW x \in Images PROVE Image(x) \in Shown BY Constructors
<1> QED BY <1>1, <1>2 DEF Spoken, TextBlocks

LEMMA MessageKinds ==
  /\ OpenAIMessages \subseteq Messages
  /\ AnthropicMessages \subseteq Messages
  /\ Messages \subseteq Message
<1>1. ASSUME NEW s \in Seq(Shown) PROVE s \in Seq(Block)
  BY BlockFacts, SeqMonotonic
<1>2. ASSUME NEW s \in Seq(Block) PROVE s \in Seq(ContentBlock)
  BY BlockFacts, SeqMonotonic
<1>3. <<>> \in Seq(Calls) BY EmptySeq
<1> QED BY <1>1, <1>2, <1>3 DEF OpenAIMessages, AnthropicMessages, Messages, Message

\* The results of a message.
LEMMA ResultsOfIs ==
  ASSUME NEW m \in Messages
  PROVE  \A c : c \in ResultsOf(m) <=>
           \/ \E i \in DOMAIN m.content : /\ m.content[i].kind = "tool_result"
                                          /\ m.content[i].call = c
           \/ c = m.callId /\ c # NoCall
<1> DEFINE s == m.content  K == {"tool_result"}
<1>1. s \in Seq(Block) BY DEF Messages
<1>2. OfKind(s, K) = GatherBy(KindF(K), s) BY <1>1, OfKindIs
<1>3. ASSUME NEW b
      PROVE  In(b, OfKind(s, K)) <=> \E i \in DOMAIN s : s[i] = b /\ b.kind = "tool_result"
  <2> HIDE DEF s
  <2>1. KindF(K) \in [Block -> Seq(Block)] BY KindFType
  <2>2. In(b, GatherBy(KindF(K), s)) <=> \E i \in DOMAIN s : In(b, KindF(K)[s[i]])
    BY <1>1, <2>1, GatherElements
  <2>3. ASSUME NEW i \in DOMAIN s
        PROVE  In(b, KindF(K)[s[i]]) <=> s[i] = b /\ b.kind = "tool_result"
    <3>1. s[i] \in Block BY <1>1
    <3>2. KindF(K)[s[i]] = IF s[i].kind = "tool_result" THEN <<s[i]>> ELSE <<>>
      BY <3>1 DEF KindF
    <3> QED BY <3>2 DEF In
  <2> QED BY <1>2, <2>2, <2>3
<1>4. ToSet(OfKind(s, K)) = {b \in Block : In(b, OfKind(s, K))}
  <2>1. OfKind(s, K) \in Seq(Block) BY <1>1, <1>2, KindFType, GatherType
  <2> QED BY <2>1 DEF ToSet, In
<1>5. {b.call : b \in ToSet(OfKind(s, K))} \union ({m.callId} \ {NoCall}) = ResultsOf(m)
  BY DEF ResultsOf
<1>6. \A i \in DOMAIN s : s[i] \in Block BY <1>1
<1> HIDE DEF s, K
<1>7. ASSUME NEW c PROVE c \in {b.call : b \in ToSet(OfKind(s, K))} <=>
        \E i \in DOMAIN s : s[i].kind = "tool_result" /\ s[i].call = c
  BY <1>3, <1>4, <1>6
<1> QED BY <1>5, <1>7 DEF s

NoImageF == [b \in Block |-> NoImage(b)]

LEMMA NoImageFacts ==
  /\ NoImageF \in [Block -> Block]
  /\ \A b \in Block : /\ NoImage(b) = NoImageF[b] /\ NoImage(b).kind = b.kind
                      /\ b.kind # "image" => NoImage(b) = b
<1>1. ASSUME NEW b \in Block
      PROVE  /\ NoImage(b) \in Block /\ NoImage(b).kind = b.kind
             /\ b.kind # "image" => NoImage(b) = b
  <2>1. Image(Empty) \in Block /\ Image(Empty).kind = "image"
    BY Constructors, BlockFacts DEF Image
  <2> QED BY <2>1 DEF NoImage
<1> QED BY <1>1 DEF NoImageF

LEMMA WithoutImages ==
  ASSUME NEW s \in Seq(Block)
  PROVE  /\ Map(NoImage, s) \in Seq(Block) /\ DOMAIN Map(NoImage, s) = DOMAIN s
         /\ \A i \in DOMAIN s : Map(NoImage, s)[i] = NoImage(s[i])
         /\ GatherBy(UseF, Map(NoImage, s)) = GatherBy(UseF, s)
         /\ GatherBy(TextF, Map(NoImage, s)) = GatherBy(TextF, s)
<1>1. \A i \in DOMAIN s : s[i] \in Block OBVIOUS
<1>2. Map(NoImage, s) = [i \in DOMAIN s |-> NoImageF[s[i]]]
  <2>1. \A i \in DOMAIN s : NoImage(s[i]) = NoImageF[s[i]] BY <1>1, NoImageFacts
  <2> QED BY <2>1 DEF Map
<1>3. Map(NoImage, s) \in Seq(Block) BY <1>2, NoImageFacts, MapAppend
<1>4. ASSUME NEW b \in Block PROVE UseF[NoImageF[b]] = UseF[b]
  <2>1. /\ NoImageF[b] \in Block /\ NoImageF[b].kind = b.kind
        /\ b.kind # "image" => NoImageF[b] = b
    BY NoImageFacts
  <2> QED BY <2>1 DEF UseF
<1>5. ASSUME NEW b \in Block PROVE TextF[NoImageF[b]] = TextF[b]
  <2>1. /\ NoImageF[b] \in Block /\ NoImageF[b].kind = b.kind
        /\ b.kind # "image" => NoImageF[b] = b
    BY NoImageFacts
  <2> QED BY <2>1 DEF TextF
<1>6. GatherBy(UseF, [i \in DOMAIN s |-> NoImageF[s[i]]]) = GatherBy(UseF, s)
  <2>1. \A i \in DOMAIN s : UseF[NoImageF[s[i]]] = UseF[s[i]] BY <1>1, <1>4
  <2>2. NoImageF \in [Block -> Block] BY NoImageFacts
  <2> QED BY <2>1, <2>2, GatherOfMap
<1>7. GatherBy(TextF, [i \in DOMAIN s |-> NoImageF[s[i]]]) = GatherBy(TextF, s)
  <2>1. \A i \in DOMAIN s : TextF[NoImageF[s[i]]] = TextF[s[i]] BY <1>1, <1>5
  <2>2. NoImageF \in [Block -> Block] BY NoImageFacts
  <2> QED BY <2>1, <2>2, GatherOfMap
<1>8. \A i \in DOMAIN s : Map(NoImage, s)[i] = NoImage(s[i]) BY DEF Map
<1>9. DOMAIN Map(NoImage, s) = DOMAIN s BY DEF Map
<1> QED BY <1>2, <1>3, <1>6, <1>7, <1>8, <1>9

\* The calls of an OpenAI message, made blocks.
LEMMA CallBlocks ==
  ASSUME NEW s \in Seq(Calls)
  PROVE  /\ Map(Use, s) \in Seq(Parsed)
         /\ GatherBy(UseF, Map(Use, s)) = s
         /\ GatherBy(TextF, Map(Use, s)) = <<>>
<1> DEFINE u == [c \in Calls |-> Use(c)]  one == [c \in Calls |-> <<c>>]
           none == [c \in Calls |-> <<>>]
<1>1. \A i \in DOMAIN s : s[i] \in Calls OBVIOUS
<1>2. Map(Use, s) = [i \in DOMAIN s |-> u[s[i]]]
  BY <1>1 DEF Map
<1>3. u \in [Calls -> Parsed] /\ \A c \in Calls : u[c] \in Block
  BY Constructors, BlockFacts
<1>4. \A c \in Calls : UseF[u[c]] = one[c] /\ TextF[u[c]] = none[c]
  BY <1>3 DEF UseF, TextF, Use
<1>5. \A i \in DOMAIN s : one[s[i]] = <<s[i]>> /\ none[s[i]] = <<>> BY <1>1
<1> HIDE DEF u, one, none
<1>6. Map(Use, s) \in Seq(Parsed) BY <1>2, <1>3, MapAppend
<1>7. GatherBy(UseF, Map(Use, s)) = s
  <2>1. \A i \in DOMAIN s : UseF[u[s[i]]] = one[s[i]] BY <1>1, <1>4
  <2>2. GatherBy(UseF, [i \in DOMAIN s |-> u[s[i]]]) = GatherBy(one, s)
    BY <1>3, <2>1, GatherOfMap
  <2>3. GatherBy(one, s) = s BY <1>5, GatherAll
  <2> QED BY <1>2, <2>2, <2>3
<1>8. GatherBy(TextF, Map(Use, s)) = <<>>
  <2>1. \A i \in DOMAIN s : TextF[u[s[i]]] = none[s[i]] BY <1>1, <1>4
  <2>2. GatherBy(TextF, [i \in DOMAIN s |-> u[s[i]]]) = GatherBy(none, s)
    BY <1>3, <2>1, GatherOfMap
  <2>3. GatherBy(none, s) = <<>> BY <1>5, GatherNone
  <2> QED BY <1>2, <2>2, <2>3
<1> QED BY <1>6, <1>7, <1>8

\* What is gathered from three pieces.
LEMMA AdditiveThree ==
  ASSUME NEW f, NEW S, Additive(f, S), NEW s \in Seq(S), NEW t \in Seq(S), NEW u \in Seq(S)
  PROVE  GatherBy(f, s \o t \o u) = GatherBy(f, s) \o GatherBy(f, t) \o GatherBy(f, u)
<1>1. s \o t \in Seq(S) BY ConcatProperties
<1>2. GatherBy(f, (s \o t) \o u) = GatherBy(f, s \o t) \o GatherBy(f, u)
  BY <1>1 DEF Additive
<1>3. GatherBy(f, s \o t) = GatherBy(f, s) \o GatherBy(f, t) BY DEF Additive
<1> QED BY <1>2, <1>3

LEMMA Additives ==
  /\ \A kinds : Additive(KindF(kinds), Block)
  /\ Additive(UseF, Block) /\ Additive(TextF, Block)
  /\ Additive(CallF, Messages) /\ Additive(RestF, Messages)
<1>1. ASSUME NEW kinds PROVE Additive(KindF(kinds), Block)
  <2>1. KindF(kinds) \in [Block -> Seq(Block)] BY KindFType
  <2> QED BY <2>1, GatherAdditive
<1>2. Additive(UseF, Block) BY UseFType, GatherAdditive
<1>3. Additive(TextF, Block) BY TextFType, GatherAdditive
<1>4. Additive(CallF, Messages) BY CallFType, GatherAdditive
<1>5. Additive(RestF, Messages) BY RestFType, GatherAdditive
<1> QED BY <1>1, <1>2, <1>3, <1>4, <1>5

\* ParseOpenAIMessage, in its three pieces.
ResultBlock(m) == IF m.callId = NoCall THEN <<>> ELSE <<Result(m.callId, Empty)>>

LEMMA OpenAIParsed ==
  ASSUME NEW m \in OpenAIMessages
  PROVE  LET s == ParseOpenAIMessage(m).content
         IN  /\ ParseOpenAIMessage(m) = Msg(m.role, s)
             /\ s = m.content \o Map(Use, m.calls) \o ResultBlock(m)
             /\ s \in Seq(Parsed)
             /\ m.content \in Seq(Block) /\ Map(Use, m.calls) \in Seq(Block)
             /\ ResultBlock(m) \in Seq(Block)
             /\ m.role = "system" => s = m.content
<1> DEFINE s == ParseOpenAIMessage(m).content
<1>1. /\ m.content \in Seq(Shown) /\ m.calls \in Seq(Calls)
      /\ m.callId \in Calls \union {NoCall}
  BY DEF OpenAIMessages
<1>2. /\ ParseOpenAIMessage(m) = Msg(m.role, s)
      /\ s = m.content \o Map(Use, m.calls) \o ResultBlock(m)
  BY DEF ParseOpenAIMessage, Msg, ResultBlock
<1>3. m.content \in Seq(Parsed) /\ m.content \in Seq(Block)
  BY <1>1, BlockFacts, SeqMonotonic
<1>4. Map(Use, m.calls) \in Seq(Parsed) /\ Map(Use, m.calls) \in Seq(Block)
  <2>1. Map(Use, m.calls) \in Seq(Parsed) BY <1>1, CallBlocks
  <2> QED BY <2>1, BlockFacts, SeqMonotonic
<1>5. ResultBlock(m) \in Seq(Parsed) /\ ResultBlock(m) \in Seq(Block)
  <2>1. CASE m.callId = NoCall BY <2>1, EmptySeq DEF ResultBlock
  <2>2. CASE m.callId # NoCall
    <3>1. Result(m.callId, Empty) \in Parsed /\ Parsed \subseteq Block
      BY <1>1, <2>2, Constructors, BlockFacts DEF Refs
    <3>2. ResultBlock(m) = <<Result(m.callId, Empty)>> BY <2>2 DEF ResultBlock
    <3> QED BY <3>1, <3>2
  <2> QED BY <2>1, <2>2
<1>6. m.content \o Map(Use, m.calls) \o ResultBlock(m) \in Seq(Parsed)
  <2>1. m.content \o Map(Use, m.calls) \in Seq(Parsed) BY <1>3, <1>4, ConcatProperties
  <2> QED BY <1>5, <2>1, ConcatProperties
<1>7. ASSUME m.role = "system" PROVE s = m.content
  <2>1. m.calls = <<>> /\ m.callId = NoCall BY <1>7 DEF OpenAIMessages
  <2>2. Map(Use, m.calls) = <<>> BY <2>1 DEF Map
  <2>3. ResultBlock(m) = <<>> BY <2>1 DEF ResultBlock
  <2>4. m.content \o <<>> = m.content BY <1>3, ConcatEmptySeq
  <2> HIDE DEF s
  <2> QED BY <1>2, <2>2, <2>3, <2>4
<1> QED BY <1>2, <1>3, <1>4, <1>5, <1>6, <1>7

ToAnthropic(m) == Msg(m.role, Map(NoImage, ParseOpenAIMessage(m).content))

\* What an Anthropic provider gets of a message: its role, texts, calls and results.
LEMMA ToAnthropicKeeps ==
  ASSUME NEW m \in OpenAIMessages
  PROVE  LET p == ToAnthropic(m)
         IN  /\ p \in Messages /\ p.role = m.role
             /\ CallsOf(p) = CallsOf(m)
             /\ TextsOf(p) = TextsOf(m)
             /\ ResultsOf(p) = ResultsOf(m)
<1> DEFINE p == ToAnthropic(m)
           s == ParseOpenAIMessage(m).content
           c == m.content  u == Map(Use, m.calls)  r == ResultBlock(m)
<1>1. m \in Messages /\ c \in Seq(Shown) /\ m.calls \in Seq(Calls)
      /\ m.callId \in Calls \union {NoCall} /\ m.role \in Roles
  BY MessageKinds DEF OpenAIMessages
<1>2. s = c \o u \o r /\ s \in Seq(Parsed) /\ c \in Seq(Block) /\ u \in Seq(Block)
      /\ r \in Seq(Block)
  BY OpenAIParsed
<1>3. s \in Seq(Block) BY <1>2, BlockFacts, SeqMonotonic
<1>4. p = [role |-> m.role, content |-> Map(NoImage, s), calls |-> <<>>, callId |-> NoCall]
  BY DEF ToAnthropic, Msg
<1>5. Map(NoImage, s) \in Seq(Block) BY <1>3, WithoutImages
<1>6. p \in Messages
  <2>1. <<>> \in Seq(Calls) BY EmptySeq
  <2> HIDE DEF s
  <2> QED BY <1>1, <1>4, <1>5, <2>1 DEF Messages
<1> HIDE DEF s, c, u, r
<1>7. \A i \in DOMAIN c : c[i] \in Shown BY <1>1
<1>8. CallsOf(p) = CallsOf(m)
  <2>1. CallsOf(p) = <<>> \o GatherBy(UseF, Map(NoImage, s))
    <3>1. p.calls = <<>> /\ p.content = Map(NoImage, s) BY <1>4
    <3> HIDE DEF p
    <3>2. CallsOf(p) = p.calls \o GatherBy(UseF, p.content) BY <1>6, CallsOfIs
    <3> QED BY <3>1, <3>2
  <2>2. GatherBy(UseF, Map(NoImage, s)) = GatherBy(UseF, s) BY <1>3, WithoutImages
  <2>3. GatherBy(UseF, s) = GatherBy(UseF, c) \o GatherBy(UseF, u) \o GatherBy(UseF, r)
    <3>1. c \in Seq(Block) /\ u \in Seq(Block) /\ r \in Seq(Block) BY <1>2
    <3>0. Additive(UseF, Block) BY Additives
    <3>2. GatherBy(UseF, c \o u \o r) = GatherBy(UseF, c) \o GatherBy(UseF, u) \o GatherBy(UseF, r)
      BY ONLY <3>0, <3>1, AdditiveThree, SMTT(30)
    <3> QED BY <1>2, <3>2
  <2>4. GatherBy(UseF, c) = <<>>
    <3>1. \A i \in DOMAIN c : UseF[c[i]] = <<>>
      BY <1>7, BlockFacts DEF UseF, Shown
    <3> QED BY <1>2, <3>1, GatherNone
  <2>5. GatherBy(UseF, u) = m.calls BY <1>1, CallBlocks DEF u
  <2>6. GatherBy(UseF, r) = <<>>
    <3>1. \A i \in DOMAIN r : r[i] \in Block /\ r[i].kind = "tool_result"
      BY <1>2 DEF r, ResultBlock, Result
    <3>2. \A i \in DOMAIN r : UseF[r[i]] = <<>> BY <3>1 DEF UseF
    <3> QED BY <1>2, <3>2, GatherNone
  <2>7. CallsOf(m) = m.calls \o <<>> BY <1>1, <2>4, CallsOfIs DEF c
  <2>8. <<>> \o ((<<>> \o m.calls) \o <<>>) = m.calls \o <<>>
    <3>1. m.calls \o <<>> = m.calls /\ <<>> \o m.calls = m.calls
      BY <1>1, ConcatEmptySeq
    <3> QED BY <3>1
  <2> QED BY <2>1, <2>2, <2>3, <2>4, <2>5, <2>6, <2>7, <2>8
<1>9. TextsOf(p) = TextsOf(m)
  <2>1. TextsOf(p) = GatherBy(TextF, Map(NoImage, s)) BY <1>4, <1>6, TextsOfIs
  <2>2. GatherBy(TextF, Map(NoImage, s)) = GatherBy(TextF, s) BY <1>3, WithoutImages
  <2>3. GatherBy(TextF, s) = GatherBy(TextF, c) \o GatherBy(TextF, u) \o GatherBy(TextF, r)
    <3>1. c \in Seq(Block) /\ u \in Seq(Block) /\ r \in Seq(Block) BY <1>2
    <3>0. Additive(TextF, Block) BY Additives
    <3>2. GatherBy(TextF, c \o u \o r) = GatherBy(TextF, c) \o GatherBy(TextF, u) \o GatherBy(TextF, r)
      BY ONLY <3>0, <3>1, AdditiveThree, SMTT(30)
    <3> QED BY <1>2, <3>2
  <2>4. GatherBy(TextF, u) = <<>> BY <1>1, CallBlocks DEF u
  <2>5. GatherBy(TextF, r) = <<>>
    <3>1. \A i \in DOMAIN r : r[i] \in Block /\ r[i].ref = Empty
      BY <1>2 DEF r, ResultBlock, Result
    <3>2. \A i \in DOMAIN r : TextF[r[i]] = <<>> BY <3>1 DEF TextF
    <3> QED BY <1>2, <3>2, GatherNone
  <2>6. TextsOf(m) = GatherBy(TextF, c) BY <1>1, TextsOfIs DEF c
  <2>7. GatherBy(TextF, c) \in Seq(Refs) BY <1>2, TextFType, GatherType
  <2>8. (GatherBy(TextF, c) \o <<>>) \o <<>> = GatherBy(TextF, c)
    <3>1. GatherBy(TextF, c) \o <<>> = GatherBy(TextF, c) BY <2>7, ConcatEmptySeq
    <3> QED BY <3>1
  <2> QED BY <2>1, <2>2, <2>3, <2>4, <2>5, <2>6, <2>8
<1>10. ResultsOf(p) = ResultsOf(m)
  <2> DEFINE n == Map(NoImage, s)
  <2>1. DOMAIN n = DOMAIN s /\ \A i \in DOMAIN s : n[i] = NoImage(s[i])
    BY <1>3, WithoutImages
  <2>2. \A i \in DOMAIN s : s[i] \in Block BY <1>3
  <2> HIDE DEF n
  <2>3. \A i \in DOMAIN s : /\ n[i].kind = s[i].kind
                            /\ s[i].kind = "tool_result" => n[i].call = s[i].call
    BY <2>1, <2>2, NoImageFacts
  <2>4. \A d : (\E i \in DOMAIN s : s[i].kind = "tool_result" /\ s[i].call = d)
                <=> d = m.callId /\ d # NoCall
    <3> TAKE d
    <3>1. (\E i \in DOMAIN s : s[i].kind = "tool_result" /\ s[i].call = d)
            <=> \E b \in Block : In(b, s) /\ b.kind = "tool_result" /\ b.call = d
      BY <2>2 DEF In
    <3>2. ASSUME NEW b PROVE In(b, s) <=> In(b, c) \/ In(b, u) \/ In(b, r)
      <4>1. c \o u \in Seq(Block) BY <1>2, ConcatProperties
      <4>2. In(b, (c \o u) \o r) <=> In(b, c \o u) \/ In(b, r) BY <1>2, <4>1, InConcat, ZenonT(60)
      <4>3. In(b, c \o u) <=> In(b, c) \/ In(b, u) BY <1>2, InConcat
      <4> QED BY <1>2, <4>2, <4>3
    <3>3. ASSUME NEW b, In(b, c) \/ In(b, u) PROVE b.kind # "tool_result"
      <4>1. CASE In(b, c) BY <1>7, <4>1 DEF In, Shown
      <4>2. CASE In(b, u) BY <4>2 DEF In, u, Map, Use
      <4> QED BY <3>3, <4>1, <4>2
    <3>4. ASSUME NEW b PROVE In(b, r) <=> m.callId # NoCall /\ b = Result(m.callId, Empty)
      BY DEF In, r, ResultBlock
    <3>5. \A b : (In(b, s) /\ b.kind = "tool_result")
                   <=> m.callId # NoCall /\ b = Result(m.callId, Empty)
      <4>1. Result(m.callId, Empty).kind = "tool_result" BY DEF Result
      <4> QED BY <3>2, <3>3, <3>4, <4>1
    <3>6. m.callId # NoCall => Result(m.callId, Empty) \in Block
      BY <1>1, Constructors, BlockFacts DEF Refs
    <3>7. Result(m.callId, Empty).call = m.callId BY DEF Result
    <3> QED BY <3>1, <3>5, <3>6, <3>7
  <2>5. p.content = n /\ p.callId = NoCall BY <1>4 DEF n
  <2>6. \A d : d \in ResultsOf(p) <=> d = m.callId /\ d # NoCall
    <3> TAKE d
    <3>1. d \in ResultsOf(p) <=>
            \/ \E i \in DOMAIN n : n[i].kind = "tool_result" /\ n[i].call = d
            \/ d = NoCall /\ d # NoCall
      BY <1>6, <2>5, ResultsOfIs
    <3>2. d \in ResultsOf(p) <=> \E i \in DOMAIN s : s[i].kind = "tool_result" /\ s[i].call = d
      BY <2>1, <2>3, <3>1
    <3> QED BY <2>4, <3>2
  <2>7. \A d : d \in ResultsOf(m) <=> d = m.callId /\ d # NoCall
    <3> TAKE d
    <3>1. d \in ResultsOf(m) <=>
            \/ \E i \in DOMAIN c : c[i].kind = "tool_result" /\ c[i].call = d
            \/ d = m.callId /\ d # NoCall
      BY <1>1, ResultsOfIs DEF c
    <3> QED BY <1>7, <3>1 DEF Shown
  <2> QED BY <2>6, <2>7
<1> QED BY <1>4, <1>6, <1>8, <1>9, <1>10

-----------------------------------------------------------------------------
(* Results that belong to calls                                            *)

Orphanless(s) ==
  \A i \in DOMAIN s : \A c \in ResultsOf(s[i]) :
    \E j \in 1..(i - 1) : c \in ToSet(CallsOf(s[j]))

LEMMA InAllCalls ==
  ASSUME NEW s \in Seq(Messages), NEW c
  PROVE  In(c, AllCalls(s)) <=> \E j \in 1..Len(s) : c \in ToSet(CallsOf(s[j]))
<1>1. AllCalls(s) = GatherBy(CallF, s) BY AllCallsIs
<1>2. In(c, GatherBy(CallF, s)) <=> \E j \in DOMAIN s : In(c, CallF[s[j]])
  BY CallFType, GatherElements
<1>3. \A j \in DOMAIN s : CallF[s[j]] = CallsOf(s[j]) BY DEF CallF
<1>4. \A j \in DOMAIN s : In(c, CallF[s[j]]) <=> c \in ToSet(CallsOf(s[j]))
  BY <1>3 DEF In, ToSet
<1>5. DOMAIN s = 1..Len(s) BY LenProperties
<1> QED BY <1>1, <1>2, <1>4, <1>5

LEMMA OrphanlessAppend ==
  ASSUME NEW s \in Seq(Messages), NEW m \in Messages
  PROVE  Orphanless(Append(s, m))
           <=> Orphanless(s) /\ \A c \in ResultsOf(m) : In(c, AllCalls(s))
<1> DEFINE a == Append(s, m)  n == Len(s)
<1>1. /\ n \in Nat /\ DOMAIN a = 1..(n + 1) /\ DOMAIN s = 1..n /\ a[n + 1] = m
      /\ \A i \in 1..n : a[i] = s[i]
  OBVIOUS
<1>2. \A c : In(c, AllCalls(s)) <=> \E j \in 1..n : c \in ToSet(CallsOf(s[j]))
  BY InAllCalls
<1> HIDE DEF a, n
<1>3. ASSUME NEW i \in 1..(n + 1), NEW c
      PROVE  (\E j \in 1..(i - 1) : c \in ToSet(CallsOf(a[j])))
               <=> \E j \in 1..(i - 1) : c \in ToSet(CallsOf(s[j]))
  <2>1. \A j \in 1..(i - 1) : a[j] = s[j] BY <1>1
  <2> QED BY <2>1
<1>4. ASSUME Orphanless(a) PROVE Orphanless(s)
  <2> SUFFICES ASSUME NEW i \in DOMAIN s, NEW c \in ResultsOf(s[i])
               PROVE  \E j \in 1..(i - 1) : c \in ToSet(CallsOf(s[j]))
    BY DEF Orphanless
  <2>1. i \in DOMAIN a /\ i \in 1..(n + 1) /\ a[i] = s[i] BY <1>1
  <2>2. \E j \in 1..(i - 1) : c \in ToSet(CallsOf(a[j])) BY <1>4, <2>1 DEF Orphanless
  <2> QED BY <1>3, <2>1, <2>2
<1>5. ASSUME Orphanless(a), NEW c \in ResultsOf(m) PROVE In(c, AllCalls(s))
  <2>1. n + 1 \in DOMAIN a /\ n + 1 \in 1..(n + 1) /\ n + 1 - 1 = n BY <1>1
  <2>2. \E j \in 1..(n + 1 - 1) : c \in ToSet(CallsOf(a[j])) BY <1>1, <1>5, <2>1 DEF Orphanless
  <2>3. PICK j \in 1..n : c \in ToSet(CallsOf(a[j])) BY <2>1, <2>2
  <2>4. a[j] = s[j] BY <1>1
  <2> QED BY <1>2, <2>3, <2>4
<1>6. ASSUME Orphanless(s), \A c \in ResultsOf(m) : In(c, AllCalls(s))
      PROVE  Orphanless(a)
  <2> SUFFICES ASSUME NEW i \in DOMAIN a, NEW c \in ResultsOf(a[i])
               PROVE  \E j \in 1..(i - 1) : c \in ToSet(CallsOf(a[j]))
    BY DEF Orphanless
  <2>1. i \in 1..(n + 1) BY <1>1
  <2>2. CASE i = n + 1
    <3>1. i - 1 = n /\ a[i] = m BY <1>1, <2>2
    <3>2. \E j \in 1..(i - 1) : c \in ToSet(CallsOf(s[j])) BY <1>2, <1>6, <3>1
    <3> QED BY <1>3, <2>1, <3>2
  <2>3. CASE i # n + 1
    <3>1. i \in DOMAIN s /\ a[i] = s[i] BY <1>1, <2>1, <2>3
    <3>2. \E j \in 1..(i - 1) : c \in ToSet(CallsOf(s[j])) BY <1>6, <3>1 DEF Orphanless
    <3> QED BY <1>3, <2>1, <3>2
  <2> QED BY <2>2, <2>3
<1> QED BY <1>4, <1>5, <1>6 DEF a

-----------------------------------------------------------------------------
(* A whole request for an Anthropic provider                               *)

ToAnthropicF ==
  [m \in OpenAIMessages |-> IF m.role = "system" THEN <<>> ELSE <<ToAnthropic(m)>>]

LEMMA ToAnthropicFType == ToAnthropicF \in [OpenAIMessages -> Seq(Messages)]
<1>1. ASSUME NEW m \in OpenAIMessages PROVE ToAnthropic(m) \in Messages
  BY ToAnthropicKeeps
<1>2. ASSUME NEW m \in OpenAIMessages
      PROVE  (IF m.role = "system" THEN <<>> ELSE <<ToAnthropic(m)>>) \in Seq(Messages)
  BY <1>1
<1> QED BY <1>2 DEF ToAnthropicF

LEMMA RestOfRequest ==
  ASSUME NEW s \in Seq(OpenAIMessages)
  PROVE  NotSystem(s) \in Seq(OpenAIMessages)
<1> DEFINE rest == [m \in OpenAIMessages |-> IF m.role = "system" THEN <<>> ELSE <<m>>]
<1>1. s \in Seq(Messages) /\ \A i \in DOMAIN s : s[i] \in OpenAIMessages
  BY MessageKinds, SeqMonotonic
<1>2. NotSystem(s) = GatherBy(RestF, s) BY <1>1, NotSystemIs
<1>3. \A i \in DOMAIN s : RestF[s[i]] = rest[s[i]] BY <1>1, MessageKinds DEF RestF
<1>4. rest \in [OpenAIMessages -> Seq(OpenAIMessages)] OBVIOUS
<1> HIDE DEF rest
<1>5. GatherBy(RestF, s) = GatherBy(rest, s) BY <1>3, GatherSame
<1>6. GatherBy(rest, s) \in Seq(OpenAIMessages) BY <1>4, GatherType
<1> QED BY <1>2, <1>5, <1>6

\* Leaving out the system messages and changing the others, in either order.
LEMMA RestOfMap ==
  ASSUME NEW S, S \subseteq Messages, NEW p \in [S -> Messages],
         \A m \in S : p[m].role = m.role, NEW s \in Seq(S)
  PROVE  /\ [i \in DOMAIN s |-> p[s[i]]] \in Seq(Messages)
         /\ NotSystem([i \in DOMAIN s |-> p[s[i]]])
              = GatherBy([m \in S |-> IF m.role = "system" THEN <<>> ELSE <<p[m]>>], s)
<1> DEFINE t == [i \in DOMAIN s |-> p[s[i]]]
           k == [m \in S |-> IF m.role = "system" THEN <<>> ELSE <<p[m]>>]
<1>1. t \in Seq(Messages) BY MapAppend
<1>2. \A i \in DOMAIN s : RestF[p[s[i]]] = k[s[i]] BY DEF RestF
<1> HIDE DEF k
<1>3. GatherBy(RestF, t) = GatherBy(k, s) BY <1>2, GatherOfMap
<1> HIDE DEF t
<1>4. NotSystem(t) = GatherBy(RestF, t) BY <1>1, NotSystemIs
<1> QED BY <1>1, <1>3, <1>4 DEF t, k

\* The messages of a translated request: all but those of the system, one by one.
LEMMA AnthropicRequest ==
  ASSUME NEW talk, talk.messages \in Seq(OpenAIMessages)
  PROVE  BuildAnthropicRequest(ParseOpenAIRequest(talk)).messages
           = GatherBy(ToAnthropicF, talk.messages)
<1> DEFINE s == talk.messages
           parse == [m \in OpenAIMessages |-> ParseOpenAIMessage(m)]
           k == [m \in OpenAIMessages |-> IF m.role = "system" THEN <<>> ELSE <<parse[m]>>]
           g == [m \in Messages |-> Msg(m.role, Map(NoImage, m.content))]
           one == [m \in Messages |-> <<g[m]>>]
           t == [i \in DOMAIN s |-> parse[s[i]]]
           n == NotSystem(t)
<1>1. s \in Seq(OpenAIMessages) /\ \A i \in DOMAIN s : s[i] \in OpenAIMessages OBVIOUS
<1>2. ASSUME NEW m \in OpenAIMessages
      PROVE  /\ ParseOpenAIMessage(m) \in Messages
             /\ ParseOpenAIMessage(m).role = m.role
  <2> DEFINE x == ParseOpenAIMessage(m).content
  <2>1. ParseOpenAIMessage(m) = Msg(m.role, x) /\ x \in Seq(Parsed) BY OpenAIParsed
  <2>2. x \in Seq(Block) BY <2>1, BlockFacts, SeqMonotonic
  <2>3. m.role \in Roles BY DEF OpenAIMessages
  <2>4. <<>> \in Seq(Calls) BY EmptySeq
  <2> HIDE DEF x
  <2> QED BY <2>1, <2>2, <2>3, <2>4 DEF Msg, Messages
<1>3. /\ parse \in [OpenAIMessages -> Messages]
      /\ \A m \in OpenAIMessages : parse[m].role = m.role /\ parse[m] = ParseOpenAIMessage(m)
  BY <1>2
<1>4. ASSUME NEW m \in Messages PROVE g[m] \in Messages
  <2>1. m.content \in Seq(Block) /\ m.role \in Roles BY DEF Messages
  <2>2. Map(NoImage, m.content) \in Seq(Block) BY <2>1, WithoutImages
  <2>3. <<>> \in Seq(Calls) BY EmptySeq
  <2>4. g[m] = Msg(m.role, Map(NoImage, m.content)) OBVIOUS
  <2> HIDE DEF g
  <2> QED BY <2>1, <2>2, <2>3, <2>4 DEF Msg, Messages
<1>5. BuildAnthropicRequest(ParseOpenAIRequest(talk)).messages
        = [i \in DOMAIN n |-> Msg(n[i].role, Map(NoImage, n[i].content))]
  <2>1. Map(ParseOpenAIMessage, s) = t BY <1>1 DEF Map
  <2> HIDE DEF t
  <2> QED BY <2>1 DEF BuildAnthropicRequest, ParseOpenAIRequest, Map
<1> HIDE DEF parse
<1>6. t \in Seq(Messages) /\ n = GatherBy(k, s)
  <2>1. OpenAIMessages \subseteq Messages BY MessageKinds
  <2>2. /\ [i \in DOMAIN s |-> parse[s[i]]] \in Seq(Messages)
        /\ NotSystem([i \in DOMAIN s |-> parse[s[i]]])
             = GatherBy([m \in OpenAIMessages |->
                           IF m.role = "system" THEN <<>> ELSE <<parse[m]>>], s)
    BY <1>1, <1>3, <2>1, RestOfMap
  <2> QED BY <2>2
<1>7. k \in [OpenAIMessages -> Seq(Messages)] BY <1>3
<1> HIDE DEF s, t
<1>8. n \in Seq(Messages)
  <2> HIDE DEF k, n
  <2> QED BY <1>1, <1>6, <1>7, GatherType
<1>9. g \in [Messages -> Messages] BY <1>4
<1>10. [i \in DOMAIN n |-> Msg(n[i].role, Map(NoImage, n[i].content))]
         = [i \in DOMAIN n |-> g[n[i]]]
  <2> HIDE DEF n
  <2> QED BY <1>8
<1> HIDE DEF g
<1>11. one \in [Messages -> Seq(Messages)] /\ \A m \in Messages : one[m] = <<g[m]>> BY <1>9
<1> HIDE DEF one
<1>12. [i \in DOMAIN n |-> g[n[i]]] = GatherBy(one, n)
  <2> HIDE DEF n
  <2>1. OneEach(one, g, Messages) BY <1>11 DEF OneEach
  <2> QED BY <1>8, <1>9, <2>1, MapIsGather
<1>13. ASSUME NEW m \in OpenAIMessages PROVE ToAnthropicF[m] = GatherBy(one, k[m])
  <2>1. k[m] = IF m.role = "system" THEN <<>> ELSE <<parse[m]>> OBVIOUS
  <2> HIDE DEF k
  <2>2. GatherBy(one, <<>>) = <<>> BY GatherEmpty
  <2>3. parse[m] \in Messages BY <1>3
  <2>4. GatherBy(one, <<parse[m]>>) = one[parse[m]] BY <1>11, <2>3, GatherSingle
  <2>5. one[parse[m]] = <<ToAnthropic(m)>>
    <3>1. g[parse[m]] = Msg(parse[m].role, Map(NoImage, parse[m].content)) BY <2>3 DEF g
    <3>2. g[parse[m]] = ToAnthropic(m) BY <1>3, <3>1 DEF ToAnthropic
    <3> QED BY <1>11, <2>3, <3>2
  <2> QED BY <2>1, <2>2, <2>4, <2>5 DEF ToAnthropicF
<1>14. GatherBy(one, GatherBy(k, s)) = GatherBy(ToAnthropicF, s)
  <2> HIDE DEF k
  <2>1. Composes(ToAnthropicF, k, one, OpenAIMessages, Messages, Messages)
    BY <1>7, <1>11, <1>13 DEF Composes
  <2> QED BY <1>1, <2>1, GatherTwice
<1> QED BY <1>5, <1>6, <1>10, <1>12, <1>14 DEF s

\* The same, in the other order.
LEMMA AnthropicRequestInPlace ==
  ASSUME NEW s \in Seq(OpenAIMessages)
  PROVE  GatherBy(ToAnthropicF, s) = Map(ToAnthropic, NotSystem(s))
<1> DEFINE id == [m \in OpenAIMessages |-> m]
           k == [m \in OpenAIMessages |-> IF m.role = "system" THEN <<>> ELSE <<id[m]>>]
           g == [m \in OpenAIMessages |-> ToAnthropic(m)]
           one == [m \in OpenAIMessages |-> <<g[m]>>]
           n == NotSystem(s)
<1>1. n = GatherBy(k, s)
  <2>1. s \in Seq(Messages) /\ \A i \in DOMAIN s : s[i] \in OpenAIMessages
    BY MessageKinds, SeqMonotonic
  <2>2. \A i \in DOMAIN s : RestF[s[i]] = k[s[i]] BY <2>1, MessageKinds DEF RestF
  <2> HIDE DEF k
  <2>3. GatherBy(RestF, s) = GatherBy(k, s) BY <2>2, GatherSame
  <2> QED BY <2>1, <2>3, NotSystemIs
<1>2. k \in [OpenAIMessages -> Seq(OpenAIMessages)] OBVIOUS
<1>3. n \in Seq(OpenAIMessages) BY RestOfRequest
<1>4. g \in [OpenAIMessages -> Messages] BY ToAnthropicKeeps
<1>5. Map(ToAnthropic, n) = [i \in DOMAIN n |-> g[n[i]]]
  <2> HIDE DEF n
  <2> QED BY <1>3 DEF Map
<1>6. \A m \in OpenAIMessages : one[m] = <<g[m]>> /\ g[m] = ToAnthropic(m) OBVIOUS
<1> HIDE DEF g
<1>7. one \in [OpenAIMessages -> Seq(Messages)] BY <1>4
<1> HIDE DEF one
<1>8. [i \in DOMAIN n |-> g[n[i]]] = GatherBy(one, n)
  <2> HIDE DEF n
  <2>1. OneEach(one, g, OpenAIMessages) BY <1>6 DEF OneEach
  <2> QED BY <1>3, <1>4, <2>1, MapIsGather
<1>9. ASSUME NEW m \in OpenAIMessages PROVE ToAnthropicF[m] = GatherBy(one, k[m])
  <2>1. k[m] = IF m.role = "system" THEN <<>> ELSE <<m>> OBVIOUS
  <2> HIDE DEF k
  <2>2. GatherBy(one, <<>>) = <<>> BY GatherEmpty
  <2>3. GatherBy(one, <<m>>) = one[m] BY <1>7, GatherSingle
  <2> QED BY <1>6, <2>1, <2>2, <2>3 DEF ToAnthropicF
<1>10. GatherBy(one, GatherBy(k, s)) = GatherBy(ToAnthropicF, s)
  <2> HIDE DEF k
  <2>1. Composes(ToAnthropicF, k, one, OpenAIMessages, OpenAIMessages, Messages)
    BY <1>2, <1>7, <1>9 DEF Composes
  <2> QED BY <2>1, GatherTwice
<1> QED BY <1>1, <1>5, <1>8, <1>10

\* No call is lost or added, none changes its place.
LEMMA AnthropicRequestCalls ==
  ASSUME NEW s \in Seq(OpenAIMessages)
  PROVE  AllCalls(GatherBy(ToAnthropicF, s)) = AllCalls(s)
<1>1. s \in Seq(Messages) /\ \A i \in DOMAIN s : s[i] \in OpenAIMessages
  BY MessageKinds, SeqMonotonic
<1>2. GatherBy(ToAnthropicF, s) \in Seq(Messages) BY ToAnthropicFType, GatherType
<1>3. ASSUME NEW m \in OpenAIMessages PROVE CallF[m] = GatherBy(CallF, ToAnthropicF[m])
  <2>1. m \in Messages /\ CallF[m] = CallsOf(m) BY MessageKinds DEF CallF
  <2>2. CASE m.role = "system"
    <3>1. ToAnthropicF[m] = <<>> BY <2>2 DEF ToAnthropicF
    <3>2. m.content \in Seq(Spoken) /\ m.calls = <<>> BY <2>2 DEF OpenAIMessages
    <3>3. \A i \in DOMAIN m.content : m.content[i] \in Shown BY <3>2, SpokenIsShown
    <3>4. \A i \in DOMAIN m.content : UseF[m.content[i]] = <<>>
      BY <3>3, BlockFacts DEF Shown, UseF
    <3>5. GatherBy(UseF, m.content) = <<>> BY <3>2, <3>4, GatherNone
    <3>6. <<>> \o <<>> = <<>> BY EmptySeq, ConcatEmptySeq
    <3>7. CallsOf(m) = <<>> BY <2>1, <3>2, <3>5, <3>6, CallsOfIs
    <3> QED BY <2>1, <3>1, <3>7, GatherEmpty
  <2>3. CASE m.role # "system"
    <3> DEFINE p == ToAnthropic(m)
    <3>1. ToAnthropicF[m] = <<p>> BY <2>3 DEF ToAnthropicF
    <3>2. p \in Messages /\ CallsOf(p) = CallsOf(m) BY ToAnthropicKeeps
    <3> HIDE DEF p
    <3>3. GatherBy(CallF, <<p>>) = CallF[p] BY <3>2, CallFType, GatherSingle
    <3>4. CallF[p] = CallsOf(p) BY <3>2 DEF CallF
    <3> QED BY <2>1, <3>1, <3>2, <3>3, <3>4
  <2> QED BY <2>2, <2>3
<1>4. GatherBy(CallF, GatherBy(ToAnthropicF, s)) = GatherBy(CallF, s)
  <2>1. Composes(CallF, ToAnthropicF, CallF, OpenAIMessages, Messages, Calls)
    BY <1>3, ToAnthropicFType, CallFType DEF Composes
  <2> QED BY <2>1, GatherTwice
<1> QED BY <1>1, <1>2, <1>4, AllCallsIs

\* Every result still belongs to a call before it.
LEMMA AnthropicRequestResults ==
  ASSUME NEW s \in Seq(OpenAIMessages), Orphanless(s)
  PROVE  Orphanless(GatherBy(ToAnthropicF, s))
<1> DEFINE r(u) == GatherBy(ToAnthropicF, u)
           F == {u \in Seq(OpenAIMessages) : Orphanless(u) => Orphanless(r(u))}
<1>1. <<>> \in F
  <2>1. r(<<>>) = <<>> BY GatherEmpty
  <2>2. <<>> \in Seq(OpenAIMessages) BY EmptySeq
  <2> QED BY <2>1, <2>2
<1>2. ASSUME NEW u \in Seq(OpenAIMessages), NEW m \in OpenAIMessages, u \in F,
             Orphanless(Append(u, m))
      PROVE  Orphanless(r(Append(u, m)))
  <2>1. u \in Seq(Messages) /\ m \in Messages BY MessageKinds, SeqMonotonic
  <2>2. Orphanless(u) /\ \A c \in ResultsOf(m) : In(c, AllCalls(u))
    BY <1>2, <2>1, OrphanlessAppend
  <2>3. Orphanless(r(u)) BY <1>2, <2>2
  <2>4. r(u) \in Seq(Messages) BY ToAnthropicFType, GatherType
  <2>5. r(Append(u, m)) = r(u) \o ToAnthropicF[m] BY ToAnthropicFType, GatherNext
  <2>6. AllCalls(r(u)) = AllCalls(u) BY AnthropicRequestCalls
  <2>7. CASE m.role = "system"
    <3>1. ToAnthropicF[m] = <<>> BY <2>7 DEF ToAnthropicF
    <3> HIDE DEF r
    <3>2. r(u) \o <<>> = r(u) BY <2>4, ConcatEmptySeq
    <3> QED BY <2>3, <2>5, <3>1, <3>2
  <2>8. CASE m.role # "system"
    <3> DEFINE p == ToAnthropic(m)
    <3>1. ToAnthropicF[m] = <<p>> BY <2>8 DEF ToAnthropicF
    <3>2. p \in Messages /\ ResultsOf(p) = ResultsOf(m) BY ToAnthropicKeeps
    <3> HIDE DEF p, r
    <3>3. r(Append(u, m)) = Append(r(u), p) BY <2>4, <2>5, <3>1, <3>2, AppendIsConcat
    <3>4. \A c \in ResultsOf(p) : In(c, AllCalls(r(u))) BY <2>2, <2>6, <3>2
    <3>5. Orphanless(Append(r(u), p)) BY <2>3, <2>4, <3>2, <3>4, OrphanlessAppend
    <3> QED BY <3>3, <3>5
  <2> QED BY <2>7, <2>8
<1>3. ASSUME NEW u \in Seq(OpenAIMessages), NEW m \in OpenAIMessages, u \in F
      PROVE  Append(u, m) \in F
  <2>1. Append(u, m) \in Seq(OpenAIMessages) BY AppendProperties
  <2> QED BY <1>2, <1>3, <2>1
<1> HIDE DEF F
<1>4. \A u \in Seq(OpenAIMessages) : u \in F BY <1>1, <1>3, SeqInductive
<1> QED BY <1>4 DEF F

\* None of the messages left is the system's.
LEMMA RestHasNoSystem ==
  ASSUME NEW s \in Seq(Messages)
  PROVE  \A i \in DOMAIN NotSystem(s) : NotSystem(s)[i].role # "system"
<1> DEFINE n == NotSystem(s)
<1>1. n = GatherBy(RestF, s) BY NotSystemIs
<1>2. ASSUME NEW i \in DOMAIN n PROVE n[i].role # "system"
  <2>1. In(n[i], GatherBy(RestF, s)) BY <1>1 DEF In
  <2>2. \E j \in DOMAIN s : In(n[i], RestF[s[j]])
    <3> HIDE DEF n
    <3> QED BY <2>1, RestFType, GatherElements
  <2>3. PICK j \in DOMAIN s : In(n[i], RestF[s[j]]) BY <2>2
  <2>4. RestF[s[j]] = IF s[j].role = "system" THEN <<>> ELSE <<s[j]>> BY DEF RestF
  <2> HIDE DEF n
  <2> QED BY <2>3, <2>4 DEF In
<1> QED BY <1>2

LEMMA NothingToLeaveOut ==
  ASSUME NEW s \in Seq(Messages), \A i \in DOMAIN s : s[i].role # "system"
  PROVE  NotSystem(s) = s
<1>1. \A i \in DOMAIN s : RestF[s[i]] = <<s[i]>> BY DEF RestF
<1>2. GatherBy(RestF, s) = s BY <1>1, GatherAll
<1> QED BY <1>2, NotSystemIs

\* What PlainTurnsSurvive says about two conversations.
SameTurn(a, b) ==
  /\ b.role = a.role
  /\ TextsOf(b) = TextsOf(a)
  /\ CallsOf(b) = CallsOf(a)
  /\ ResultsOf(b) = ResultsOf(a)

SamePlainTurns(mine, theirs) ==
  /\ Len(theirs) = Len(mine)
  /\ \A i \in DOMAIN mine : Plain(mine[i]) => SameTurn(mine[i], theirs[i])

LEMMA AnthropicRequestTurns ==
  ASSUME NEW s \in Seq(OpenAIMessages)
  PROVE  SamePlainTurns(NotSystem(s), NotSystem(GatherBy(ToAnthropicF, s)))
<1> DEFINE n == NotSystem(s)  r == GatherBy(ToAnthropicF, s)
<1>1. r = Map(ToAnthropic, n) BY AnthropicRequestInPlace
<1>2. n \in Seq(OpenAIMessages) BY RestOfRequest
<1>3. r \in Seq(Messages) BY ToAnthropicFType, GatherType
<1>4. \A i \in DOMAIN n : n[i].role # "system"
  <2>1. s \in Seq(Messages) BY MessageKinds, SeqMonotonic
  <2> QED BY <2>1, RestHasNoSystem
<1> HIDE DEF n, r
<1>5. DOMAIN r = DOMAIN n /\ Len(r) = Len(n) BY <1>1, <1>2 DEF Map
<1>6. ASSUME NEW i \in DOMAIN n PROVE SameTurn(n[i], r[i])
  <2>1. n[i] \in OpenAIMessages /\ r[i] = ToAnthropic(n[i]) BY <1>1, <1>2 DEF Map
  <2> QED BY <2>1, ToAnthropicKeeps DEF SameTurn
<1>7. \A i \in DOMAIN r : r[i].role # "system" BY <1>4, <1>5, <1>6 DEF SameTurn
<1>8. NotSystem(r) = r BY <1>3, <1>7, NothingToLeaveOut
<1> QED BY <1>5, <1>6, <1>8 DEF SamePlainTurns, n, r

\* The system prompt is a text, or none.
LEMMA AnthropicRequestSystem ==
  ASSUME NEW talk, talk.messages \in Seq(OpenAIMessages)
  PROVE  BuildAnthropicRequest(ParseOpenAIRequest(talk)).system \in Texts \union {Empty}
<1> DEFINE s == talk.messages
           pick == [b \in Spoken |-> IF b.kind \in {"text"} THEN <<b>> ELSE <<>>]
           F == [m \in OpenAIMessages |->
                   IF m.role = "system" THEN FirstOf(OfKind(m.content, {"text"})) ELSE <<>>]
           prompts == GatherBy(F, s)
<1>0. ASSUME NEW m \in OpenAIMessages
      PROVE  /\ ParseOpenAIMessage(m).role = m.role
             /\ m.role = "system" => ParseOpenAIMessage(m).content = m.content
  <2>1. ParseOpenAIMessage(m).role = m.role BY DEF ParseOpenAIMessage, Msg
  <2> QED BY <2>1, OpenAIParsed
<1>1. s \in Seq(OpenAIMessages) /\ \A i \in DOMAIN s : s[i] \in OpenAIMessages OBVIOUS
<1>2. ASSUME NEW t \in Seq(Spoken) PROVE FirstOf(OfKind(t, {"text"})) \in Seq(TextBlocks)
  <2>1. t \in Seq(Block) /\ \A i \in DOMAIN t : t[i] \in Spoken /\ t[i] \in Block
    BY SpokenIsShown, BlockFacts, SeqMonotonic
  <2>2. OfKind(t, {"text"}) = GatherBy(KindF({"text"}), t) BY <2>1, OfKindIs
  <2>3. \A i \in DOMAIN t : KindF({"text"})[t[i]] = pick[t[i]] BY <2>1 DEF KindF
  <2>4. pick \in [Spoken -> Seq(TextBlocks)]
    <3>1. \A b \in Spoken : b.kind \in {"text"} => b \in TextBlocks
      BY DEF Spoken, Image
    <3> QED BY <3>1
  <2> HIDE DEF pick
  <2>5. GatherBy(KindF({"text"}), t) = GatherBy(pick, t) BY <2>3, GatherSame
  <2>6. GatherBy(pick, t) \in Seq(TextBlocks) BY <2>4, GatherType
  <2>7. OfKind(t, {"text"}) \in Seq(TextBlocks) BY <2>2, <2>5, <2>6
  <2> QED BY <2>7 DEF FirstOf
<1>3. F \in [OpenAIMessages -> Seq(TextBlocks)]
  <2>1. ASSUME NEW m \in OpenAIMessages PROVE F[m] \in Seq(TextBlocks)
    <3>1. CASE m.role = "system"
      <4>1. m.content \in Seq(Spoken) BY <3>1 DEF OpenAIMessages
      <4> QED BY <1>2, <3>1, <4>1
    <3>2. CASE m.role # "system" BY <3>2, EmptySeq
    <3> QED BY <3>1, <3>2
  <2> QED BY <2>1
<1>4. prompts \in Seq(TextBlocks)
  <2> HIDE DEF F
  <2> QED BY <1>1, <1>3, GatherType
<1>5. BuildAnthropicRequest(ParseOpenAIRequest(talk)).system
        = IF prompts = <<>> THEN Empty ELSE Last(prompts).ref
  <2> DEFINE x == ParseOpenAIRequest(talk)
             e(m) == IF m.role = "system" THEN FirstOf(OfKind(m.content, {"text"})) ELSE <<>>
             p == Map(ParseOpenAIMessage, s)
  <2>1. x.system = Empty /\ x.messages = p BY DEF ParseOpenAIRequest
  <2>2. DOMAIN p = DOMAIN s /\ \A i \in DOMAIN s : p[i] = ParseOpenAIMessage(s[i]) BY DEF Map
  <2>3. ASSUME NEW i \in DOMAIN s PROVE e(p[i]) = F[s[i]]
    <3>1. s[i] \in OpenAIMessages BY <1>1
    <3> QED BY <1>0, <2>2, <3>1
  <2> HIDE DEF F, e
  <2>4. [i \in DOMAIN p |-> e(p[i])] = [i \in DOMAIN s |-> F[s[i]]] BY <2>2, <2>3
  <2>5. Gather(e, p) = prompts BY <2>4 DEF Gather, Map, GatherBy
  <2> HIDE DEF x, prompts
  <2>6. SystemOf(x) = IF prompts = <<>> THEN Empty ELSE Last(prompts).ref
    BY <2>1, <2>5 DEF SystemOf, e
  <2> QED BY <2>6 DEF BuildAnthropicRequest, x
<1>6. prompts # <<>> => Last(prompts) \in TextBlocks
  <2> HIDE DEF prompts
  <2>1. prompts # <<>> => Len(prompts) \in 1..Len(prompts)
    BY <1>4, EmptySeq
  <2> QED BY <1>4, <2>1, ElementOfSeq DEF Last
<1>7. \A b \in TextBlocks : b.ref \in Texts BY DEF TextBlocks, Text
<1> QED BY <1>5, <1>6, <1>7

-----------------------------------------------------------------------------
(* From Anthropic's format to OpenAI's                                     *)

\* What the loop of BuildOpenAIMessage has made after the blocks s.
Start == [texts |-> <<>>, content |-> <<>>, calls |-> <<>>, callId |-> NoCall]

Adds(f, s, n) == f = [i \in 0..n |-> IF i = 0 THEN Start ELSE AddBlock(f[i - 1], s[i])]

Made(s) == (CHOOSE f : Adds(f, s, Len(s)))[Len(s)]

LEMMA BuildIs ==
  ASSUME NEW m
  PROVE  LET end == Made(m.content)
         IN  BuildOpenAIMessage(m)
               = [ role |-> m.role, calls |-> end.calls, callId |-> end.callId,
                   content |-> IF end.content = <<>> THEN end.texts ELSE end.content ]
BY DEF BuildOpenAIMessage, Made, Adds, Start

LEMMA AddsAt ==
  ASSUME NEW f, NEW s, NEW n, Adds(f, s, n), NEW i \in 0..n
  PROVE  f[i] = IF i = 0 THEN Start ELSE AddBlock(f[i - 1], s[i])
<1> DEFINE h == [j \in 0..n |-> IF j = 0 THEN Start ELSE AddBlock(f[j - 1], s[j])]
<1>1. f = h BY DEF Adds
<1>2. h[i] = IF i = 0 THEN Start ELSE AddBlock(f[i - 1], s[i]) OBVIOUS
<1> HIDE DEF h
<1> QED BY <1>1, <1>2

LEMMA AddsExists ==
  ASSUME NEW s
  PROVE  \A n \in Nat : \E f : Adds(f, s, n)
<1> DEFINE N == {n \in Nat : \E f : Adds(f, s, n)}
<1>1. 0 \in N
  <2> DEFINE h == [i \in 0..0 |-> Start]
  <2>1. h = [i \in 0..0 |-> IF i = 0 THEN Start ELSE AddBlock(h[i - 1], s[i])] OBVIOUS
  <2> HIDE DEF h
  <2>2. Adds(h, s, 0) BY <2>1 DEF Adds
  <2> QED BY <2>2
<1>2. ASSUME NEW n \in Nat, n \in N PROVE n + 1 \in N
  <2>1. PICK f : Adds(f, s, n) BY <1>2
  <2> DEFINE e(k, i) == IF i = 0 THEN Start ELSE AddBlock(k[i - 1], s[i])
             h == [i \in 0..(n + 1) |-> e(f, i)]
  <2>2. ASSUME NEW i \in 0..n PROVE h[i] = f[i]
    <3>1. f[i] = e(f, i) BY <2>1, AddsAt
    <3>2. i \in 0..(n + 1) OBVIOUS
    <3> HIDE DEF e
    <3> QED BY <3>1, <3>2
  <2>3. ASSUME NEW i \in 0..(n + 1), i # 0 PROVE h[i - 1] = f[i - 1]
    <3>1. i - 1 \in 0..n BY <2>3
    <3> HIDE DEF h
    <3> QED BY <2>2, <3>1
  <2>4. \A i \in 0..(n + 1) : e(f, i) = e(h, i)
    <3> HIDE DEF h
    <3> QED BY <2>3
  <2>5. h = [i \in 0..(n + 1) |-> e(f, i)] OBVIOUS
  <2> HIDE DEF h, e
  <2>6. h = [i \in 0..(n + 1) |-> e(h, i)] BY <2>4, <2>5
  <2>7. Adds(h, s, n + 1) BY <2>6 DEF Adds, e
  <2> QED BY <2>7
<1> HIDE DEF N
<1>3. \A n \in Nat : n \in N BY <1>1, <1>2, NatInductive
<1> QED BY <1>3 DEF N

LEMMA AddsAgree ==
  ASSUME NEW f, NEW g, NEW s, NEW t, NEW n \in Nat, NEW m \in Nat, n <= m,
         Adds(f, s, n), Adds(g, t, m), \A i \in 1..n : s[i] = t[i]
  PROVE  \A i \in 0..n : f[i] = g[i]
<1> DEFINE N == {k \in Nat : k <= n => f[k] = g[k]}
<1>1. 0 \in N
  <2>1. 0 \in 0..n /\ 0 \in 0..m OBVIOUS
  <2>2. f[0] = Start BY <2>1, AddsAt
  <2>3. g[0] = Start BY <2>1, AddsAt
  <2> QED BY <2>2, <2>3
<1>2. ASSUME NEW k \in Nat, k \in N PROVE k + 1 \in N
  <2>1. CASE k + 1 <= n
    <3>1. k + 1 \in 0..n /\ k + 1 \in 0..m /\ k + 1 \in 1..n /\ k + 1 # 0 /\ k + 1 - 1 = k
      BY <2>1
    <3>2. f[k + 1] = IF k + 1 = 0 THEN Start ELSE AddBlock(f[k + 1 - 1], s[k + 1])
      BY <3>1, AddsAt
    <3>3. g[k + 1] = IF k + 1 = 0 THEN Start ELSE AddBlock(g[k + 1 - 1], t[k + 1])
      BY <3>1, AddsAt
    <3>4. s[k + 1] = t[k + 1] BY <3>1
    <3>5. f[k] = g[k] BY <1>2, <2>1
    <3>6. f[k + 1] = AddBlock(f[k], s[k + 1]) /\ g[k + 1] = AddBlock(g[k], t[k + 1])
      BY <3>1, <3>2, <3>3
    <3>7. f[k + 1] = g[k + 1] BY <3>4, <3>5, <3>6
    <3> QED BY <3>7
  <2> QED BY <2>1
<1> HIDE DEF N
<1>3. \A k \in Nat : k \in N BY <1>1, <1>2, NatInductive
<1> QED BY <1>3 DEF N

LEMMA MadeEmpty == Made(<<>>) = Start
<1> DEFINE s == <<>>
<1>1. Len(s) = 0 BY EmptySeq
<1> DEFINE f == CHOOSE h : Adds(h, s, 0)
<1>2. Adds(f, s, 0)
  <2>1. \E h : Adds(h, s, 0) BY AddsExists
  <2> QED BY <2>1
<1> HIDE DEF f
<1>3. f[0] = Start
  <2>1. 0 \in 0..0 OBVIOUS
  <2> HIDE DEF s
  <2> QED BY <1>2, <2>1, AddsAt
<1> QED BY <1>1, <1>3 DEF Made, f

LEMMA MadeAppend ==
  ASSUME NEW S, NEW s \in Seq(S), NEW x \in S
  PROVE  Made(Append(s, x)) = AddBlock(Made(s), x)
<1> DEFINE t == Append(s, x)  n == Len(s)
           f == CHOOSE h : Adds(h, s, n)  g == CHOOSE h : Adds(h, t, n + 1)
<1>1. /\ n \in Nat /\ n + 1 \in Nat /\ n <= n + 1 /\ Len(t) = n + 1 /\ t[n + 1] = x
      /\ \A i \in 1..n : s[i] = t[i]
  OBVIOUS
<1> HIDE DEF t, n
<1>2. Adds(f, s, n)
  <2>1. \E h : Adds(h, s, n) BY <1>1, AddsExists
  <2> QED BY <2>1
<1>3. Adds(g, t, n + 1)
  <2>1. \E h : Adds(h, t, n + 1) BY <1>1, AddsExists
  <2> QED BY <2>1
<1>4. Made(s) = f[n] /\ Made(t) = g[n + 1] BY <1>1 DEF Made, n
<1> HIDE DEF f, g
<1>5. f[n] = g[n]
  <2>1. \A i \in 0..n : f[i] = g[i] BY <1>1, <1>2, <1>3, AddsAgree
  <2> QED BY <1>1, <2>1
<1>6. g[n + 1] = AddBlock(g[n], x)
  <2>1. n + 1 \in 0..(n + 1) /\ n + 1 # 0 /\ n + 1 - 1 = n BY <1>1
  <2> DEFINE m == n + 1
  <2>2. Adds(g, t, m) /\ m \in 0..m BY <1>3, <2>1
  <2> HIDE DEF m
  <2>3. g[m] = IF m = 0 THEN Start ELSE AddBlock(g[m - 1], t[m]) BY <2>2, AddsAt
  <2> QED BY <1>1, <2>1, <2>3 DEF m
<1> QED BY <1>4, <1>5, <1>6 DEF t

-----------------------------------------------------------------------------
Partly == [texts : Seq(Shown), content : Seq(Shown), calls : Seq(Calls),
           callId : Calls \union {NoCall}]

LEMMA AddBlockFacts ==
  ASSUME NEW a \in Partly, NEW b \in Parsed
  PROVE  /\ AddBlock(a, b) \in Partly
         /\ AddBlock(a, b).calls = a.calls \o UseF[b]
         /\ \/ AddBlock(a, b).callId = a.callId
            \/ b.kind = "tool_result" /\ AddBlock(a, b).callId = b.call
<1>1. /\ a.texts \in Seq(Shown) /\ a.content \in Seq(Shown) /\ a.calls \in Seq(Calls)
      /\ a.callId \in Calls \union {NoCall}
      /\ a = [texts |-> a.texts, content |-> a.content, calls |-> a.calls, callId |-> a.callId]
  BY DEF Partly
<1>2. /\ b \in Block /\ b.kind \in {"text", "image", "tool_use", "tool_result"}
      /\ b \in ContentBlock /\ b.ref \in Refs
      /\ b.kind \in {"tool_use", "tool_result"} => b.call \in Calls
  BY BlockFacts DEF Parsed, Block, ContentBlock, ContentTypes
<1>3. a.calls \o <<>> = a.calls BY <1>1, ConcatEmptySeq
<1>4. CASE b.kind = "text"
  <2>1. AddBlock(a, b) = [a EXCEPT !.texts = Append(@, b)] BY <1>4 DEF AddBlock
  <2>2. Append(a.texts, b) \in Seq(Shown) BY <1>1, <1>2, <1>4, AppendProperties DEF Shown
  <2>3. UseF[b] = <<>> BY <1>2, <1>4 DEF UseF
  <2> QED BY <1>1, <1>3, <2>1, <2>2, <2>3 DEF Partly
<1>5. CASE b.kind = "image"
  <2>1. AddBlock(a, b) = [a EXCEPT !.content = Append(a.texts, NoImage(b)), !.texts = <<>>]
    BY <1>5 DEF AddBlock
  <2>2. NoImage(b) \in Shown BY <1>5, Constructors DEF NoImage
  <2>3. Append(a.texts, NoImage(b)) \in Seq(Shown) /\ <<>> \in Seq(Shown)
    BY <1>1, <2>2, AppendProperties, EmptySeq
  <2>4. UseF[b] = <<>> BY <1>2, <1>5 DEF UseF
  <2> QED BY <1>1, <1>3, <2>1, <2>3, <2>4 DEF Partly
<1>6. CASE b.kind = "tool_use"
  <2>1. AddBlock(a, b) = [a EXCEPT !.content = IF a.texts = <<>> THEN @ ELSE a.texts,
                                   !.texts = <<>>, !.calls = Append(@, b.call)]
    BY <1>6 DEF AddBlock
  <2>2. Append(a.calls, b.call) \in Seq(Calls) /\ <<>> \in Seq(Shown)
        /\ Append(a.calls, b.call) = a.calls \o <<b.call>>
    BY <1>1, <1>2, <1>6, AppendProperties, AppendIsConcat, EmptySeq
  <2>3. UseF[b] = <<b.call>> BY <1>2, <1>6 DEF UseF
  <2> QED BY <1>1, <2>1, <2>2, <2>3 DEF Partly
<1>7. CASE b.kind = "tool_result"
  <2>1. AddBlock(a, b) = [a EXCEPT !.callId = b.call, !.content = <<Text(b.ref)>>]
    BY <1>7 DEF AddBlock
  <2>2. Text(b.ref) \in Shown BY <1>2, Constructors
  <2>3. <<Text(b.ref)>> \in Seq(Shown) BY <2>2
  <2>4. UseF[b] = <<>> BY <1>2, <1>7 DEF UseF
  <2> QED BY <1>1, <1>2, <1>3, <1>7, <2>1, <2>3, <2>4 DEF Partly
<1> QED BY <1>2, <1>4, <1>5, <1>6, <1>7

HasResult(s, c) == \E i \in DOMAIN s : s[i].kind = "tool_result" /\ s[i].call = c

\* The calls of all blocks, and the result of one of them if any.
LEMMA MadeFacts ==
  ASSUME NEW s \in Seq(Parsed)
  PROVE  /\ Made(s) \in Partly
         /\ Made(s).calls = GatherBy(UseF, s)
         /\ Made(s).callId # NoCall => HasResult(s, Made(s).callId)
<1> DEFINE F == {u \in Seq(Parsed) : /\ Made(u) \in Partly
                                     /\ Made(u).calls = GatherBy(UseF, u)
                                     /\ Made(u).callId # NoCall => HasResult(u, Made(u).callId)}
<1>1. <<>> \in F
  <2>1. Start \in Partly /\ Start.calls = <<>> /\ Start.callId = NoCall
    BY EmptySeq DEF Start, Partly
  <2>2. <<>> \in Seq(Parsed) BY EmptySeq
  <2> QED BY <2>1, <2>2, MadeEmpty, GatherEmpty
<1>2. ASSUME NEW u \in Seq(Parsed), NEW x \in Parsed, u \in F PROVE Append(u, x) \in F
  <2> DEFINE v == Append(u, x)
  <2>1. Made(v) = AddBlock(Made(u), x) BY MadeAppend
  <2>2. v \in Seq(Parsed) BY AppendProperties
  <2>3. u \in Seq(Block) /\ x \in Block BY BlockFacts, SeqMonotonic
  <2>4. GatherBy(UseF, v) = GatherBy(UseF, u) \o UseF[x] BY <2>3, UseFType, GatherNext
  <2>5. /\ Made(u) \in Partly /\ Made(u).calls = GatherBy(UseF, u)
        /\ Made(u).callId # NoCall => HasResult(u, Made(u).callId)
    BY <1>2
  <2>6. /\ AddBlock(Made(u), x) \in Partly
        /\ AddBlock(Made(u), x).calls = Made(u).calls \o UseF[x]
        /\ \/ AddBlock(Made(u), x).callId = Made(u).callId
           \/ x.kind = "tool_result" /\ AddBlock(Made(u), x).callId = x.call
    BY <2>5, AddBlockFacts
  <2>7. /\ DOMAIN v = 1..(Len(u) + 1) /\ DOMAIN u = 1..Len(u) /\ Len(u) \in Nat
        /\ v[Len(u) + 1] = x /\ \A i \in 1..Len(u) : v[i] = u[i]
    OBVIOUS
  <2> HIDE DEF v
  <2>8. \A c : HasResult(u, c) => HasResult(v, c) BY <2>7 DEF HasResult
  <2>9. x.kind = "tool_result" => HasResult(v, x.call)
    <3>1. Len(u) + 1 \in DOMAIN v BY <2>7
    <3> QED BY <2>7, <3>1 DEF HasResult
  <2>10. Made(v).callId # NoCall => HasResult(v, Made(v).callId)
    BY <2>1, <2>5, <2>6, <2>8, <2>9
  <2>11. v \in F BY <2>1, <2>2, <2>4, <2>5, <2>6, <2>10
  <2> QED BY <2>11 DEF v
<1> HIDE DEF F
<1>3. \A u \in Seq(Parsed) : u \in F BY <1>1, <1>2, SeqInductive
<1> QED BY <1>3 DEF F

\* Texts and then calls.
Sorted(s) ==
  /\ \A i \in DOMAIN s : s[i].kind \in {"text", "tool_use"}
  /\ \A i, j \in DOMAIN s : (i < j /\ s[j].kind = "text") => s[i].kind = "text"

AllTexts(s) == \A i \in DOMAIN s : s[i].kind = "text"

LEMMA MadeSorted ==
  ASSUME NEW s \in Seq(Parsed), Sorted(s)
  PROVE  /\ Made(s).callId = NoCall
         /\ \/ Made(s).texts = s /\ Made(s).content = <<>>
            \/ /\ Made(s).texts = <<>>
               /\ GatherBy(TextF, Made(s).content) = GatherBy(TextF, s)
<1> DEFINE P(u) == /\ Made(u).callId = NoCall
                   /\ AllTexts(u) => Made(u).texts = u /\ Made(u).content = <<>>
                   /\ ~ AllTexts(u) =>
                        /\ Made(u).texts = <<>>
                        /\ GatherBy(TextF, Made(u).content) = GatherBy(TextF, u)
           F == {u \in Seq(Parsed) : Sorted(u) => P(u)}
<1>1. <<>> \in F
  <2>1. AllTexts(<<>>) BY DEF AllTexts
  <2>2. Made(<<>>).callId = NoCall /\ Made(<<>>).texts = <<>> /\ Made(<<>>).content = <<>>
    BY MadeEmpty DEF Start
  <2>3. <<>> \in Seq(Parsed) BY EmptySeq
  <2> QED BY <2>1, <2>2, <2>3
<1>2. ASSUME NEW u \in Seq(Parsed), NEW x \in Parsed, u \in F, Sorted(Append(u, x))
      PROVE  P(Append(u, x))
  <2> DEFINE v == Append(u, x)
  <2>1. /\ DOMAIN v = 1..(Len(u) + 1) /\ DOMAIN u = 1..Len(u) /\ Len(u) \in Nat
        /\ v[Len(u) + 1] = x /\ \A i \in 1..Len(u) : v[i] = u[i]
    OBVIOUS
  <2>2. Made(v) = AddBlock(Made(u), x) BY MadeAppend
  <2>3. Sorted(v) BY <1>2
  <2>4. Made(u) \in Partly BY MadeFacts
  <2>5. u \in Seq(Block) /\ x \in Block BY BlockFacts, SeqMonotonic
  <2>6. GatherBy(TextF, v) = GatherBy(TextF, u) \o TextF[x] BY <2>5, TextFType, GatherNext
  <2> HIDE DEF v
  <2>7. Len(u) + 1 \in DOMAIN v /\ \A i \in DOMAIN u : i \in DOMAIN v /\ i < Len(u) + 1
    BY <2>1
  <2>8. Sorted(u) BY <2>1, <2>3, <2>7 DEF Sorted
  <2>9. P(u) BY <1>2, <2>8
  <2>10. x.kind \in {"text", "tool_use"} BY <2>1, <2>3, <2>7 DEF Sorted
  <2>11. CASE x.kind = "text"
    <3>1. AllTexts(u) BY <2>1, <2>3, <2>7, <2>11 DEF Sorted, AllTexts
    <3>2. AllTexts(v) BY <2>1, <2>11, <3>1 DEF AllTexts
    <3>3. AddBlock(Made(u), x) = [Made(u) EXCEPT !.texts = Append(@, x)]
      BY <2>11 DEF AddBlock
    <3>4. Made(u).texts = u /\ Made(u).content = <<>> /\ Made(u).callId = NoCall
      BY <2>9, <3>1
    <3>5. Made(v).texts = v /\ Made(v).content = <<>> /\ Made(v).callId = NoCall
      BY <2>2, <2>4, <3>3, <3>4 DEF Partly, v
    <3> QED BY <3>2, <3>5 DEF v
  <2>12. CASE x.kind = "tool_use"
    <3>1. ~ AllTexts(v) BY <2>1, <2>7, <2>12 DEF AllTexts
    <3> DEFINE w == AddBlock(Made(u), x)
    <3>2. w = [Made(u) EXCEPT !.content = IF Made(u).texts = <<>> THEN @ ELSE Made(u).texts,
                              !.texts = <<>>, !.calls = Append(@, x.call)]
      BY <2>12 DEF AddBlock
    <3>3. /\ w.callId = NoCall /\ w.texts = <<>>
          /\ w.content = IF Made(u).texts = <<>> THEN Made(u).content ELSE Made(u).texts
      BY <2>4, <2>9, <3>2 DEF Partly
    <3> HIDE DEF w
    <3>4. TextF[x] = <<>> BY <2>5, <2>12 DEF TextF
    <3>5. GatherBy(TextF, u) \in Seq(Refs) BY <2>5, TextFType, GatherType
    <3>6. GatherBy(TextF, v) = GatherBy(TextF, u) BY <2>6, <3>4, <3>5, ConcatEmptySeq
    <3>7. GatherBy(TextF, w.content) = GatherBy(TextF, u)
      <4>1. CASE AllTexts(u)
        <5>1. w.content = u BY <2>9, <3>3, <4>1
        <5> QED BY <5>1
      <4>2. CASE ~ AllTexts(u)
        <5>1. w.content = Made(u).content BY <2>9, <3>3, <4>2
        <5> QED BY <2>9, <4>2, <5>1
      <4> QED BY <4>1, <4>2
    <3> QED BY <2>2, <3>1, <3>3, <3>6, <3>7 DEF v, w
  <2> QED BY <2>10, <2>11, <2>12
<1>3. ASSUME NEW u \in Seq(Parsed), NEW x \in Parsed, u \in F PROVE Append(u, x) \in F
  <2>1. Append(u, x) \in Seq(Parsed) BY AppendProperties
  <2> QED BY <1>2, <1>3, <2>1
<1> HIDE DEF F
<1>4. \A u \in Seq(Parsed) : u \in F BY <1>1, <1>3, SeqInductive
<1>5. s \in F BY <1>4
<1> QED BY <1>5 DEF F

NotThinking == ContentTypes \ {"thinking"}

ParseTurn(m) == Msg(m.role, OfKind(m.content, NotThinking))

ToOpenAI(m) == BuildOpenAIMessage(ParseTurn(m))

\* Without thinking.
LEMMA TurnParsed ==
  ASSUME NEW s \in Seq(Block)
  PROVE  /\ OfKind(s, NotThinking) \in Seq(Parsed)
         /\ GatherBy(UseF, OfKind(s, NotThinking)) = GatherBy(UseF, s)
         /\ \A c : HasResult(OfKind(s, NotThinking), c) => HasResult(s, c)
         /\ (\A i \in DOMAIN s : s[i].kind # "thinking") => OfKind(s, NotThinking) = s
<1> DEFINE k == KindF(NotThinking)  o == OfKind(s, NotThinking)
           p == [b \in Block |-> IF b.kind \in NotThinking THEN <<b>> ELSE <<>>]
<1>1. o = GatherBy(k, s) BY OfKindIs
<1>2. k = p BY DEF KindF
<1>3. p \in [Block -> Seq(Parsed)]
  <2>1. \A b \in Block : b.kind \in NotThinking => b \in Parsed BY DEF Parsed, NotThinking
  <2> HIDE DEF NotThinking
  <2> QED BY <2>1
<1>4. \A i \in DOMAIN s : s[i] \in Block /\ s[i].kind \in ContentTypes
  BY BlockFacts
<1>5. k \in [Block -> Seq(Block)] BY KindFType
<1>6. \A b \in Block : k[b] = IF b.kind \in NotThinking THEN <<b>> ELSE <<>> BY <1>2
<1> HIDE DEF k, p, o
<1>7. o \in Seq(Parsed) BY <1>1, <1>2, <1>3, GatherType
<1>8. ASSUME NEW b \in Block PROVE UseF[b] = GatherBy(UseF, k[b])
  <2>1. CASE b.kind \in NotThinking
    <3>1. k[b] = <<b>> BY <1>6, <2>1
    <3>2. GatherBy(UseF, <<b>>) = UseF[b] BY UseFType, GatherSingle
    <3> QED BY <3>1, <3>2
  <2>2. CASE b.kind \notin NotThinking
    <3>1. k[b] = <<>> BY <1>6, <2>2
    <3>2. UseF[b] = <<>> BY <2>2, BlockFacts DEF UseF, NotThinking, ContentTypes
    <3> QED BY <3>1, <3>2, GatherEmpty
  <2> QED BY <2>1, <2>2
<1>9. GatherBy(UseF, o) = GatherBy(UseF, s)
  <2>1. Composes(UseF, k, UseF, Block, Block, Calls) BY <1>5, <1>8, UseFType DEF Composes
  <2> QED BY <1>1, <2>1, GatherTwice
<1>10. ASSUME NEW c, HasResult(o, c) PROVE HasResult(s, c)
  <2>1. PICK i \in DOMAIN o : o[i].kind = "tool_result" /\ o[i].call = c
    BY <1>10 DEF HasResult
  <2>2. In(o[i], o) BY DEF In
  <2>3. \E j \in DOMAIN s : In(o[i], k[s[j]]) BY <1>1, <1>5, <2>2, GatherElements
  <2>4. PICK j \in DOMAIN s : In(o[i], k[s[j]]) BY <2>3
  <2>5. k[s[j]] = <<s[j]>> \/ k[s[j]] = <<>> BY <1>4, <1>6
  <2>6. o[i] = s[j] BY <2>4, <2>5 DEF In
  <2> QED BY <2>1, <2>6 DEF HasResult
<1>11. ASSUME \A i \in DOMAIN s : s[i].kind # "thinking" PROVE o = s
  <2>1. \A i \in DOMAIN s : k[s[i]] = <<s[i]>> BY <1>4, <1>6, <1>11 DEF NotThinking
  <2> QED BY <1>1, <2>1, GatherAll
<1> QED BY <1>7, <1>9, <1>10, <1>11 DEF o

\* What an OpenAI provider gets of a message: its role and its calls, a result of it
\* or none, and everything of a plain message.
LEMMA ToOpenAIKeeps ==
  ASSUME NEW m \in AnthropicMessages
  PROVE  LET p == ToOpenAI(m)
         IN  /\ p \in Messages /\ p.content \in Seq(Shown) /\ p.role = m.role
             /\ CallsOf(p) = CallsOf(m)
             /\ ResultsOf(p) \subseteq ResultsOf(m)
             /\ Plain(m) => SameTurn(m, p)
<1> DEFINE p == ToOpenAI(m)
           s == m.content  o == OfKind(s, NotThinking)  a == Made(o)
<1>1. /\ m \in Messages /\ s \in Seq(Block) /\ m.calls = <<>> /\ m.callId = NoCall
      /\ m.role \in Roles
  BY MessageKinds DEF AnthropicMessages
<1>2. /\ o \in Seq(Parsed) /\ GatherBy(UseF, o) = GatherBy(UseF, s)
      /\ \A c : HasResult(o, c) => HasResult(s, c)
      /\ (\A i \in DOMAIN s : s[i].kind # "thinking") => o = s
  BY <1>1, TurnParsed
<1>3. p = [ role |-> m.role, calls |-> a.calls, callId |-> a.callId,
            content |-> IF a.content = <<>> THEN a.texts ELSE a.content ]
  <2>1. ParseTurn(m).role = m.role /\ ParseTurn(m).content = o BY DEF ParseTurn, Msg
  <2> HIDE DEF o
  <2> QED BY <2>1, BuildIs DEF ToOpenAI
<1> HIDE DEF p, s, o
<1>4. /\ a \in Partly /\ a.calls = GatherBy(UseF, o)
      /\ a.callId # NoCall => HasResult(o, a.callId)
  BY <1>2, MadeFacts
<1> HIDE DEF a
<1>5. p.content \in Seq(Shown) BY <1>3, <1>4 DEF Partly
<1>6. p \in Messages
  <2>1. p.content \in Seq(Block) BY <1>5, BlockFacts, SeqMonotonic
  <2> QED BY <1>1, <1>3, <1>4, <2>1 DEF Messages, Partly
<1>7. CallsOf(p) = CallsOf(m)
  <2>1. CallsOf(p) = a.calls \o GatherBy(UseF, p.content) BY <1>3, <1>6, CallsOfIs
  <2>2. GatherBy(UseF, p.content) = <<>>
    <3>1. \A i \in DOMAIN p.content : p.content[i] \in Shown BY <1>5
    <3>2. \A i \in DOMAIN p.content : UseF[p.content[i]] = <<>>
      BY <3>1, BlockFacts DEF Shown, UseF
    <3> QED BY <1>5, <3>2, GatherNone
  <2>3. a.calls \in Seq(Calls) BY <1>4 DEF Partly
  <2>4. CallsOf(p) = GatherBy(UseF, s) BY <1>2, <1>4, <2>1, <2>2, <2>3, ConcatEmptySeq
  <2>5. CallsOf(m) = <<>> \o GatherBy(UseF, s) BY <1>1, CallsOfIs DEF s
  <2>6. GatherBy(UseF, s) \in Seq(Calls) BY <1>1, UseFType, GatherType
  <2> QED BY <2>4, <2>5, <2>6, ConcatEmptySeq
<1>8. \A c : c \in ResultsOf(p) <=> c = a.callId /\ c # NoCall
  <2> TAKE c
  <2>1. c \in ResultsOf(p) <=>
          \/ \E i \in DOMAIN p.content : p.content[i].kind = "tool_result" /\ p.content[i].call = c
          \/ c = p.callId /\ c # NoCall
    BY <1>6, ResultsOfIs
  <2>2. \A i \in DOMAIN p.content : p.content[i].kind # "tool_result" BY <1>5 DEF Shown
  <2> QED BY <1>3, <2>1, <2>2
<1>9. \A c : c \in ResultsOf(m) <=> HasResult(s, c)
  <2> TAKE c
  <2>1. c \in ResultsOf(m) <=>
          \/ \E i \in DOMAIN s : s[i].kind = "tool_result" /\ s[i].call = c
          \/ c = m.callId /\ c # NoCall
    BY <1>1, ResultsOfIs DEF s
  <2> QED BY <1>1, <2>1 DEF HasResult
<1>10. ResultsOf(p) \subseteq ResultsOf(m) BY <1>2, <1>4, <1>8, <1>9
<1>11. ASSUME Plain(m) PROVE TextsOf(p) = TextsOf(m) /\ ResultsOf(p) = ResultsOf(m)
  <2>1. /\ OfKind(s, {"image", "thinking"}) = <<>>
        /\ \A i \in DOMAIN s : s[i].kind = "tool_result" => Len(s) = 1
        /\ \A i, j \in DOMAIN s : (i < j /\ s[j].kind = "text") => s[i].kind = "text"
    BY <1>11 DEF Plain, s
  <2>2. \A i \in DOMAIN s : s[i].kind \in {"text", "tool_use", "tool_result"}
    <3> SUFFICES ASSUME NEW i \in DOMAIN s PROVE s[i].kind \notin {"image", "thinking"}
      BY <1>1, BlockFacts DEF ContentTypes
    <3> DEFINE K == {"image", "thinking"}
    <3>1. GatherBy(KindF(K), s) = <<>> BY <1>1, <2>1, OfKindIs
    <3>2. ~ In(s[i], <<>>) BY DEF In
    <3>3. KindF(K) \in [Block -> Seq(Block)] BY KindFType
    <3> HIDE DEF K
    <3>4. ~ In(s[i], KindF(K)[s[i]]) BY <1>1, <3>1, <3>2, <3>3, GatherElements
    <3>5. KindF(K)[s[i]] = IF s[i].kind \in K THEN <<s[i]>> ELSE <<>> BY <1>1 DEF KindF
    <3> QED BY <3>4, <3>5 DEF In, K
  <2>3. o = s BY <1>2, <2>2
  <2>4. TextsOf(m) = GatherBy(TextF, s) BY <1>1, TextsOfIs DEF s
  <2>5. TextsOf(p) = GatherBy(TextF, p.content) BY <1>6, TextsOfIs
  <2>6. CASE \E i \in DOMAIN s : s[i].kind = "tool_result"
    <3>1. Len(s) = 1 BY <2>1, <2>6
    <3>0. DOMAIN s = 1..1 BY <1>1, <3>1, LenProperties
    <3>2. s = <<s[1]>> /\ s[1] \in Block /\ s[1].kind = "tool_result"
      <4>1. s[1] \in Block BY <1>1, <3>0, SMTT(30)
      <4>2. s[1].kind = "tool_result" BY <2>6, <3>0
      <4>3. <<s[1]>> \in Seq(Block) /\ Len(<<s[1]>>) = 1 /\ <<s[1]>>[1] = s[1] BY <4>1
      <4>4. \A i \in 1..Len(s) : s[i] = <<s[1]>>[i] BY <3>1, <4>3
      <4>5. s = <<s[1]>> BY <1>1, <3>1, <4>3, <4>4, SeqEqual
      <4> QED BY <4>1, <4>2, <4>5
    <3> DEFINE b == s[1]
    <3>3. b \in Block /\ b.kind = "tool_result" /\ s = <<b>> /\ b.ref \in Refs
          /\ b.call \in Calls
      BY <3>2, BlockFacts DEF Block
    <3> HIDE DEF b
    <3>4. a = AddBlock(Start, b)
      <4>1. b \in Parsed /\ <<>> \in Seq(Parsed) BY <3>3, EmptySeq DEF Parsed
      <4>2. Made(Append(<<>>, b)) = AddBlock(Made(<<>>), b) BY <4>1, MadeAppend
      <4>3. Append(<<>>, b) = <<b>> OBVIOUS
      <4> QED BY <2>3, <3>3, <4>2, <4>3, MadeEmpty DEF a
    <3>5. AddBlock(Start, b) = [Start EXCEPT !.callId = b.call, !.content = <<Text(b.ref)>>]
      BY <3>3 DEF AddBlock
    <3>6. a.callId = b.call /\ a.content = <<Text(b.ref)>> BY <3>4, <3>5 DEF Start
    <3>7. p.content = <<Text(b.ref)>> BY <1>3, <3>6
    <3>8. Text(b.ref) \in Block BY <3>3, Constructors, BlockFacts
    <3>9. TextF[Text(b.ref)] = TextF[b] BY <3>3, <3>8 DEF TextF, Text
    <3>10. GatherBy(TextF, <<Text(b.ref)>>) = TextF[Text(b.ref)]
      BY <3>8, TextFType, GatherSingle
    <3>11. GatherBy(TextF, <<b>>) = TextF[b] BY <3>3, TextFType, GatherSingle
    <3>12. TextsOf(p) = TextsOf(m) BY <2>4, <2>5, <3>3, <3>7, <3>9, <3>10, <3>11
    <3>13. \A c : HasResult(s, c) <=> c = b.call BY <3>3 DEF HasResult
    <3>14. b.call # NoCall BY <3>3, CallAssumption
    <3>15. \A c : c \in ResultsOf(p) <=> c \in ResultsOf(m)
      BY <1>8, <1>9, <3>6, <3>13, <3>14
    <3> QED BY <3>12, <3>15, <1>10
  <2>7. CASE ~ \E i \in DOMAIN s : s[i].kind = "tool_result"
    <3>1. Sorted(s) BY <2>1, <2>2, <2>7 DEF Sorted
    <3>2. /\ a.callId = NoCall
          /\ \/ a.texts = s /\ a.content = <<>>
             \/ a.texts = <<>> /\ GatherBy(TextF, a.content) = GatherBy(TextF, s)
      BY <1>2, <2>3, <3>1, MadeSorted DEF a
    <3>3. GatherBy(TextF, p.content) = GatherBy(TextF, s) BY <1>3, <3>2
    <3>4. \A c : ~ HasResult(s, c) BY <2>7 DEF HasResult
    <3>5. ResultsOf(m) = {} /\ ResultsOf(p) = {} BY <1>8, <1>9, <3>2, <3>4
    <3> QED BY <2>4, <2>5, <3>3, <3>5
  <2> QED BY <2>6, <2>7
<1>12. Plain(m) => SameTurn(m, p) BY <1>3, <1>7, <1>11 DEF SameTurn
<1>13. p.role = m.role BY <1>3
<1> QED BY <1>5, <1>6, <1>7, <1>10, <1>12, <1>13 DEF p

\* The messages of a request for an OpenAI provider.
Prompt(x) == IF x = Empty THEN <<>> ELSE <<Msg("system", <<Text(x)>>)>>

Turns(s) == [i \in DOMAIN s |-> ToOpenAI(s[i])]

LEMMA OpenAIRequest ==
  ASSUME NEW talk, talk.messages \in Seq(AnthropicMessages)
  PROVE  BuildOpenAIRequest(ParseAnthropicRequest(talk))
           = [system |-> Empty, messages |-> Prompt(talk.system) \o Turns(talk.messages)]
<1> DEFINE x == ParseAnthropicRequest(talk)  s == talk.messages
           p == [i \in DOMAIN s |-> ParseTurn(s[i])]
<1>1. x.system = talk.system /\ x.messages = p
  BY DEF ParseAnthropicRequest, ParseTurn, NotThinking, Map
<1>2. Map(BuildOpenAIMessage, p) = Turns(s) BY DEF Map, Turns, ToOpenAI
<1> HIDE DEF x, p
<1> QED BY <1>1, <1>2 DEF BuildOpenAIRequest, Prompt, x

LEMMA PromptFacts ==
  ASSUME NEW x \in Texts \union {Empty}
  PROVE  /\ Prompt(x) \in Seq(Messages) /\ Orphanless(Prompt(x))
         /\ AllCalls(Prompt(x)) = <<>> /\ NotSystem(Prompt(x)) = <<>>
         /\ \A i \in DOMAIN Prompt(x) : Prompt(x)[i].content \in Seq(Shown)
<1>1. CASE x = Empty
  <2>1. Prompt(x) = <<>> BY <1>1 DEF Prompt
  <2>2. <<>> \in Seq(Messages) BY EmptySeq
  <2>3. AllCalls(<<>>) = <<>> BY <2>2, AllCallsIs, GatherEmpty
  <2>4. NotSystem(<<>>) = <<>> BY <2>2, NotSystemIs, GatherEmpty
  <2>5. DOMAIN <<>> = {} OBVIOUS
  <2> QED BY <2>1, <2>2, <2>3, <2>4, <2>5 DEF Orphanless
<1>2. CASE x # Empty
  <2> DEFINE b == Text(x)  m == Msg("system", <<b>>)
  <2>1. b \in Shown /\ b \in Block /\ b.kind = "text"
    BY <1>2, Constructors, BlockFacts DEF Refs, Text
  <2> HIDE DEF b
  <2>2. <<b>> \in Seq(Shown) /\ <<b>> \in Seq(Block) BY <2>1
  <2>3. m \in Messages /\ m.content = <<b>> /\ m.calls = <<>> /\ m.callId = NoCall
        /\ m.role = "system"
    BY <2>2, EmptySeq DEF Msg, Messages, Roles
  <2> HIDE DEF m
  <2>4. Prompt(x) = <<m>> BY <1>2 DEF Prompt, m, b
  <2>5. <<m>> \in Seq(Messages) /\ Append(<<>>, m) = <<m>> /\ <<>> \in Seq(Messages)
    BY <2>3, EmptySeq
  <2>6. CallsOf(m) = <<>>
    <3>1. CallsOf(m) = <<>> \o GatherBy(UseF, <<b>>) BY <2>3, CallsOfIs
    <3>2. GatherBy(UseF, <<b>>) = <<>>
      <4>1. GatherBy(UseF, <<b>>) = UseF[b] BY <2>1, UseFType, GatherSingle
      <4> QED BY <2>1, <4>1 DEF UseF
    <3>3. <<>> \o <<>> = <<>> BY EmptySeq, ConcatEmptySeq
    <3> QED BY <3>1, <3>2, <3>3
  <2>7. AllCalls(<<m>>) = <<>>
    <3>1. GatherBy(CallF, <<m>>) = CallF[m] BY <2>3, CallFType, GatherSingle
    <3>2. CallF[m] = <<>> BY <2>3, <2>6 DEF CallF
    <3> QED BY <2>5, <3>1, <3>2, AllCallsIs
  <2>8. NotSystem(<<m>>) = <<>>
    <3>1. GatherBy(RestF, <<m>>) = RestF[m] BY <2>3, RestFType, GatherSingle
    <3>2. RestF[m] = <<>> BY <2>3 DEF RestF
    <3> QED BY <2>5, <3>1, <3>2, NotSystemIs
  <2>9. Orphanless(<<m>>)
    <3>1. \A c : c \notin ResultsOf(m)
      <4> TAKE c
      <4>1. c \in ResultsOf(m) <=>
              \/ \E i \in DOMAIN m.content : /\ m.content[i].kind = "tool_result"
                                             /\ m.content[i].call = c
              \/ c = m.callId /\ c # NoCall
        BY <2>3, ResultsOfIs
      <4>2. \A i \in DOMAIN m.content : m.content[i] = b BY <2>3
      <4> QED BY <2>1, <2>3, <4>1, <4>2
    <3>2. Orphanless(<<>>) BY DEF Orphanless
    <3> QED BY <2>3, <2>5, <3>1, <3>2, OrphanlessAppend
  <2>10. \A i \in DOMAIN <<m>> : <<m>>[i] = m OBVIOUS
  <2> QED BY <2>2, <2>3, <2>4, <2>5, <2>7, <2>8, <2>9, <2>10
<1> QED BY <1>1, <1>2

LEMMA TurnsFacts ==
  ASSUME NEW s \in Seq(AnthropicMessages)
  PROVE  /\ Turns(s) \in Seq(Messages) /\ DOMAIN Turns(s) = DOMAIN s
         /\ \A i \in DOMAIN s : Turns(s)[i] = ToOpenAI(s[i])
         /\ AllCalls(Turns(s)) = AllCalls(s)
         /\ NotSystem(Turns(s)) = Turns(s)
<1> DEFINE g == [m \in AnthropicMessages |-> ToOpenAI(m)]
<1>1. \A i \in DOMAIN s : s[i] \in AnthropicMessages /\ s[i] \in Messages
  BY MessageKinds
<1>2. Turns(s) = [i \in DOMAIN s |-> g[s[i]]] BY <1>1 DEF Turns
<1>3. g \in [AnthropicMessages -> Messages] BY ToOpenAIKeeps
<1>4. \A m \in AnthropicMessages : g[m] = ToOpenAI(m) OBVIOUS
<1> HIDE DEF g
<1>5. Turns(s) \in Seq(Messages) BY <1>2, <1>3, MapAppend
<1>6. DOMAIN Turns(s) = DOMAIN s /\ \A i \in DOMAIN s : Turns(s)[i] = ToOpenAI(s[i])
  BY DEF Turns
<1>7. GatherBy(CallF, Turns(s)) = GatherBy(CallF, s)
  <2>1. ASSUME NEW i \in DOMAIN s PROVE CallF[g[s[i]]] = CallF[s[i]]
    <3>1. s[i] \in AnthropicMessages /\ s[i] \in Messages BY <1>1
    <3>2. g[s[i]] \in Messages /\ CallsOf(g[s[i]]) = CallsOf(s[i])
      BY <1>4, <3>1, ToOpenAIKeeps
    <3> QED BY <3>1, <3>2 DEF CallF
  <2> QED BY <1>2, <2>1, GatherOfMap
<1>8. s \in Seq(Messages) BY MessageKinds, SeqMonotonic
<1>9. AllCalls(Turns(s)) = AllCalls(s) BY <1>5, <1>7, <1>8, AllCallsIs
<1>10. NotSystem(Turns(s)) = Turns(s)
  <2>1. \A m \in AnthropicMessages : m.role # "system" BY DEF AnthropicMessages
  <2>2. ASSUME NEW i \in DOMAIN Turns(s) PROVE Turns(s)[i].role # "system"
    <3>1. s[i] \in AnthropicMessages /\ Turns(s)[i] = ToOpenAI(s[i]) BY <1>1, <1>6
    <3>2. Turns(s)[i].role = s[i].role BY <3>1, ToOpenAIKeeps
    <3> QED BY <2>1, <3>1, <3>2
  <2> QED BY <1>5, <2>2, NothingToLeaveOut
<1> QED BY <1>5, <1>6, <1>9, <1>10

LEMMA OpenAIRequestCalls ==
  ASSUME NEW x \in Texts \union {Empty}, NEW s \in Seq(AnthropicMessages)
  PROVE  /\ Prompt(x) \o Turns(s) \in Seq(Messages)
         /\ AllCalls(Prompt(x) \o Turns(s)) = AllCalls(s)
         /\ NotSystem(Prompt(x) \o Turns(s)) = Turns(s)
<1> DEFINE h == Prompt(x)  t == Turns(s)
<1>1. h \in Seq(Messages) /\ AllCalls(h) = <<>> /\ NotSystem(h) = <<>> BY PromptFacts
<1>2. t \in Seq(Messages) /\ AllCalls(t) = AllCalls(s) /\ NotSystem(t) = t BY TurnsFacts
<1> HIDE DEF h, t
<1>3. h \o t \in Seq(Messages) BY <1>1, <1>2, ConcatProperties
<1>4. AllCalls(h \o t) = <<>> \o AllCalls(t)
  <2>1. Additive(CallF, Messages) BY Additives
  <2>2. GatherBy(CallF, h \o t) = GatherBy(CallF, h) \o GatherBy(CallF, t)
    BY <1>1, <1>2, <2>1 DEF Additive
  <2> QED BY <1>1, <1>2, <1>3, <2>2, AllCallsIs
<1>5. NotSystem(h \o t) = <<>> \o t
  <2>1. Additive(RestF, Messages) BY Additives
  <2>2. GatherBy(RestF, h \o t) = GatherBy(RestF, h) \o GatherBy(RestF, t)
    BY <1>1, <1>2, <2>1 DEF Additive
  <2> QED BY <1>1, <1>2, <1>3, <2>2, NotSystemIs
<1>6. AllCalls(t) \in Seq(Calls)
  <2>1. AllCalls(t) = GatherBy(CallF, t) BY <1>2, AllCallsIs
  <2>2. GatherBy(CallF, t) \in Seq(Calls) BY <1>2, CallFType, GatherType
  <2> QED BY <2>1, <2>2
<1> QED BY <1>2, <1>3, <1>4, <1>5, <1>6, ConcatEmptySeq DEF h, t

LEMMA OpenAIRequestResults ==
  ASSUME NEW x \in Texts \union {Empty}, NEW s \in Seq(AnthropicMessages), Orphanless(s)
  PROVE  Orphanless(Prompt(x) \o Turns(s))
<1> DEFINE r(u) == Prompt(x) \o Turns(u)
           F == {u \in Seq(AnthropicMessages) : Orphanless(u) => Orphanless(r(u))}
<1>1. <<>> \in F
  <2>1. Turns(<<>>) = <<>> BY DEF Turns
  <2>2. <<>> \in Seq(AnthropicMessages) BY EmptySeq
  <2>3. Prompt(x) \o <<>> = Prompt(x) /\ Orphanless(Prompt(x))
    BY PromptFacts, ConcatEmptySeq
  <2> QED BY <2>1, <2>2, <2>3
<1>2. ASSUME NEW u \in Seq(AnthropicMessages), NEW m \in AnthropicMessages, u \in F,
             Orphanless(Append(u, m))
      PROVE  Orphanless(r(Append(u, m)))
  <2> DEFINE p == ToOpenAI(m)
  <2>1. u \in Seq(Messages) /\ m \in Messages BY MessageKinds, SeqMonotonic
  <2>2. Orphanless(u) /\ \A c \in ResultsOf(m) : In(c, AllCalls(u))
    BY <1>2, <2>1, OrphanlessAppend
  <2>3. Orphanless(r(u)) BY <1>2, <2>2
  <2>4. r(u) \in Seq(Messages) /\ AllCalls(r(u)) = AllCalls(u) BY OpenAIRequestCalls
  <2>5. p \in Messages /\ ResultsOf(p) \subseteq ResultsOf(m) BY ToOpenAIKeeps
  <2>6. Turns(Append(u, m)) = Append(Turns(u), p)
    <3> DEFINE g == [n \in AnthropicMessages |-> ToOpenAI(n)]  v == Append(u, m)
    <3>1. g \in [AnthropicMessages -> Messages] BY ToOpenAIKeeps
    <3>2. v \in Seq(AnthropicMessages) BY AppendProperties
    <3>3. \A w \in Seq(AnthropicMessages) : Turns(w) = [i \in DOMAIN w |-> g[w[i]]]
      BY DEF Turns
    <3>4. g[m] = p OBVIOUS
    <3> HIDE DEF g, p
    <3>5. [i \in DOMAIN Append(u, m) |-> g[Append(u, m)[i]]]
            = Append([i \in DOMAIN u |-> g[u[i]]], g[m])
      BY <3>1, MapAppend
    <3> QED BY <3>2, <3>3, <3>4, <3>5
  <2>7. r(Append(u, m)) = Append(r(u), p)
    <3>1. Prompt(x) \in Seq(Messages) /\ Turns(u) \in Seq(Messages)
      BY PromptFacts, TurnsFacts
    <3> HIDE DEF p
    <3>2. Prompt(x) \o Append(Turns(u), p) = Append(Prompt(x) \o Turns(u), p)
      BY <2>5, <3>1
    <3> QED BY <2>6, <3>2
  <2> HIDE DEF r, p
  <2>8. \A c \in ResultsOf(p) : In(c, AllCalls(r(u))) BY <2>2, <2>4, <2>5
  <2> QED BY <2>3, <2>4, <2>5, <2>7, <2>8, OrphanlessAppend
<1>3. ASSUME NEW u \in Seq(AnthropicMessages), NEW m \in AnthropicMessages, u \in F
      PROVE  Append(u, m) \in F
  <2>1. Append(u, m) \in Seq(AnthropicMessages) BY AppendProperties
  <2> QED BY <1>2, <1>3, <2>1
<1> HIDE DEF F
<1>4. \A u \in Seq(AnthropicMessages) : u \in F BY <1>1, <1>3, SeqInductive
<1> QED BY <1>4 DEF F

LEMMA OpenAIRequestTurns ==
  ASSUME NEW x \in Texts \union {Empty}, NEW s \in Seq(AnthropicMessages)
  PROVE  SamePlainTurns(NotSystem(s), NotSystem(Prompt(x) \o Turns(s)))
<1>1. NotSystem(Prompt(x) \o Turns(s)) = Turns(s) BY OpenAIRequestCalls
<1>2. NotSystem(s) = s
  <2>1. s \in Seq(Messages) BY MessageKinds, SeqMonotonic
  <2>2. \A i \in DOMAIN s : s[i].role # "system"
    <3>1. \A i \in DOMAIN s : s[i] \in AnthropicMessages OBVIOUS
    <3> QED BY <3>1 DEF AnthropicMessages
  <2> QED BY <2>1, <2>2, NothingToLeaveOut
<1>3. /\ Turns(s) \in Seq(Messages) /\ DOMAIN Turns(s) = DOMAIN s
      /\ \A i \in DOMAIN s : Turns(s)[i] = ToOpenAI(s[i])
  BY TurnsFacts
<1>4. Len(Turns(s)) = Len(s) BY <1>3, LenProperties
<1>5. ASSUME NEW i \in DOMAIN s, Plain(s[i]) PROVE SameTurn(s[i], Turns(s)[i])
  <2>1. s[i] \in AnthropicMessages BY <1>5
  <2> QED BY <1>3, <1>5, <2>1, ToOpenAIKeeps
<1> QED BY <1>1, <1>2, <1>4, <1>5 DEF SamePlainTurns
=============================================================================
