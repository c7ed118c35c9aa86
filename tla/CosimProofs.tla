----------------------------- MODULE CosimProofs ----------------------------
(***************************************************************************)
(* Proofs about Cosim, for programs of any length and logs that are cut    *)
(* anywhere, in this order:                                                *)
(*                                                                         *)
(*   - the parser of Spike's log: what it makes of a line that is whole or *)
(*     cut (CutLineRead, WholeRead);                                       *)
(*   - three safety properties that need little of the run                 *)
(*     (DifferencesAreExplained, SameOnlyAfterExit, CutLinesKeepPrefix);   *)
(*   - the machines and their logs, and what the logs tell of a run        *)
(*     (RunTraces, RunTells, Clean);                                       *)
(*   - the replay, phase by phase (ReplayFacts), and the replay of a run   *)
(*     in which nothing went wrong (ReplayClean);                          *)
(*   - the verdict (VerdictInv, VerdictIsTrue).                            *)
(*                                                                         *)
(* The recursive functions of the parser and of FlattenSeq are functions   *)
(* over an initial part of the numbers; that they are defined, and what    *)
(* they compute, is shown by induction over sets of numbers (SetInduction).*)
(***************************************************************************)
EXTENDS Cosim, TLAPS, WellFoundedInduction

\* Induction, with a set for the predicate: a set of numbers that has 0, and
\* with n also n + 1, has every number.
LEMMA SetInduction ==
  ASSUME NEW T \in SUBSET Nat, 0 \in T, \A n \in T : n + 1 \in T
  PROVE  T = Nat
<1> SUFFICES ASSUME Nat \ T # {} PROVE FALSE
  OBVIOUS
<1> DEFINE Below == OpToRel(<, Nat)
<1>1. PICK x \in Nat \ T : \A y \in Nat \ T : <<y, x>> \notin Below
  <2> HIDE DEF Below
  <2>1. IsWellFoundedOn(Below, Nat)
    BY NatLessThanWellFounded DEF Below
  <2>2. QED
    BY <2>1, WFMin
<1> HIDE DEF Below
<1>2. x - 1 \in Nat \ T
  <2>1. x # 0 /\ x \in Nat /\ x \notin T
    BY <1>1
  <2>2. x - 1 \notin T
    <3> SUFFICES ASSUME x - 1 \in T PROVE FALSE
      OBVIOUS
    <3>1. (x - 1) + 1 \in T /\ (x - 1) + 1 = x
      BY <2>1
    <3>2. QED
      BY <2>1, <3>1
  <2>3. QED
    BY <2>1, <2>2
<1>3. <<x - 1, x>> \in Below
  <2>1. x \in Nat /\ x - 1 \in Nat /\ x - 1 < x
    BY <1>1, <1>2
  <2>2. QED
    BY <2>1 DEF OpToRel, Below
<1>4. QED
  BY <1>1, <1>2, <1>3

-----------------------------------------------------------------------------
(* What the recursive functions of the parser and of FlattenSeq compute *)

\* What a step of the parser takes is two or three words, and they are there.
LEMMA ModWords ==
  ASSUME NEW S, NEW line \in Seq(S), NEW i \in DOMAIN line, ParseMod(line, i).result = "mod"
  PROVE  ParseMod(line, i).words \in 2 .. 3 /\ i + ParseMod(line, i).words <= Len(line) + 1
<1>1. ParseReg(line, i).result = "mod" =>
        ParseReg(line, i).words = 2 /\ i + 1 \in DOMAIN line
  BY DEF ParseReg, Found, Failed, IsHex, IsKind
<1>2. ParseVReg(line, i).result = "mod" =>
        ParseVReg(line, i).words = 2 /\ i + 1 \in DOMAIN line
  BY DEF ParseVReg, Found, Failed, IsHex, IsKind
<1>3. ParseCsr(line, i).result = "mod" =>
        ParseCsr(line, i).words = 2 /\ i + 1 \in DOMAIN line
  BY DEF ParseCsr, Found, Failed, IsHex, IsKind
<1>4. ParseMem(line, i).result = "mod" =>
        \/ ParseMem(line, i).words = 2 /\ i + 1 \in DOMAIN line
        \/ ParseMem(line, i).words = 3 /\ i + 2 \in DOMAIN line
  BY DEF ParseMem, Found, Failed, IsHex, IsKind
<1>5. ParseVecCtx(line, i).result = "mod" =>
        ParseVecCtx(line, i).words = 3 /\ i + 2 \in DOMAIN line
  BY DEF ParseVecCtx, Found, Failed, IsHex, IsKind
<1>6. Stop.result # "mod"
  BY DEF Stop, Failed
<1>7. \E w \in 2 .. 3 : ParseMod(line, i).words = w /\ i + w - 1 \in DOMAIN line
  BY <1>1, <1>2, <1>3, <1>4, <1>5, <1>6 DEF ParseMod
<1>8. QED
  BY <1>7

\* ParseMods as a function of the first word: what it is at a word follows from
\* what it is at the words behind it.
Ends(line) == [ok |-> TRUE, mods |-> <<>>]
Body(line, from, i) ==
  IF i > Len(line) THEN Ends(line)
  ELSE LET first == ParseMod(line, i) IN
       IF first.result = "mod"
       THEN [ok |-> from[i + first.words].ok,
             mods |-> <<first.mod>> \o from[i + first.words].mods]
       ELSE [ok |-> first.result = "stop", mods |-> <<>>]

\* What the parser finds at a word depends on the words behind it alone.
LEMMA BodyLocal ==
  ASSUME NEW S, NEW line \in Seq(S), NEW i \in 1 .. Len(line) + 1, NEW f, NEW g,
         \A j \in i + 1 .. Len(line) + 1 : f[j] = g[j]
  PROVE  Body(line, f, i) = Body(line, g, i)
<1>1. CASE i > Len(line)
  BY <1>1 DEF Body
<1>2. CASE i <= Len(line)
  <2>1. i \in DOMAIN line
    BY <1>2
  <2> DEFINE first == ParseMod(line, i)
  <2>2. first.result = "mod" => f[i + first.words] = g[i + first.words]
    BY <2>1, ModWords
  <2> HIDE DEF first
  <2>3. QED
    BY <2>2 DEF Body, first
<1>3. QED
  BY <1>1, <1>2

\* The recursive function inside ParseMods has the value that its body says:
\* there is such a function, for every line.
LEMMA ParserIsDefined ==
  ASSUME NEW S, NEW line \in Seq(S)
  PROVE  \E from : /\ from = [i \in 1 .. Len(line) + 1 |-> Body(line, from, i)]
                   /\ ParseMods(line) = from[6]
<1> DEFINE n == Len(line)
           T == {d \in Nat : d <= n + 1 =>
                   \E f : f = [i \in n + 2 - d .. n + 1 |-> Body(line, f, i)]}
<1>0. n \in Nat
  OBVIOUS
<1>1. 0 \in T
  <2>1. \E f : f = [i \in n + 2 .. n + 1 |-> Body(line, f, i)]
    <3> DEFINE f == [i \in {} |-> 0]
    <3>1. n + 2 .. n + 1 = {}
      BY <1>0
    <3>2. f = [i \in n + 2 .. n + 1 |-> Body(line, f, i)]
      BY <3>1
    <3>3. QED
      BY <3>2
  <2>2. QED
    BY <1>0, <2>1
<1>2. ASSUME NEW d \in T PROVE d + 1 \in T
  <2> SUFFICES ASSUME d + 1 <= n + 1
               PROVE  \E f : f = [i \in n + 1 - d .. n + 1 |-> Body(line, f, i)]
    BY <1>0
  <2> DEFINE k == n + 1 - d
  <2>1. PICK f : f = [i \in k + 1 .. n + 1 |-> Body(line, f, i)]
    BY <1>0
  <2>2. k \in 1 .. n + 1
    BY <1>0
  <2> HIDE DEF k
  <2> DEFINE g == [i \in k .. n + 1 |-> IF i = k THEN Body(line, f, k) ELSE f[i]]
  <2>3. \A j \in k + 1 .. n + 1 : g[j] = f[j]
    BY <1>0, <2>2
  <2>4. ASSUME NEW i \in k .. n + 1 PROVE g[i] = Body(line, g, i)
    <3>1. \A j \in i + 1 .. n + 1 : f[j] = g[j]
      BY <1>0, <2>2, <2>3
    <3>2. i \in 1 .. n + 1
      BY <1>0, <2>2
    <3>3. g[i] = Body(line, f, i)
      <4>1. CASE i = k
        BY <4>1
      <4>2. CASE i # k
        <5>1. i \in k + 1 .. n + 1
          BY <1>0, <2>2, <4>2
        <5>2. f[i] = Body(line, f, i)
          BY <2>1, <5>1
        <5>3. QED
          BY <4>2, <5>2
      <4>3. QED
        BY <4>1, <4>2
    <3> HIDE DEF g
    <3>4. QED
      BY <3>1, <3>2, <3>3, BodyLocal
  <2>5. g = [i \in k .. n + 1 |-> Body(line, g, i)]
    BY <2>4
  <2>6. QED
    BY <2>5 DEF k
<1>3. T = Nat
  <2> HIDE DEF T
  <2>1. T \subseteq Nat
    BY DEF T
  <2>2. QED
    BY <1>1, <1>2, <2>1, SetInduction
<1>4. n + 1 \in T
  BY <1>0, <1>3
<1>5. \E f : f = [i \in 1 .. n + 1 |-> Body(line, f, i)]
  <2>1. n + 2 - (n + 1) = 1
    BY <1>0
  <2>2. QED
    BY <1>0, <1>4, <2>1
<1>6. ParseMods(line) = (CHOOSE from : from = [i \in 1 .. n + 1 |-> Body(line, from, i)])[6]
  BY DEF ParseMods, Body, Ends
<1>7. QED
  BY <1>5, <1>6

\* FlattenSeq puts the parts one after another, each at the sum of the lengths
\* before it.
Piece(s, f, i) == IF i = 1 THEN s[i] ELSE f[i-1] \o s[i]

\* The same of the recursive function inside FlattenSeq.
LEMMA FlatIsDefined ==
  ASSUME NEW S, NEW s \in Seq(Seq(S)), Len(s) # 0
  PROVE  \E f : /\ f = [i \in 1 .. Len(s) |-> Piece(s, f, i)]
                /\ Ext!FlattenSeq(s) = f[Len(s)]
<1> DEFINE n == Len(s)
           T == {d \in Nat : \E f : f = [i \in 1 .. d |-> Piece(s, f, i)]}
<1>0. n \in Nat
  OBVIOUS
<1>1. 0 \in T
  <2> DEFINE f == [i \in {} |-> 0]
  <2>1. f = [i \in 1 .. 0 |-> Piece(s, f, i)]
    OBVIOUS
  <2>2. QED
    BY <2>1
<1>2. ASSUME NEW d \in T PROVE d + 1 \in T
  <2>1. PICK f : f = [i \in 1 .. d |-> Piece(s, f, i)]
    OBVIOUS
  <2> DEFINE g == [i \in 1 .. d + 1 |-> IF i = d + 1 THEN Piece(s, f, i) ELSE f[i]]
  <2>2. ASSUME NEW i \in 1 .. d + 1 PROVE g[i] = Piece(s, g, i)
    <3>1. i # 1 => i - 1 \in 1 .. d /\ g[i - 1] = f[i - 1]
      OBVIOUS
    <3>2. g[i] = Piece(s, f, i)
      <4>1. CASE i = d + 1
        BY <4>1
      <4>2. CASE i # d + 1
        <5>1. i \in 1 .. d
          BY <4>2
        <5>2. f[i] = Piece(s, f, i)
          BY <2>1, <5>1
        <5>3. QED
          BY <4>2, <5>2
      <4>3. QED
        BY <4>1, <4>2
    <3> HIDE DEF g
    <3>3. QED
      BY <3>1, <3>2 DEF Piece
  <2>3. g = [i \in 1 .. d + 1 |-> Piece(s, g, i)]
    BY <2>2
  <2> HIDE DEF g
  <2>4. QED
    BY <2>3
<1>3. T = Nat
  <2> HIDE DEF T
  <2>1. T \subseteq Nat
    BY DEF T
  <2>2. QED
    BY <1>1, <1>2, <2>1, SetInduction
<1>4. \E f : f = [i \in 1 .. n |-> Piece(s, f, i)]
  <2>1. n \in T
    BY <1>0, <1>3
  <2>2. QED
    BY <2>1
<1>5. Ext!FlattenSeq(s) = (CHOOSE f : f = [i \in 1 .. n |-> Piece(s, f, i)])[n]
  BY DEF Ext!FlattenSeq, Piece
<1>6. QED
  BY <1>4, <1>5

\* The first d parts of s lie in a sequence t, each behind the start of its own.
Placed(s, t, d, start) ==
  /\ start[1] = 0 /\ start[d + 1] = Len(t)
  /\ \A k \in 1 .. d :
       /\ start[k] \in Nat
       /\ start[k + 1] = start[k] + Len(s[k])
       /\ start[k + 1] <= Len(t)
       /\ \A j \in DOMAIN s[k] : t[start[k] + j] = s[k][j]

\* The first part alone.
LEMMA PlacedOne ==
  ASSUME NEW S, NEW s \in Seq(Seq(S)), Len(s) # 0
  PROVE  \E start : Placed(s, s[1], 1, start)
<1> DEFINE start == [k \in {1, 2} |-> IF k = 1 THEN 0 ELSE Len(s[1])]
<1>1. s[1] \in Seq(S)
  OBVIOUS
<1>2. start[1] = 0 /\ start[2] = Len(s[1])
  OBVIOUS
<1> HIDE DEF start
<1>3. Placed(s, s[1], 1, start)
  BY <1>1, <1>2 DEF Placed
<1>4. QED
  BY <1>3

\* One more part, behind the others.
LEMMA PlacedMore ==
  ASSUME NEW S, NEW s \in Seq(Seq(S)), NEW d \in Nat, d + 1 \in DOMAIN s,
         NEW t \in Seq(S), NEW old, Placed(s, t, d, old)
  PROVE  \E start : Placed(s, t \o s[d + 1], d + 1, start)
<1> DEFINE u == t \o s[d + 1]
           start == [k \in 1 .. d + 2 |-> IF k = d + 2 THEN Len(u) ELSE old[k]]
<1>1. s[d + 1] \in Seq(S)
  OBVIOUS
<1>2. /\ u \in Seq(S) /\ Len(u) = Len(t) + Len(s[d + 1])
      /\ \A j \in 1 .. Len(t) : u[j] = t[j]
      /\ \A j \in 1 .. Len(s[d + 1]) : u[Len(t) + j] = s[d + 1][j]
  BY <1>1
<1>3. (\A k \in 1 .. d + 1 : start[k] = old[k]) /\ start[d + 2] = Len(u)
  OBVIOUS
<1> HIDE DEF start, u
<1>4. start[1] = 0
  BY <1>3 DEF Placed
<1>5. ASSUME NEW k \in 1 .. d
      PROVE  /\ start[k] \in Nat
             /\ start[k + 1] = start[k] + Len(s[k])
             /\ start[k + 1] <= Len(u)
             /\ \A j \in DOMAIN s[k] : u[start[k] + j] = s[k][j]
  <2>1. s[k] \in Seq(S)
    OBVIOUS
  <2>2. start[k] = old[k] /\ start[k + 1] = old[k + 1]
    BY <1>3
  <2>3. /\ old[k] \in Nat /\ old[k + 1] = old[k] + Len(s[k]) /\ old[k + 1] <= Len(t)
        /\ \A j \in DOMAIN s[k] : t[old[k] + j] = s[k][j]
    BY DEF Placed
  <2>4. ASSUME NEW j \in DOMAIN s[k] PROVE u[old[k] + j] = s[k][j]
    <3>1. Len(s[k]) \in Nat /\ Len(t) \in Nat /\ j \in 1 .. Len(s[k])
      BY <2>1
    <3>2. PICK a, l, m : a = old[k] /\ l = Len(s[k]) /\ m = Len(t)
      OBVIOUS
    <3>3. a \in Nat /\ l \in Nat /\ m \in Nat /\ j \in 1 .. l /\ a + l <= m
      BY <2>3, <3>1, <3>2
    <3>4. a + j \in 1 .. m
      BY <3>3
    <3>5. QED
      BY <1>2, <2>3, <3>2, <3>4
  <2>5. Len(t) \in Nat /\ Len(s[d + 1]) \in Nat
    BY <1>1
  <2>6. start[k] \in Nat /\ start[k + 1] = start[k] + Len(s[k])
    BY <2>2, <2>3
  <2>7. start[k + 1] <= Len(u)
    <3>1. PICK a, m, n : a = old[k + 1] /\ m = Len(t) /\ n = Len(s[d + 1])
      OBVIOUS
    <3>2. a <= m /\ m \in Nat /\ n \in Nat /\ Len(u) = m + n
      BY <1>2, <2>3, <2>5, <3>1
    <3>3. a \in Nat
      <4>1. PICK x, y : x = old[k] /\ y = Len(s[k])
        OBVIOUS
      <4>2. x \in Nat /\ a = x + y
        BY <2>3, <3>1, <4>1
      <4>3. y \in Nat
        BY <2>1, <4>1
      <4>4. QED
        BY <4>2, <4>3
    <3>4. a <= m + n
      BY <3>2, <3>3
    <3>5. QED
      BY <2>2, <3>1, <3>2, <3>4
  <2>8. QED
    BY <2>2, <2>4, <2>6, <2>7
<1>6. start[d + 1] = Len(t) /\ Len(t) \in Nat
  BY <1>3 DEF Placed
<1>7. DOMAIN s[d + 1] = 1 .. Len(s[d + 1])
  BY <1>1
<1>8. Len(u) \in Nat
  BY <1>2
<1>9. Placed(s, u, d + 1, start)
  <2>1. (d + 1) + 1 = d + 2
    OBVIOUS
  <2>2. /\ start[d + 1] \in Nat
        /\ start[(d + 1) + 1] = start[d + 1] + Len(s[d + 1])
        /\ start[(d + 1) + 1] <= Len(u)
        /\ \A j \in DOMAIN s[d + 1] : u[start[d + 1] + j] = s[d + 1][j]
    BY <1>2, <1>3, <1>6, <1>7, <1>8, <2>1
  <2>3. \A k \in 1 .. d + 1 : k \in 1 .. d \/ k = d + 1
    OBVIOUS
  <2>4. start[(d + 1) + 1] = Len(u)
    BY <1>3, <2>1
  <2>5. \A k \in 1 .. d + 1 :
          /\ start[k] \in Nat
          /\ start[k + 1] = start[k] + Len(s[k])
          /\ start[k + 1] <= Len(u)
          /\ \A j \in DOMAIN s[k] : u[start[k] + j] = s[k][j]
    BY <1>5, <2>2, <2>3
  <2>6. QED
    BY <1>4, <2>4, <2>5 DEF Placed
<1>10. QED
  BY <1>9 DEF u

\* All the parts: each lies in the flattened sequence as a whole.
LEMMA FlattenPieces ==
  ASSUME NEW S, NEW s \in Seq(Seq(S))
  PROVE  /\ Ext!FlattenSeq(s) \in Seq(S)
         /\ \E start : Placed(s, Ext!FlattenSeq(s), Len(s), start)
<1>1. CASE Len(s) = 0
  <2>1. Ext!FlattenSeq(s) = s
    BY <1>1 DEF Ext!FlattenSeq
  <2>2. s = <<>> /\ s \in Seq(S)
    BY <1>1
  <2> DEFINE begin == [k \in {1} |-> 0]
  <2>3. begin[1] = 0
    OBVIOUS
  <2> HIDE DEF begin
  <2>4. Placed(s, s, 0, begin)
    BY <1>1, <2>3 DEF Placed
  <2>5. QED
    BY <1>1, <2>1, <2>2, <2>4
<1>2. CASE Len(s) # 0
  <2>1. PICK f : f = [i \in 1 .. Len(s) |-> Piece(s, f, i)] /\ Ext!FlattenSeq(s) = f[Len(s)]
    BY <1>2, FlatIsDefined
  <2> DEFINE T == {d \in Nat : d + 1 <= Len(s) =>
                     f[d + 1] \in Seq(S) /\ \E start : Placed(s, f[d + 1], d + 1, start)}
  <2>2. f[1] = s[1] /\ s[1] \in Seq(S)
    BY <1>2, <2>1 DEF Piece
  <2>3. 0 \in T
    BY <1>2, <2>2, PlacedOne
  <2>4. ASSUME NEW d \in T, (d + 1) + 1 <= Len(s)
        PROVE  f[(d + 1) + 1] \in Seq(S) /\ \E start : Placed(s, f[(d + 1) + 1], (d + 1) + 1, start)
    <3>1. /\ d \in Nat /\ d + 1 \in Nat /\ (d + 1) + 1 \in DOMAIN s
          /\ f[d + 1] \in Seq(S) /\ \E start : Placed(s, f[d + 1], d + 1, start)
      BY <2>4
    <3> HIDE DEF T
    <3>2. PICK old : Placed(s, f[d + 1], d + 1, old)
      BY <3>1
    <3>3. f[(d + 1) + 1] = f[d + 1] \o s[(d + 1) + 1] /\ s[(d + 1) + 1] \in Seq(S)
      <4>1. PICK e \in 1 .. Len(s) : e = (d + 1) + 1
        BY <3>1
      <4>2. e # 1 /\ e - 1 = d + 1
        BY <3>1, <4>1
      <4>3. f[e] = Piece(s, f, e)
        BY <2>1
      <4>4. f[e] = f[d + 1] \o s[e]
        BY <4>2, <4>3 DEF Piece
      <4>5. QED
        BY <4>1, <4>4
    <3>4. f[(d + 1) + 1] \in Seq(S)
      BY <3>1, <3>3
    <3>5. QED
      BY <3>1, <3>2, <3>3, <3>4, PlacedMore
  <2>5. T = Nat
    <3>1. ASSUME NEW d \in T PROVE d + 1 \in T
      <4>1. d + 1 \in Nat
        OBVIOUS
      <4>2. (d + 1) + 1 <= Len(s) => f[(d + 1) + 1] \in Seq(S)
              /\ \E start : Placed(s, f[(d + 1) + 1], (d + 1) + 1, start)
        BY <2>4
      <4>3. QED
        BY <4>1, <4>2
    <3> HIDE DEF T
    <3>2. T \subseteq Nat
      BY DEF T
    <3>3. QED
      BY <2>3, <3>1, <3>2, SetInduction
  <2>6. Len(s) - 1 \in T /\ (Len(s) - 1) + 1 = Len(s)
    <3>1. Len(s) \in Nat /\ Len(s) - 1 \in Nat
      BY <1>2
    <3> HIDE DEF T
    <3>2. QED
      BY <2>5, <3>1
  <2>7. f[Len(s)] \in Seq(S) /\ \E start : Placed(s, f[Len(s)], Len(s), start)
    BY <2>6
  <2>8. QED
    BY <2>1, <2>7
<1>3. QED
  BY <1>1, <1>2

\* The modifications that Spike prints
CsrNames == {"fflags", "frm", "fcsr", "mscratch", "mcause"}
RegMods == [kind : {"x", "f"}, idx : Nat, name : {""}, bits : Nat]
VRegMods == [kind : {"v"}, idx : Nat, name : {""}, bits : Nat]
CsrMods == [kind : {"csr"}, idx : Nat, name : CsrNames, bits : Nat]
CtxMods == [kind : {"ctx"}, idx : {0}, name : {""}, bits : Nat]
LoadMods == [kind : {"load"}, idx : Nat, name : {""}, bits : {0}]
StoreMods == [kind : {"store"}, idx : Nat, name : {""}, bits : Nat]
PrintedMods == RegMods \cup VRegMods \cup CsrMods \cup CtxMods \cup LoadMods \cup StoreMods

\* Two facts of numbers that the provers do not find by themselves
LEMMA Quotient == \A a \in Int : a \div Base \in Int
BY BaseAssumption

LEMMA IsANumber == \A n \in Nat : n # NoNumber
BY DEF NoNumber

\* The words that it prints them with
Leads == {"", "core", "(0x", "0x", "x", "f", "v", "e", "l", "mf", "c", "mem"}
Words == [lead : Leads, num : Int, digits : Nat, rest : CsrNames \cup {"", ":", ")"}]

\* What the tokenizer takes each of these words for
LEMMA KindOfWords ==
  ASSUME NEW n \in Nat
  PROVE  /\ \A d : Kind(Hex(n, d)) = "Hexadecimal"
         /\ \A lead \in {"x", "f", "v", "e", "l"} : Kind(Reg(lead, n)) = lead
         /\ Kind(Reg("mf", n)) = "Lmul"
         /\ \A name \in CsrNames : Kind(Word("c", n, 2, name)) = "Csr"
         /\ Kind(Plain("mem")) = "MemLiteral"
         /\ Kind(Word("(0x", n, 8, ")")) = "Instruction"
<1>1. n # NoNumber
  BY IsANumber
<1>2. ASSUME NEW d PROVE Kind(Hex(n, d)) = "Hexadecimal"
  BY <1>1 DEF Kind, Hex, Plain, Word
<1>3. /\ Kind(Reg("x", n)) = "x" /\ Kind(Reg("f", n)) = "f" /\ Kind(Reg("v", n)) = "v"
  BY <1>1 DEF Kind, Reg, Plain, Word
<1>4. /\ Kind(Reg("e", n)) = "e" /\ Kind(Reg("l", n)) = "l"
  BY <1>1 DEF Kind, Reg, Plain, Word
<1>5. Kind(Reg("mf", n)) = "Lmul"
  BY <1>1 DEF Kind, Reg, Plain, Word
<1>6. Kind(Plain("mem")) = "MemLiteral"
  BY DEF Kind, Plain, Word
<1>7. ASSUME NEW name \in CsrNames PROVE Kind(Word("c", n, 2, name)) = "Csr"
  <2>1. name # "" /\ name # ":"
    BY DEF CsrNames
  <2>2. QED
    BY <1>1, <2>1 DEF Kind, Plain, Word
<1>8. Kind(Word("(0x", n, 8, ")")) = "Instruction"
  BY <1>1 DEF Kind, Plain, Word
<1>9. QED
  BY <1>2, <1>3, <1>4, <1>5, <1>6, <1>7, <1>8

\* They are of the set above.
LEMMA IsWord ==
  ASSUME NEW n \in Nat
  PROVE  /\ \A lead \in {"x", "f", "v", "e", "l", "mf"} : Reg(lead, n) \in Words
         /\ \A d \in Nat : Hex(n, d) \in Words
         /\ \A name \in CsrNames : Word("c", n, 2, name) \in Words
         /\ Word("(0x", n, 8, ")") \in Words
         /\ Plain("mem") \in Words /\ Plain("core") \in Words
         /\ Word("", 0, 1, ":") \in Words /\ Word("", 3, 1, "") \in Words
<1>1. ASSUME NEW lead \in Leads, NEW num \in Int, NEW digits \in Nat,
             NEW rest \in CsrNames \cup {"", ":", ")"}
      PROVE  Word(lead, num, digits, rest) \in Words
  BY DEF Word, Words
<1>2. NoNumber \in Int
  BY DEF NoNumber
<1>3. {"", "core", "(0x", "0x", "x", "f", "v", "e", "l", "mf", "c", "mem"} \subseteq Leads
  BY DEF Leads
<1>4. {"", ":", ")"} \subseteq CsrNames \cup {"", ":", ")"}
  OBVIOUS
<1>5. n \in Int /\ 0 \in Int /\ 3 \in Int /\ 0 \in Nat /\ 1 \in Nat /\ 2 \in Nat /\ 8 \in Nat
  OBVIOUS
<1>6. \A lead \in {"x", "f", "v", "e", "l", "mf"} : Reg(lead, n) \in Words
  BY <1>1, <1>3, <1>4, <1>5 DEF Reg
<1>7. \A d \in Nat : Hex(n, d) \in Words
  BY <1>1, <1>3, <1>4, <1>5 DEF Hex
<1>8. \A name \in CsrNames : Word("c", n, 2, name) \in Words
  BY <1>1, <1>3, <1>5
<1>9. Word("(0x", n, 8, ")") \in Words
  BY <1>1, <1>3, <1>4, <1>5
<1>10. Plain("mem") \in Words /\ Plain("core") \in Words
  BY <1>1, <1>2, <1>3, <1>4, <1>5 DEF Plain
<1>11. Word("", 0, 1, ":") \in Words /\ Word("", 3, 1, "") \in Words
  BY <1>1, <1>3, <1>4, <1>5
<1>12. QED
  BY <1>6, <1>7, <1>8, <1>9, <1>10, <1>11

\* The letters that a word of a kind begins with
LEMMA LeadOfKind ==
  ASSUME NEW w
  PROVE  /\ Kind(w) \in {"x", "f", "v", "e"} => w.lead = Kind(w)
         /\ Kind(w) = "Csr" => w.lead = "c"
         /\ Kind(w) = "MemLiteral" => w.lead = "mem"
         /\ Kind(w) = "Hexadecimal" => w.lead = "0x"
<1>1. Kind(w) \in {"x", "f", "v", "e"} => w.lead = Kind(w)
  BY DEF Kind, Plain, Word
<1>2. Kind(w) = "Csr" => w.lead = "c"
  BY DEF Kind, Plain, Word
<1>3. Kind(w) = "MemLiteral" => w.lead = "mem"
  <2>1. Kind(w) = "MemLiteral" => w = Plain("mem")
    BY Zenon DEF Kind
  <2>2. Plain("mem").lead = "mem"
    BY DEF Plain, Word
  <2>3. QED
    BY <2>1, <2>2
<1>4. Kind(w) = "Hexadecimal" => w.lead = "0x"
  BY Zenon DEF Kind
<1>5. QED
  BY <1>1, <1>2, <1>3, <1>4

\* A modification begins with one of these.
ModLeads == {"x", "f", "v", "c", "e", "mem"}

\* What is left of a number begins no modification.
LEMMA CutOfHex ==
  ASSUME NEW n, NEW d, NEW w \in {Hex(n, d)} \cup WordCuts(Hex(n, d))
  PROVE  w.lead \notin ModLeads
<1>1. Hex(n, d).rest = "" /\ Hex(n, d).lead = "0x"
  BY DEF Hex, Word
<1>2. LeadCuts("0x") = {Word("", 0, 1, "")}
  BY DEF LeadCuts
<1>3. \E x, y : w \in {Hex(n, d), Word("0x", x, y, ""), Plain("0x"), Word("", 0, 1, "")}
  BY <1>1, <1>2 DEF WordCuts
<1>4. Word("", 0, 1, "").lead = "" /\ Plain("0x").lead = "0x"
  BY DEF Word, Plain
<1>5. \A x, y : Word("0x", x, y, "").lead = "0x"
  BY DEF Word
<1>6. w.lead \in {"", "0x"}
  BY <1>1, <1>3, <1>4, <1>5
<1>7. QED
  BY <1>6 DEF ModLeads

\* What is left of the first word of a modification is no number.
LEMMA CutOfHead ==
  ASSUME NEW w, w.lead \in ModLeads, NEW u \in {w} \cup WordCuts(w)
  PROVE  Kind(u) # "Hexadecimal"
<1>1. LeadCuts(w.lead) \subseteq {Plain("m"), Plain("me")}
  BY DEF LeadCuts, ModLeads
<1>2. \/ u = w \/ \E r : u = [w EXCEPT !.rest = r]
      \/ \E x, y : u \in {Word(w.lead, x, y, ""), Plain(w.lead), Plain("m"), Plain("me")}
  BY <1>1 DEF WordCuts
<1>3. Plain("m").lead = "m" /\ Plain("me").lead = "me" /\ Plain(w.lead).lead = w.lead
  BY DEF Plain, Word
<1>4. \A x, y : Word(w.lead, x, y, "").lead = w.lead
  BY DEF Word
<1>5. \A r : [w EXCEPT !.rest = r].lead = w.lead
  OBVIOUS
<1>6. u.lead \in {"x", "f", "v", "c", "e", "mem", "m", "me"}
  BY <1>2, <1>3, <1>4, <1>5 DEF ModLeads
<1>7. QED
  BY <1>6, LeadOfKind

\* Where no such word is, no modification is read.
LEMMA NoModHere ==
  ASSUME NEW line, NEW i, line[i].lead \notin ModLeads
  PROVE  ParseMod(line, i).result # "mod"
<1>1. Kind(line[i]) \notin {"x", "f", "v", "e", "Csr", "MemLiteral"}
  BY LeadOfKind DEF ModLeads
<1>2. ParseMod(line, i) = Stop
  BY <1>1 DEF ParseMod
<1>3. QED
  BY <1>2 DEF Stop, Failed

-----------------------------------------------------------------------------
(* The words of a modification, and how a whole one is read *)

\* The fields of what is built, for the provers
LEMMA Fields4 ==
  ASSUME NEW kind, NEW idx, NEW name, NEW bits, NEW m, m = Modification(kind, idx, name, bits)
  PROVE  m.kind = kind /\ m.idx = idx /\ m.name = name /\ m.bits = bits
BY DEF Modification

LEMMA HexWord ==
  ASSUME NEW n \in Nat, NEW d \in Nat
  PROVE  /\ Kind(Hex(n, d)) = "Hexadecimal"
         /\ Hex(n, d).num = n /\ Hex(n, d).digits = d /\ Hex(n, d).lead = "0x"
<1>1. Kind(Hex(n, d)) = "Hexadecimal"
  BY KindOfWords
<1>2. Hex(n, d).num = n /\ Hex(n, d).digits = d /\ Hex(n, d).lead = "0x"
  BY DEF Hex, Word
<1>3. QED
  BY <1>1, <1>2

LEMMA RegWord ==
  ASSUME NEW lead, NEW n
  PROVE  Reg(lead, n).lead = lead /\ Reg(lead, n).num = n
BY DEF Reg, Word

LEMMA OfTwo ==
  ASSUME NEW a \in Words, NEW b \in Words
  PROVE  /\ <<a, b>> \in Seq(Words) /\ Len(<<a, b>>) = 2
         /\ <<a, b>>[1] = a /\ <<a, b>>[2] = b
OBVIOUS

LEMMA OfThree ==
  ASSUME NEW a \in Words, NEW b \in Words, NEW c \in Words
  PROVE  /\ <<a, b, c>> \in Seq(Words) /\ Len(<<a, b, c>>) = 3
         /\ <<a, b, c>>[1] = a /\ <<a, b, c>>[2] = b /\ <<a, b, c>>[3] = c
OBVIOUS

\* A modification is printed in two or three words, by its kind.
Shape(m, w) ==
  /\ w \in Seq(Words) /\ m.idx \in Nat /\ m.bits \in Nat
  /\ w[1].lead \in ModLeads
  /\ Len(w) \in {2, 3}

\* The words of each kind of modification
LEMMA RegShape ==
  ASSUME NEW m \in RegMods
  PROVE  /\ Shape(m, PrintMod(m)) /\ Len(PrintMod(m)) = 2 /\ m.kind \in {"x", "f"}
         /\ m = Modification(m.kind, m.idx, "", m.bits)
         /\ PrintMod(m)[1] = Reg(m.kind, m.idx) /\ PrintMod(m)[2] = Hex(m.bits, 8)
<1>1. /\ m = Modification(m.kind, m.idx, "", m.bits)
      /\ m.kind \in {"x", "f"} /\ m.idx \in Nat /\ m.bits \in Nat
  BY DEF RegMods, Modification
<1>3. PrintMod(m) = <<Reg(m.kind, m.idx), Hex(m.bits, 8)>>
  BY <1>1 DEF PrintMod, XlenDigits
<1>4. Reg(m.kind, m.idx) \in Words /\ Hex(m.bits, 8) \in Words
  BY <1>1, IsWord
<1>5. Reg(m.kind, m.idx).lead = m.kind
  BY RegWord
<1> DEFINE a == Reg(m.kind, m.idx)
           b == Hex(m.bits, 8)
<1>6. a \in Words /\ b \in Words /\ PrintMod(m) = <<a, b>>
  BY <1>3, <1>4
<1>7. a.lead \in {"x", "f"}
  BY <1>1, <1>5
<1> HIDE DEF a, b
<1>8. /\ PrintMod(m) \in Seq(Words) /\ Len(PrintMod(m)) = 2
      /\ PrintMod(m)[1] = a /\ PrintMod(m)[2] = b
  BY <1>6, OfTwo
<1>9. Shape(m, PrintMod(m))
  BY <1>1, <1>7, <1>8 DEF Shape, ModLeads
<1>10. QED
  BY <1>1, <1>8, <1>9 DEF a, b

LEMMA VRegShape ==
  ASSUME NEW m \in VRegMods
  PROVE  /\ Shape(m, PrintMod(m)) /\ Len(PrintMod(m)) = 2 /\ m.kind = "v"
         /\ m = Modification("v", m.idx, "", m.bits)
         /\ PrintMod(m)[1] = Reg("v", m.idx) /\ PrintMod(m)[2] = Hex(m.bits, 16)
<1>1. /\ m = Modification("v", m.idx, "", m.bits)
      /\ m.kind = "v" /\ m.idx \in Nat /\ m.bits \in Nat
  BY DEF VRegMods, Modification
<1> DEFINE a == Reg("v", m.idx)
           b == Hex(m.bits, 16)
<1>3. PrintMod(m) = <<a, b>>
  BY <1>1 DEF PrintMod, VlenDigits
<1>4. a \in Words /\ b \in Words
  BY <1>1, IsWord
<1>5. a.lead = "v"
  BY RegWord
<1> HIDE DEF a, b
<1>8. /\ PrintMod(m) \in Seq(Words) /\ Len(PrintMod(m)) = 2
      /\ PrintMod(m)[1] = a /\ PrintMod(m)[2] = b
  BY <1>3, <1>4, OfTwo
<1>9. Shape(m, PrintMod(m))
  BY <1>1, <1>5, <1>8 DEF Shape, ModLeads
<1>10. QED
  BY <1>1, <1>8, <1>9 DEF a, b

LEMMA CsrShape ==
  ASSUME NEW m \in CsrMods
  PROVE  /\ Shape(m, PrintMod(m)) /\ Len(PrintMod(m)) = 2 /\ m.kind = "csr" /\ m.name \in CsrNames
         /\ m = Modification("csr", m.idx, m.name, m.bits)
         /\ PrintMod(m)[1] = Word("c", m.idx, 2, m.name) /\ PrintMod(m)[2] = Hex(m.bits, 8)
<1>1. /\ m = Modification("csr", m.idx, m.name, m.bits)
      /\ m.kind = "csr" /\ m.idx \in Nat /\ m.name \in CsrNames /\ m.bits \in Nat
  BY DEF CsrMods, Modification
<1> DEFINE a == Word("c", m.idx, 2, m.name)
           b == Hex(m.bits, 8)
<1>3. PrintMod(m) = <<a, b>>
  BY <1>1 DEF PrintMod, XlenDigits
<1>4. a \in Words /\ b \in Words
  BY <1>1, IsWord
<1>5. a.lead = "c"
  BY DEF Word
<1> HIDE DEF a, b
<1>8. /\ PrintMod(m) \in Seq(Words) /\ Len(PrintMod(m)) = 2
      /\ PrintMod(m)[1] = a /\ PrintMod(m)[2] = b
  BY <1>3, <1>4, OfTwo
<1>9. Shape(m, PrintMod(m))
  BY <1>1, <1>5, <1>8 DEF Shape, ModLeads
<1>10. QED
  BY <1>1, <1>8, <1>9 DEF a, b

LEMMA CtxShape ==
  ASSUME NEW m \in CtxMods
  PROVE  /\ Shape(m, PrintMod(m)) /\ Len(PrintMod(m)) = 3 /\ m.kind = "ctx"
         /\ m = Modification("ctx", 0, "", m.bits)
         /\ PrintMod(m)[1] = Reg("e", 32) /\ PrintMod(m)[2] = Reg("mf", 2)
         /\ PrintMod(m)[3] = Reg("l", m.bits)
<1>1. /\ m = Modification("ctx", 0, "", m.bits)
      /\ m.kind = "ctx" /\ m.idx \in Nat /\ m.bits \in Nat
  <2>1. m = Modification("ctx", 0, "", m.bits) /\ m.kind = "ctx" /\ m.bits \in Nat
    BY DEF CtxMods, Modification
  <2>2. m.idx = 0
    BY DEF CtxMods
  <2>3. 0 \in Nat
    OBVIOUS
  <2>4. QED
    BY Zenon, <2>1, <2>2, <2>3
<1> DEFINE a == Reg("e", 32)
           b == Reg("mf", 2)
           c == Reg("l", m.bits)
<1>3. PrintMod(m) = <<a, b, c>>
  BY <1>1 DEF PrintMod
<1>4. a \in Words /\ b \in Words /\ c \in Words
  <2>1. 32 \in Nat /\ 2 \in Nat
    OBVIOUS
  <2>2. QED
    BY <2>1, <1>1, IsWord
<1>5. a.lead = "e"
  BY RegWord
<1> HIDE DEF a, b, c
<1>8. /\ PrintMod(m) \in Seq(Words) /\ Len(PrintMod(m)) = 3
      /\ PrintMod(m)[1] = a /\ PrintMod(m)[2] = b /\ PrintMod(m)[3] = c
  BY <1>3, <1>4, OfThree
<1>9. Shape(m, PrintMod(m))
  BY <1>1, <1>5, <1>8 DEF Shape, ModLeads
<1>10. QED
  BY <1>1, <1>8, <1>9 DEF a, b, c

LEMMA LoadShape ==
  ASSUME NEW m \in LoadMods
  PROVE  /\ Shape(m, PrintMod(m)) /\ Len(PrintMod(m)) = 2 /\ m.kind = "load"
         /\ m = Modification("load", m.idx, "", 0)
         /\ PrintMod(m)[1] = Plain("mem") /\ PrintMod(m)[2] = Hex(m.idx, 8)
<1>1. /\ m = Modification("load", m.idx, "", 0)
      /\ m.kind = "load" /\ m.idx \in Nat /\ m.bits \in Nat
  <2>1. m = Modification("load", m.idx, "", 0) /\ m.kind = "load" /\ m.idx \in Nat
    BY DEF LoadMods, Modification
  <2>2. m.bits = 0
    BY DEF LoadMods
  <2>3. 0 \in Nat
    OBVIOUS
  <2>4. QED
    BY Zenon, <2>1, <2>2, <2>3
<1> DEFINE a == Plain("mem")
           b == Hex(m.idx, 8)
<1>3. PrintMod(m) = <<a, b>>
  BY <1>1 DEF PrintMod, XlenDigits
<1>4. a \in Words /\ b \in Words
  BY <1>1, IsWord
<1>5. a.lead = "mem"
  BY DEF Plain, Word
<1> HIDE DEF a, b
<1>8. /\ PrintMod(m) \in Seq(Words) /\ Len(PrintMod(m)) = 2
      /\ PrintMod(m)[1] = a /\ PrintMod(m)[2] = b
  BY <1>3, <1>4, OfTwo
<1>9. Shape(m, PrintMod(m))
  BY <1>1, <1>5, <1>8 DEF Shape, ModLeads
<1>10. QED
  BY <1>1, <1>8, <1>9 DEF a, b

LEMMA StoreShape ==
  ASSUME NEW m \in StoreMods
  PROVE  /\ Shape(m, PrintMod(m)) /\ Len(PrintMod(m)) = 3 /\ m.kind = "store"
         /\ m = Modification("store", m.idx, "", m.bits)
         /\ PrintMod(m)[1] = Plain("mem") /\ PrintMod(m)[2] = Hex(m.idx, 8)
         /\ PrintMod(m)[3] = Hex(m.bits, 8)
<1>1. /\ m = Modification("store", m.idx, "", m.bits)
      /\ m.kind = "store" /\ m.idx \in Nat /\ m.bits \in Nat
  BY DEF StoreMods, Modification
<1> DEFINE a == Plain("mem")
           b == Hex(m.idx, 8)
           c == Hex(m.bits, 8)
<1>3. PrintMod(m) = <<a, b, c>>
  BY <1>1 DEF PrintMod, XlenDigits
<1>4. a \in Words /\ b \in Words /\ c \in Words
  BY <1>1, IsWord
<1>5. a.lead = "mem"
  BY DEF Plain, Word
<1> HIDE DEF a, b, c
<1>8. /\ PrintMod(m) \in Seq(Words) /\ Len(PrintMod(m)) = 3
      /\ PrintMod(m)[1] = a /\ PrintMod(m)[2] = b /\ PrintMod(m)[3] = c
  BY <1>3, <1>4, OfThree
<1>9. Shape(m, PrintMod(m))
  BY <1>1, <1>5, <1>8 DEF Shape, ModLeads
<1>10. QED
  BY <1>1, <1>8, <1>9 DEF a, b, c

\* So every modification has this shape.
LEMMA PrintShape ==
  ASSUME NEW m \in PrintedMods
  PROVE  Shape(m, PrintMod(m))
BY RegShape, VRegShape, CsrShape, CtxShape, LoadShape, StoreShape DEF PrintedMods

\* A modification whose words are all there, and which no number follows, is
\* read as it was printed.
WholeMod(line, p, m) ==
  LET w == PrintMod(m) IN
  /\ p + Len(w) <= Len(line) + 1
  /\ \A j \in 1 .. Len(w) : line[p + j - 1] = w[j]
  /\ ~IsHex(line, p + Len(w))

\* Such a modification, word by word
LEMMA WholeTwo ==
  ASSUME NEW S, NEW line \in Seq(S), NEW p \in DOMAIN line, NEW m, Len(PrintMod(m)) = 2,
         WholeMod(line, p, m)
  PROVE  /\ p + 1 \in DOMAIN line /\ ~IsHex(line, p + 2)
         /\ line[p] = PrintMod(m)[1] /\ line[p + 1] = PrintMod(m)[2]
<1> DEFINE w == PrintMod(m)
<1>1. Len(w) = 2 /\ p + Len(w) <= Len(line) + 1 /\ ~IsHex(line, p + Len(w))
      /\ \A j \in 1 .. Len(w) : line[p + j - 1] = w[j]
  BY DEF WholeMod
<1> HIDE DEF w
<1>2. line[p + 1 - 1] = w[1] /\ line[p + 2 - 1] = w[2]
  BY <1>1
<1>3. p + 1 - 1 = p /\ p + 2 - 1 = p + 1 /\ p \in Nat /\ Len(line) \in Nat
  OBVIOUS
<1>4. QED
  BY <1>1, <1>2, <1>3 DEF w

LEMMA WholeThree ==
  ASSUME NEW S, NEW line \in Seq(S), NEW p \in DOMAIN line, NEW m, Len(PrintMod(m)) = 3,
         WholeMod(line, p, m)
  PROVE  /\ p + 1 \in DOMAIN line /\ p + 2 \in DOMAIN line
         /\ line[p] = PrintMod(m)[1] /\ line[p + 1] = PrintMod(m)[2]
         /\ line[p + 2] = PrintMod(m)[3]
<1> DEFINE w == PrintMod(m)
<1>1. Len(w) = 3 /\ p + Len(w) <= Len(line) + 1
      /\ \A j \in 1 .. Len(w) : line[p + j - 1] = w[j]
  BY DEF WholeMod
<1> HIDE DEF w
<1>2. line[p + 1 - 1] = w[1] /\ line[p + 2 - 1] = w[2] /\ line[p + 3 - 1] = w[3]
  BY <1>1
<1>3. p + 1 - 1 = p /\ p + 2 - 1 = p + 1 /\ p + 3 - 1 = p + 2 /\ p \in Nat /\ Len(line) \in Nat
  OBVIOUS
<1>4. QED
  BY <1>1, <1>2, <1>3 DEF w

\* The parser at a whole modification, kind by kind
LEMMA ParseWholeReg ==
  ASSUME NEW S, NEW line \in Seq(S), NEW p \in DOMAIN line, NEW m \in RegMods, WholeMod(line, p, m)
  PROVE  ParseMod(line, p) = Found(2, m)
<1>1. p + 1 \in DOMAIN line /\ line[p] = Reg(m.kind, m.idx) /\ line[p + 1] = Hex(m.bits, 8)
  <2>1. Len(PrintMod(m)) = 2
    BY RegShape
  <2>2. /\ p + 1 \in DOMAIN line /\ line[p] = PrintMod(m)[1] /\ line[p + 1] = PrintMod(m)[2]
        /\ ~IsHex(line, p + 2)
    BY <2>1, WholeTwo
  <2>3. QED
    BY <2>2, RegShape
<1>2. m.kind \in {"x", "f"} /\ m.idx \in Nat /\ m.bits \in Nat
      /\ m = Modification(m.kind, m.idx, "", m.bits)
  BY RegShape DEF Shape
<1>3. Kind(line[p]) = m.kind /\ line[p].num = m.idx
  <2>1. Kind(Reg(m.kind, m.idx)) = m.kind
    BY <1>2, KindOfWords
  <2>2. Reg(m.kind, m.idx).num = m.idx
    BY RegWord
  <2>3. QED
    BY <1>1, <2>1, <2>2
<1>4. Kind(line[p + 1]) = "Hexadecimal" /\ line[p + 1].num = m.bits
  <2>1. /\ Kind(Hex(m.bits, 8)) = "Hexadecimal"
        /\ Hex(m.bits, 8).num = m.bits /\ Hex(m.bits, 8).digits = 8
    <3>1. 8 \in Nat
      OBVIOUS
    <3>2. m.bits \in Nat
      BY <1>2
    <3>3. QED
      BY <3>1, <3>2, HexWord
  <2>2. QED
    BY <1>1, <2>1
<1>5. ParseReg(line, p) = Found(2, m)
  BY <1>1, <1>2, <1>3, <1>4 DEF ParseReg, IsHex, IsKind
<1>6. QED
  BY <1>2, <1>3, <1>5 DEF ParseMod

LEMMA ParseWholeVReg ==
  ASSUME NEW S, NEW line \in Seq(S), NEW p \in DOMAIN line, NEW m \in VRegMods, WholeMod(line, p, m)
  PROVE  ParseMod(line, p) = Found(2, m)
<1>1. p + 1 \in DOMAIN line /\ line[p] = Reg("v", m.idx) /\ line[p + 1] = Hex(m.bits, 16)
  <2>1. Len(PrintMod(m)) = 2
    BY VRegShape
  <2>2. /\ p + 1 \in DOMAIN line /\ line[p] = PrintMod(m)[1] /\ line[p + 1] = PrintMod(m)[2]
        /\ ~IsHex(line, p + 2)
    BY <2>1, WholeTwo
  <2>3. QED
    BY <2>2, VRegShape
<1>2. m.idx \in Nat /\ m.bits \in Nat /\ m = Modification("v", m.idx, "", m.bits)
  BY VRegShape DEF Shape
<1>3. Kind(line[p]) = "v" /\ line[p].num = m.idx
  <2>1. Kind(Reg("v", m.idx)) = "v"
    BY <1>2, KindOfWords
  <2>2. Reg("v", m.idx).num = m.idx
    BY RegWord
  <2>3. QED
    BY <1>1, <2>1, <2>2
<1>4. Kind(line[p + 1]) = "Hexadecimal" /\ line[p + 1].num = m.bits /\ line[p + 1].digits = 16
  <2>1. /\ Kind(Hex(m.bits, 16)) = "Hexadecimal"
        /\ Hex(m.bits, 16).num = m.bits /\ Hex(m.bits, 16).digits = 16
    <3>1. 16 \in Nat
      OBVIOUS
    <3>2. m.bits \in Nat
      BY <1>2
    <3>3. QED
      BY <3>1, <3>2, HexWord
  <2>2. QED
    BY <1>1, <2>1
<1>5. ParseVReg(line, p) = Found(2, Modification("v", m.idx, "", m.bits))
  <2>1. 16 % 8 = 0 /\ 16 = VlenDigits
    BY DEF VlenDigits
  <2>2. IsHex(line, p + 1)
    BY <1>1, <1>4 DEF IsHex, IsKind
  <2>3. QED
    BY <1>3, <1>4, <2>1, <2>2 DEF ParseVReg, Modification
<1>6. QED
  BY <1>2, <1>3, <1>5 DEF ParseMod

LEMMA ParseWholeCsr ==
  ASSUME NEW S, NEW line \in Seq(S), NEW p \in DOMAIN line, NEW m \in CsrMods, WholeMod(line, p, m)
  PROVE  ParseMod(line, p) = Found(2, m)
<1>1. p + 1 \in DOMAIN line /\ line[p] = Word("c", m.idx, 2, m.name) /\ line[p + 1] = Hex(m.bits, 8)
  <2>1. Len(PrintMod(m)) = 2
    BY CsrShape
  <2>2. /\ p + 1 \in DOMAIN line /\ line[p] = PrintMod(m)[1] /\ line[p + 1] = PrintMod(m)[2]
        /\ ~IsHex(line, p + 2)
    BY <2>1, WholeTwo
  <2>3. QED
    BY <2>2, CsrShape
<1>2. m.idx \in Nat /\ m.bits \in Nat /\ m.name \in CsrNames
      /\ m = Modification("csr", m.idx, m.name, m.bits)
  BY CsrShape DEF Shape
<1>3. Kind(line[p]) = "Csr"
  BY <1>1, <1>2, KindOfWords
<1>4. Kind(line[p + 1]) = "Hexadecimal" /\ line[p + 1].num = m.bits
  <2>1. /\ Kind(Hex(m.bits, 8)) = "Hexadecimal"
        /\ Hex(m.bits, 8).num = m.bits /\ Hex(m.bits, 8).digits = 8
    <3>1. 8 \in Nat
      OBVIOUS
    <3>2. m.bits \in Nat
      BY <1>2
    <3>3. QED
      BY <3>1, <3>2, HexWord
  <2>2. QED
    BY <1>1, <2>1
<1>5. line[p].num = m.idx /\ line[p].rest = m.name /\ m.idx # NoNumber
  <2>1. m.idx # NoNumber
    BY <1>2, IsANumber
  <2>2. \A n, name : Word("c", n, 2, name).num = n /\ Word("c", n, 2, name).rest = name
    BY DEF Word
  <2>3. QED
    BY <1>1, <2>1, <2>2
<1>6. ParseCsr(line, p) = Found(2, m)
  BY <1>1, <1>2, <1>4, <1>5 DEF ParseCsr, IsHex, IsKind
<1>7. QED
  BY <1>3, <1>6 DEF ParseMod

LEMMA ParseWholeCtx ==
  ASSUME NEW S, NEW line \in Seq(S), NEW p \in DOMAIN line, NEW m \in CtxMods, WholeMod(line, p, m)
  PROVE  ParseMod(line, p) = Found(3, m)
<1>1. /\ p + 1 \in DOMAIN line /\ p + 2 \in DOMAIN line
      /\ line[p] = Reg("e", 32) /\ line[p + 1] = Reg("mf", 2) /\ line[p + 2] = Reg("l", m.bits)
  <2>1. Len(PrintMod(m)) = 3
    BY CtxShape
  <2>2. /\ p + 1 \in DOMAIN line /\ line[p] = PrintMod(m)[1] /\ line[p + 1] = PrintMod(m)[2]
        /\ p + 2 \in DOMAIN line /\ line[p + 2] = PrintMod(m)[3]
    BY <2>1, WholeThree
  <2>3. QED
    BY <2>2, CtxShape
<1>2. m.bits \in Nat /\ m = Modification("ctx", 0, "", m.bits)
  BY CtxShape DEF Shape
<1>3. Kind(line[p]) = "e" /\ Kind(line[p + 1]) = "Lmul" /\ Kind(line[p + 2]) = "l"
  <2>1. 32 \in Nat /\ 2 \in Nat
    OBVIOUS
  <2>2. Kind(Reg("e", 32)) = "e" /\ Kind(Reg("mf", 2)) = "Lmul" /\ Kind(Reg("l", m.bits)) = "l"
    BY <1>2, <2>1, KindOfWords
  <2>3. QED
    BY <1>1, <2>2
<1>4. line[p + 1].num # NoNumber /\ line[p + 2].num = m.bits
  BY <1>1, RegWord DEF NoNumber
<1>5. ParseVecCtx(line, p) = Found(3, m)
  BY <1>1, <1>2, <1>3, <1>4 DEF ParseVecCtx, IsKind
<1>6. QED
  BY <1>3, <1>5 DEF ParseMod

LEMMA ParseWholeLoad ==
  ASSUME NEW S, NEW line \in Seq(S), NEW p \in DOMAIN line, NEW m \in LoadMods, WholeMod(line, p, m)
  PROVE  ParseMod(line, p) = Found(2, m)
<1>1. /\ p + 1 \in DOMAIN line /\ ~IsHex(line, p + 2)
      /\ line[p] = Plain("mem") /\ line[p + 1] = Hex(m.idx, 8)
  <2>1. Len(PrintMod(m)) = 2
    BY LoadShape
  <2>2. /\ p + 1 \in DOMAIN line /\ line[p] = PrintMod(m)[1] /\ line[p + 1] = PrintMod(m)[2]
        /\ ~IsHex(line, p + 2)
    BY <2>1, WholeTwo
  <2>3. QED
    BY <2>2, LoadShape
<1>2. m.idx \in Nat /\ m = Modification("load", m.idx, "", 0)
  BY LoadShape DEF Shape
<1>3. Kind(line[p]) = "MemLiteral"
  BY <1>1, <1>2, KindOfWords
<1>4. Kind(line[p + 1]) = "Hexadecimal" /\ line[p + 1].num = m.idx
  <2>1. /\ Kind(Hex(m.idx, 8)) = "Hexadecimal"
        /\ Hex(m.idx, 8).num = m.idx /\ Hex(m.idx, 8).digits = 8
    <3>1. 8 \in Nat
      OBVIOUS
    <3>2. m.idx \in Nat
      BY <1>2
    <3>3. QED
      BY <3>1, <3>2, HexWord
  <2>2. QED
    BY <1>1, <2>1
<1>5. IsHex(line, p + 1)
  BY <1>1, <1>4 DEF IsHex, IsKind
<1>6. ParseMem(line, p) = Found(2, m)
  BY <1>1, <1>2, <1>4, <1>5 DEF ParseMem
<1>7. QED
  BY <1>3, <1>6 DEF ParseMod

LEMMA ParseWholeStore ==
  ASSUME NEW S, NEW line \in Seq(S), NEW p \in DOMAIN line, NEW m \in StoreMods, WholeMod(line, p, m)
  PROVE  ParseMod(line, p) = Found(3, m)
<1>1. /\ p + 1 \in DOMAIN line /\ p + 2 \in DOMAIN line
      /\ line[p] = Plain("mem") /\ line[p + 1] = Hex(m.idx, 8) /\ line[p + 2] = Hex(m.bits, 8)
  <2>1. Len(PrintMod(m)) = 3
    BY StoreShape
  <2>2. /\ p + 1 \in DOMAIN line /\ line[p] = PrintMod(m)[1] /\ line[p + 1] = PrintMod(m)[2]
        /\ p + 2 \in DOMAIN line /\ line[p + 2] = PrintMod(m)[3]
    BY <2>1, WholeThree
  <2>3. QED
    BY <2>2, StoreShape
<1>2. m.idx \in Nat /\ m.bits \in Nat /\ m = Modification("store", m.idx, "", m.bits)
  BY StoreShape DEF Shape
<1>3. Kind(line[p]) = "MemLiteral"
  BY <1>1, <1>2, KindOfWords
<1>4. /\ Kind(line[p + 1]) = "Hexadecimal" /\ line[p + 1].num = m.idx
      /\ Kind(line[p + 2]) = "Hexadecimal" /\ line[p + 2].num = m.bits
  <2>1. /\ Kind(Hex(m.idx, 8)) = "Hexadecimal"
        /\ Hex(m.idx, 8).num = m.idx /\ Hex(m.idx, 8).digits = 8
    <3>1. 8 \in Nat
      OBVIOUS
    <3>2. m.idx \in Nat
      BY <1>2
    <3>3. QED
      BY <3>1, <3>2, HexWord
  <2>2. /\ Kind(Hex(m.bits, 8)) = "Hexadecimal"
        /\ Hex(m.bits, 8).num = m.bits /\ Hex(m.bits, 8).digits = 8
    <3>1. 8 \in Nat
      OBVIOUS
    <3>2. m.bits \in Nat
      BY <1>2
    <3>3. QED
      BY <3>1, <3>2, HexWord
  <2>3. QED
    BY <1>1, <2>1, <2>2
<1>5. IsHex(line, p + 1) /\ IsHex(line, p + 2)
  BY <1>1, <1>4 DEF IsHex, IsKind
<1>6. ParseMem(line, p) = Found(3, m)
  BY <1>1, <1>2, <1>4, <1>5 DEF ParseMem
<1>7. QED
  BY <1>3, <1>6 DEF ParseMod

\* For every kind: what was printed is read back.
LEMMA ParseWhole ==
  ASSUME NEW S, NEW line \in Seq(S), NEW p \in DOMAIN line, NEW m \in PrintedMods,
         WholeMod(line, p, m)
  PROVE  ParseMod(line, p) = Found(Len(PrintMod(m)), m)
<1>1. CASE m \in RegMods
  BY <1>1, ParseWholeReg, RegShape
<1>2. CASE m \in VRegMods
  BY <1>2, ParseWholeVReg, VRegShape
<1>3. CASE m \in CsrMods
  BY <1>3, ParseWholeCsr, CsrShape
<1>4. CASE m \in CtxMods
  BY <1>4, ParseWholeCtx, CtxShape
<1>5. CASE m \in LoadMods
  BY <1>5, ParseWholeLoad, LoadShape
<1>6. CASE m \in StoreMods
  BY <1>6, ParseWholeStore, StoreShape
<1>7. QED
  BY <1>1, <1>2, <1>3, <1>4, <1>5, <1>6 DEF PrintedMods

-----------------------------------------------------------------------------
(* A modification that is cut *)

\* One whose words are the last of the line and perhaps not all of them, or the
\* last one cut, gives no more than one modification, of the same sort.
SameSort(a, b) == a.kind = b.kind \/ {a.kind, b.kind} \subseteq {"load", "store"}

\* The line ends within the words of m that begin at p, or right behind its
\* last one, which may be cut.
CutMod(line, p, m) ==
  LET w == PrintMod(m) IN
  /\ Len(line) < p + Len(w)
  /\ \A j \in 1 .. Len(w) : p + j - 1 < Len(line) => line[p + j - 1] = w[j]
  /\ line[Len(line)] \in {w[Len(line) + 1 - p]} \cup WordCuts(w[Len(line) + 1 - p])

\* What the first word decides of a modification that is read
LEMMA KindOfFound ==
  ASSUME NEW line, NEW p, ParseMod(line, p).result = "mod"
  PROVE  /\ Kind(line[p]) \in {"x", "f"} => ParseMod(line, p).mod.kind = Kind(line[p])
         /\ Kind(line[p]) = "v" => ParseMod(line, p).mod.kind = "v"
         /\ Kind(line[p]) = "Csr" => ParseMod(line, p).mod.kind = "csr"
         /\ Kind(line[p]) = "e" => ParseMod(line, p).mod.kind = "ctx"
         /\ Kind(line[p]) = "MemLiteral" => ParseMod(line, p).mod.kind \in {"load", "store"}
         /\ Kind(line[p]) \in {"x", "f", "v", "Csr"} => ParseMod(line, p).words = 2
         /\ Kind(line[p]) = "e" => ParseMod(line, p).words = 3
<1>1. ASSUME Kind(line[p]) \in {"x", "f"}
      PROVE  ParseMod(line, p).mod.kind = Kind(line[p]) /\ ParseMod(line, p).words = 2
  <2>1. ParseMod(line, p) = ParseReg(line, p)
    BY <1>1 DEF ParseMod
  <2>2. ParseReg(line, p).result = "mod" => ParseReg(line, p).mod.kind = Kind(line[p]) /\ ParseReg(line, p).words = 2
    BY DEF ParseReg, Found, Failed, Modification
  <2>3. QED
    BY <2>1, <2>2
<1>2. ASSUME Kind(line[p]) = "v"
      PROVE  ParseMod(line, p).mod.kind = "v" /\ ParseMod(line, p).words = 2
  <2>1. ParseMod(line, p) = ParseVReg(line, p)
    BY <1>2 DEF ParseMod
  <2>2. ParseVReg(line, p).result = "mod" => ParseVReg(line, p).mod.kind = "v" /\ ParseVReg(line, p).words = 2
    BY DEF ParseVReg, Found, Failed, Modification
  <2>3. QED
    BY <2>1, <2>2
<1>3. ASSUME Kind(line[p]) = "Csr"
      PROVE  ParseMod(line, p).mod.kind = "csr" /\ ParseMod(line, p).words = 2
  <2>1. ParseMod(line, p) = ParseCsr(line, p)
    BY <1>3 DEF ParseMod
  <2>2. ParseCsr(line, p).result = "mod" => ParseCsr(line, p).mod.kind = "csr" /\ ParseCsr(line, p).words = 2
    BY DEF ParseCsr, Found, Failed, Modification
  <2>3. QED
    BY <2>1, <2>2
<1>4. ASSUME Kind(line[p]) = "e"
      PROVE  ParseMod(line, p).mod.kind = "ctx" /\ ParseMod(line, p).words = 3
  <2>1. ParseMod(line, p) = ParseVecCtx(line, p)
    BY <1>4 DEF ParseMod
  <2>2. ParseVecCtx(line, p).result = "mod" => ParseVecCtx(line, p).mod.kind = "ctx" /\ ParseVecCtx(line, p).words = 3
    BY DEF ParseVecCtx, Found, Failed, Modification
  <2>3. QED
    BY <2>1, <2>2
<1>5. ASSUME Kind(line[p]) = "MemLiteral"
      PROVE  ParseMod(line, p).mod.kind \in {"load", "store"}
  <2>1. ParseMod(line, p) = ParseMem(line, p)
    BY <1>5 DEF ParseMod
  <2>2. ParseMem(line, p).result = "mod" => ParseMem(line, p).mod.kind \in {"load", "store"}
    BY DEF ParseMem, Found, Failed, Modification
  <2>3. QED
    BY <2>1, <2>2
<1>6. QED
  BY <1>1, <1>2, <1>3, <1>4, <1>5

\* So the modification that is cut is read as one of its own sort, and no
\* second one is found in what is left of it.
LEMMA ParseCut ==
  ASSUME NEW S, NEW line \in Seq(S), NEW m \in PrintedMods, NEW p \in DOMAIN line,
         CutMod(line, p, m), ParseMod(line, p).result = "mod"
  PROVE  /\ SameSort(ParseMod(line, p).mod, m)
         /\ LET q == p + ParseMod(line, p).words IN
            q = Len(line) + 1 \/ (q = Len(line) /\ ParseMod(line, q).result # "mod")
<1> DEFINE n == Len(line)
           w == PrintMod(m)
           first == ParseMod(line, p)
<1>1. p \in Nat /\ n \in Nat /\ DOMAIN line = 1 .. n /\ p \in 1 .. n
  OBVIOUS
<1>2. first.words \in {2, 3} /\ p + first.words <= n + 1
  BY <1>1, ModWords
<1>3. Len(w) \in {2, 3} /\ n < p + Len(w)
  BY PrintShape DEF Shape, CutMod
<1>4. line[p] = w[1]
  <2>1. 1 \in 1 .. Len(w) /\ p + 1 - 1 < n /\ p + 1 - 1 = p
    BY <1>1, <1>2, <1>3
  <2>2. line[p + 1 - 1] = w[1]
    BY <2>1 DEF CutMod
  <2>3. QED
    BY <2>1, <2>2
<1>5. line[n] \in {w[n + 1 - p]} \cup WordCuts(w[n + 1 - p])
  BY DEF CutMod
<1>6. first.result = "mod"
  OBVIOUS
<1>7. Len(w) = first.words => p + first.words = n + 1
  BY <1>1, <1>2, <1>3
<1>8. Kind(line[p]) \in {"x", "f"} => first.mod.kind = Kind(line[p])
  BY KindOfFound
<1>9. /\ Kind(line[p]) = "v" => first.mod.kind = "v"
      /\ Kind(line[p]) = "Csr" => first.mod.kind = "csr"
      /\ Kind(line[p]) = "e" => first.mod.kind = "ctx"
      /\ Kind(line[p]) = "MemLiteral" => first.mod.kind \in {"load", "store"}
      /\ Kind(line[p]) \in {"x", "f", "v", "Csr"} => first.words = 2
      /\ Kind(line[p]) = "e" => first.words = 3
  BY KindOfFound
<1> HIDE DEF n, w, first
<1>10. CASE m \in RegMods
  <2>1. /\ m.kind \in {"x", "f"} /\ m.idx \in Nat /\ w[1] = Reg(m.kind, m.idx) /\ Len(w) = 2
    BY <1>10, RegShape DEF w, Shape
  <2>2. Kind(line[p]) = m.kind
    BY <1>4, <2>1, KindOfWords
  <2>3. QED
    BY <1>7, <1>8, <1>9, <2>1, <2>2 DEF SameSort, n, first
<1>11. CASE m \in VRegMods
  <2>1. m.kind = "v" /\ m.idx \in Nat /\ w[1] = Reg("v", m.idx) /\ Len(w) = 2
    BY <1>11, VRegShape DEF w, Shape
  <2>2. Kind(line[p]) = "v"
    BY <1>4, <2>1, KindOfWords
  <2>3. QED
    BY <1>7, <1>9, <2>1, <2>2 DEF SameSort, n, first
<1>12. CASE m \in CsrMods
  <2>1. /\ m.kind = "csr" /\ m.idx \in Nat /\ m.name \in CsrNames
        /\ w[1] = Word("c", m.idx, 2, m.name) /\ Len(w) = 2
    BY <1>12, CsrShape DEF w, Shape
  <2>2. Kind(line[p]) = "Csr"
    BY <1>4, <2>1, KindOfWords
  <2>3. QED
    BY <1>7, <1>9, <2>1, <2>2 DEF SameSort, n, first
<1>13. CASE m \in CtxMods
  <2>1. m.kind = "ctx" /\ w[1] = Reg("e", 32) /\ Len(w) = 3 /\ 32 \in Nat
    BY <1>13, CtxShape DEF w, Shape
  <2>2. Kind(line[p]) = "e"
    BY <1>4, <2>1, KindOfWords
  <2>3. QED
    BY <1>7, <1>9, <2>1, <2>2 DEF SameSort, n, first
<1>14. CASE m \in LoadMods
  <2>1. m.kind = "load" /\ w[1] = Plain("mem") /\ Len(w) = 2 /\ m.idx \in Nat
    BY <1>14, LoadShape DEF w, Shape
  <2>2. Kind(line[p]) = "MemLiteral"
    BY <1>4, <2>1, KindOfWords
  <2>3. p + first.words = n + 1
    BY <1>1, <1>2, <1>3, <2>1
  <2>4. QED
    BY <1>9, <2>1, <2>2, <2>3 DEF SameSort, n, first
<1>15. CASE m \in StoreMods
  <2>1. /\ m.kind = "store" /\ w[1] = Plain("mem") /\ w[3] = Hex(m.bits, 8) /\ Len(w) = 3
        /\ m.idx \in Nat
    BY <1>15, StoreShape DEF w, Shape
  <2>2. Kind(line[p]) = "MemLiteral"
    BY <1>4, <2>1, KindOfWords
  <2>3. SameSort(first.mod, m)
    BY <1>9, <2>1, <2>2 DEF SameSort
  <2>4. CASE p + first.words = n + 1
    BY <2>3, <2>4 DEF n, first
  <2>5. CASE p + first.words # n + 1
    <3>1. p + first.words = n /\ n + 1 - p = 3
      BY <1>1, <1>2, <1>3, <2>1, <2>5
    <3>2. line[n] \in {Hex(m.bits, 8)} \cup WordCuts(Hex(m.bits, 8))
      BY <1>5, <2>1, <3>1
    <3>3. ParseMod(line, n).result # "mod"
      <4>1. line[n].lead \notin ModLeads
        BY <3>2, CutOfHex
      <4>2. QED
        BY <4>1, NoModHere
    <3>4. QED
      BY <2>3, <3>1, <3>3 DEF n, first
  <2>6. QED
    BY <2>4, <2>5
<1>16. QED
  BY <1>10, <1>11, <1>12, <1>13, <1>14, <1>15 DEF PrintedMods

\* Where the modifications of a commit begin in its line
Laid(mods, full, b) ==
  /\ b[1] = 6 /\ b[Len(mods) + 1] = Len(full) + 1
  /\ \A k \in 1 .. Len(mods) :
       /\ b[k] \in 6 .. Len(full) /\ b[k + 1] \in 6 .. Len(full) + 1
       /\ b[k + 1] = b[k] + Len(PrintMod(mods[k]))
       /\ \A j \in 1 .. Len(PrintMod(mods[k])) : full[b[k] + j - 1] = PrintMod(mods[k])[j]

\* A commit as the machines write it
Printable(c) == c.pc \in Nat /\ c.inst \in Nat /\ c.mods \in Seq(PrintedMods)

\* Facts of sequences and indices, one at a time
LEMMA SeqConcat ==
  ASSUME NEW S, NEW s \in Seq(S), NEW t \in Seq(S), NEW u, u = s \o t
  PROVE  /\ u \in Seq(S) /\ Len(u) = Len(s) + Len(t)
         /\ \A i \in 1 .. Len(s) : u[i] = s[i]
         /\ \A i \in 1 .. Len(t) : u[Len(s) + i] = t[i]
OBVIOUS

LEMMA PlaceNumbers ==
  ASSUME NEW x \in Nat, NEW l \in 2 .. 3, NEW f \in Nat, x + l <= f
  PROVE  /\ (x + l) + 6 = (x + 6) + l /\ x + 6 \in 6 .. 5 + f
         /\ (x + l) + 6 \in 6 .. (5 + f) + 1
OBVIOUS

LEMMA IndexNumbers ==
  ASSUME NEW x \in Nat, NEW l \in 2 .. 3, NEW f \in Nat, x + l <= f, NEW j \in 1 .. l
  PROVE  x + j \in 1 .. f /\ (x + 6) + j - 1 = 5 + (x + j)
OBVIOUS

LEMMA OfFive ==
  ASSUME NEW S, NEW a \in S, NEW b \in S, NEW c \in S, NEW d \in S, NEW e \in S
  PROVE  /\ <<a, b, c, d, e>> \in Seq(S) /\ Len(<<a, b, c, d, e>>) = 5
         /\ <<a, b, c, d, e>>[4] = d /\ <<a, b, c, d, e>>[5] = e
OBVIOUS

\* The line of a commit: five words, the fourth the pc and the fifth the
\* instruction, and then the modifications one after another.
LEMMA Layout ==
  ASSUME NEW c, Printable(c)
  PROVE  /\ PrintLine(c) \in Seq(Words) /\ Len(PrintLine(c)) >= 5
         /\ PrintLine(c)[4] = Hex(c.pc, 8)
         /\ PrintLine(c)[5] = Word("(0x", c.inst, 8, ")")
         /\ \E b : Laid(c.mods, PrintLine(c), b)
<1> DEFINE mods == c.mods
           K == Len(mods)
           s == [i \in DOMAIN mods |-> PrintMod(mods[i])]
           flat == Ext!FlattenSeq(s)
           a4 == Hex(c.pc, 8)
           a5 == Word("(0x", c.inst, 8, ")")
           header == <<Plain("core"), Word("", 0, 1, ":"), Word("", 3, 1, ""), a4, a5>>
<1>1. mods \in Seq(PrintedMods) /\ c.pc \in Nat /\ c.inst \in Nat
  BY DEF Printable
<1>2. PrintLine(c) = header \o flat
  BY DEF PrintLine, XlenDigits
<1>3. header \in Seq(Words) /\ Len(header) = 5 /\ header[4] = a4 /\ header[5] = a5
  <2>1. 8 \in Nat
    OBVIOUS
  <2>2. a4 \in Words /\ a5 \in Words /\ Plain("core") \in Words
        /\ Word("", 0, 1, ":") \in Words /\ Word("", 3, 1, "") \in Words
    BY <1>1, <2>1, IsWord
  <2> HIDE DEF a4, a5
  <2>3. QED
    BY <2>2, OfFive
<1>4. K \in Nat /\ DOMAIN mods = 1 .. K /\ \A k \in 1 .. K : mods[k] \in PrintedMods
  BY <1>1
<1> HIDE DEF mods, header
<1>5. \A k \in 1 .. K : PrintMod(mods[k]) \in Seq(Words) /\ Len(PrintMod(mods[k])) \in {2, 3}
  BY <1>4, PrintShape DEF Shape
<1>6. s \in Seq(Seq(Words)) /\ Len(s) = K /\ \A k \in 1 .. K : s[k] = PrintMod(mods[k])
  <2> HIDE DEF K
  <2>1. s = [i \in 1 .. K |-> PrintMod(mods[i])]
    BY <1>4
  <2>2. QED
    BY <1>4, <1>5, <2>1
<1> HIDE DEF s, K
<1>7. flat \in Seq(Words)
  BY <1>6, FlattenPieces
<1>8. PICK start : Placed(s, flat, K, start)
  BY <1>6, FlattenPieces
<1> HIDE DEF flat
<1>9. /\ PrintLine(c) \in Seq(Words) /\ Len(PrintLine(c)) = 5 + Len(flat) /\ Len(flat) \in Nat
      /\ \A i \in 1 .. 5 : PrintLine(c)[i] = header[i]
      /\ \A i \in 1 .. Len(flat) : PrintLine(c)[5 + i] = flat[i]
  <2>1. Len(flat) \in Nat
    BY <1>7
  <2>2. /\ PrintLine(c) \in Seq(Words) /\ Len(PrintLine(c)) = Len(header) + Len(flat)
        /\ \A i \in 1 .. Len(header) : PrintLine(c)[i] = header[i]
        /\ \A i \in 1 .. Len(flat) : PrintLine(c)[Len(header) + i] = flat[i]
    <3>1. header \in Seq(Words) /\ flat \in Seq(Words)
      BY <1>3, <1>7
    <3>2. QED
      BY <1>2, <3>1, SeqConcat
  <2>3. QED
    BY <1>2, <1>3, <2>1, <2>2
<1> DEFINE b == [k \in 1 .. K + 1 |-> start[k] + 6]
<1>10. b[1] = 6 /\ b[K + 1] = Len(PrintLine(c)) + 1
  BY <1>4, <1>8, <1>9 DEF Placed
<1>11. ASSUME NEW k \in 1 .. K
       PROVE  /\ b[k] \in 6 .. Len(PrintLine(c)) /\ b[k + 1] \in 6 .. Len(PrintLine(c)) + 1
              /\ b[k + 1] = b[k] + Len(PrintMod(mods[k]))
              /\ \A j \in 1 .. Len(PrintMod(mods[k])) :
                   PrintLine(c)[b[k] + j - 1] = PrintMod(mods[k])[j]
  <2> DEFINE w == PrintMod(mods[k])
  <2>1. /\ start[k] \in Nat /\ start[k + 1] = start[k] + Len(w) /\ start[k + 1] <= Len(flat)
        /\ \A j \in DOMAIN w : flat[start[k] + j] = w[j]
    BY <1>6, <1>8 DEF Placed
  <2>2. w \in Seq(Words) /\ Len(w) \in {2, 3} /\ DOMAIN w = 1 .. Len(w)
    BY <1>5
  <2>3. b[k] = start[k] + 6 /\ b[k + 1] = start[k + 1] + 6
    BY <1>4
  <2> HIDE DEF b, w
  <2>4. b[k + 1] = b[k] + Len(w) /\ b[k] \in 6 .. Len(PrintLine(c))
        /\ b[k + 1] \in 6 .. Len(PrintLine(c)) + 1
    <3>1. Len(w) \in 2 .. 3 /\ start[k] \in Nat /\ Len(flat) \in Nat
          /\ start[k + 1] = start[k] + Len(w) /\ start[k + 1] <= Len(flat)
      BY <1>9, <2>1, <2>2
    <3>2. Len(PrintLine(c)) = 5 + Len(flat)
      BY <1>9
    <3>3. QED
      <4>1. /\ (start[k] + Len(w)) + 6 = (start[k] + 6) + Len(w)
            /\ start[k] + 6 \in 6 .. 5 + Len(flat)
            /\ (start[k] + Len(w)) + 6 \in 6 .. (5 + Len(flat)) + 1
        BY <3>1, PlaceNumbers
      <4>2. QED
        BY Zenon, <2>3, <3>1, <3>2, <4>1
  <2>5. ASSUME NEW j \in 1 .. Len(w) PROVE PrintLine(c)[b[k] + j - 1] = w[j]
    <3>1. start[k] + j \in 1 .. Len(flat) /\ b[k] + j - 1 = 5 + (start[k] + j)
      <4>1. Len(w) \in 2 .. 3 /\ start[k] \in Nat /\ Len(flat) \in Nat
            /\ start[k] + Len(w) <= Len(flat)
        <5>1. start[k + 1] = start[k] + Len(w) /\ start[k + 1] <= Len(flat) /\ start[k] \in Nat
          BY <2>1
        <5>2. Len(w) \in 2 .. 3
          BY <2>2
        <5>3. Len(flat) \in Nat
          BY <1>9
        <5>4. QED
          BY <5>1, <5>2, <5>3
      <4>2. j \in 1 .. Len(w)
        OBVIOUS
      <4>3. start[k] + j \in 1 .. Len(flat) /\ (start[k] + 6) + j - 1 = 5 + (start[k] + j)
        BY <4>1, <4>2, IndexNumbers
      <4>4. QED
        BY <2>3, <4>3
    <3>2. flat[start[k] + j] = w[j]
      BY <2>1, <2>2
    <3>3. QED
      BY <1>9, <3>1, <3>2
  <2>6. QED
    BY <2>4, <2>5 DEF w
<1> HIDE DEF b
<1>12. Laid(c.mods, PrintLine(c), b)
  BY <1>10, <1>11 DEF Laid, mods, K
<1>13. PrintLine(c)[4] = a4 /\ PrintLine(c)[5] = a5
  BY <1>3, <1>9
<1>14. QED
  BY <1>9, <1>12, <1>13

\* The beginning of a line, with its last word whole or cut
IsCut(full, line) ==
  /\ \E S : line \in Seq(S)
  /\ Len(line) <= Len(full)
  /\ \A i \in 1 .. Len(line) - 1 : line[i] = full[i]
  /\ Len(line) > 0 => line[Len(line)] \in {full[Len(line)]} \cup WordCuts(full[Len(line)])

\* A whole line is such a beginning, and LineCuts gives such beginnings.
LEMMA WholeIsCut ==
  ASSUME NEW S, NEW full \in Seq(S)
  PROVE  IsCut(full, full)
<1>1. Len(full) \in Nat /\ full \in Seq(S)
  OBVIOUS
<1>2. QED
  BY <1>1 DEF IsCut

LEMMA LineCutIsCut ==
  ASSUME NEW S, NEW full \in Seq(S), NEW line \in LineCuts(full)
  PROVE  IsCut(full, line)
<1>1. CASE \E n \in 0 .. Len(full) : line = SubSeq(full, 1, n)
  <2>1. PICK n \in 0 .. Len(full) : line = SubSeq(full, 1, n)
    BY <1>1
  <2>2. line \in Seq(S) /\ Len(line) = n /\ \A i \in 1 .. n : line[i] = full[i]
    BY <2>1
  <2>3. QED
    BY <2>2 DEF IsCut
<1>2. CASE \E n \in DOMAIN full : \E w \in WordCuts(full[n]) : line = SubSeq(full, 1, n - 1) \o <<w>>
  <2>1. PICK n \in DOMAIN full : \E w \in WordCuts(full[n]) : line = SubSeq(full, 1, n - 1) \o <<w>>
    BY <1>2
  <2>2. PICK w \in WordCuts(full[n]) : line = SubSeq(full, 1, n - 1) \o <<w>>
    BY <2>1
  <2> DEFINE front == SubSeq(full, 1, n - 1)
  <2>3. front \in Seq(S) /\ Len(front) = n - 1 /\ n \in 1 .. Len(full)
        /\ \A i \in 1 .. n - 1 : front[i] = full[i]
    OBVIOUS
  <2>4. front \in Seq(S \cup {w}) /\ <<w>> \in Seq(S \cup {w})
    BY <2>3
  <2>5. line = front \o <<w>> /\ Len(<<w>>) = 1 /\ <<w>>[1] = w
    BY <2>2
  <2> HIDE DEF front
  <2>6. /\ line \in Seq(S \cup {w}) /\ Len(line) = n /\ line[n] = w
        /\ \A i \in 1 .. n - 1 : line[i] = full[i]
    <3>1. /\ line \in Seq(S \cup {w}) /\ Len(line) = (n - 1) + 1
          /\ \A i \in 1 .. n - 1 : line[i] = front[i]
          /\ line[(n - 1) + 1] = w
      <4>1. /\ line \in Seq(S \cup {w})
            /\ Len(line) = Len(front) + Len(<<w>>)
            /\ \A i \in 1 .. Len(front) : line[i] = front[i]
            /\ \A i \in 1 .. Len(<<w>>) : line[Len(front) + i] = <<w>>[i]
        BY <2>4, <2>5, SeqConcat
      <4>2. 1 \in 1 .. Len(<<w>>) /\ Len(<<w>>) = 1 /\ <<w>>[1] = w
        OBVIOUS
      <4>3. line[Len(front) + 1] = w
        BY Zenon, <4>1, <4>2
      <4>4. QED
        BY <2>3, <4>1, <4>2, <4>3
    <3>2. (n - 1) + 1 = n
      BY <2>3
    <3>3. QED
      BY <2>3, <2>5, <3>1, <3>2
  <2>7. QED
    BY <2>3, <2>6 DEF IsCut
<1>3. QED
  BY <1>1, <1>2 DEF LineCuts

\* What was read of the modifications from the k-th on: some of them, in order,
\* and only the last one read may be another, if the line is not whole.
Prefixed(read, mods, k, line, full) ==
  /\ \E T : read \in Seq(T)
  /\ Len(read) <= Len(mods) + 1 - k
  /\ \A j \in DOMAIN read :
       \/ read[j] = mods[k + j - 1]
       \/ j = Len(read) /\ line # full /\ SameSort(read[j], mods[k + j - 1])

\* The parser at the k-th modification
ReadsFrom(line, full, mods, b, from, k) ==
  b[k] <= Len(line) + 1 =>
    /\ from[b[k]].ok => Prefixed(from[b[k]].mods, mods, k, line, full)
    /\ line = full => from[b[k]].ok /\ Len(from[b[k]].mods) = Len(mods) + 1 - k

\* What was read grows from its end: nothing, the one that was cut, and one
\* more before the rest.
LEMMA PrefixedNone ==
  ASSUME NEW S, NEW mods \in Seq(S), NEW k \in 1 .. Len(mods) + 1, NEW line, NEW full
  PROVE  Prefixed(<<>>, mods, k, line, full)
<1>1. <<>> \in Seq({}) /\ Len(<<>>) = 0 /\ DOMAIN <<>> = {}
  OBVIOUS
<1>2. Len(mods) \in Nat
  OBVIOUS
<1>3. QED
  BY <1>1, <1>2 DEF Prefixed

Cons(x, s) == <<x>> \o s

LEMMA PrefixedOne ==
  ASSUME NEW S, NEW mods \in Seq(S), NEW k \in 1 .. Len(mods), NEW m, SameSort(m, mods[k]),
         NEW read, read = <<m>>, NEW line, NEW full, line # full
  PROVE  Prefixed(read, mods, k, line, full) /\ Len(read) = 1
<1>1. read \in Seq({m}) /\ Len(read) = 1 /\ DOMAIN read = {1} /\ read[1] = m
  OBVIOUS
<1>2. k + 1 - 1 = k /\ 1 <= Len(mods) + 1 - k
  OBVIOUS
<1>3. SameSort(read[1], mods[k + 1 - 1])
  BY <1>1, <1>2
<1>4. QED
  BY <1>1, <1>2, <1>3 DEF Prefixed

LEMMA PrefixedMore ==
  ASSUME NEW S, NEW mods \in Seq(S), NEW k \in 1 .. Len(mods), NEW line, NEW full, NEW rest,
         Prefixed(rest, mods, k + 1, line, full), NEW x, x = mods[k], NEW read, read = Cons(x, rest)
  PROVE  Prefixed(read, mods, k, line, full) /\ Len(read) = Len(rest) + 1
<1>1. PICK T : rest \in Seq(T)
  BY DEF Prefixed
<1>2. /\ read \in Seq({x} \cup T) /\ Len(read) = Len(rest) + 1 /\ read[1] = mods[k]
      /\ \A j \in 2 .. Len(read) : read[j] = rest[j - 1]
  <2>1. /\ read \in Seq({x} \cup T) /\ Len(read) = Len(rest) + 1 /\ read[1] = x
        /\ \A j \in 2 .. Len(read) : read[j] = rest[j - 1]
    <3>1. <<x>> \in Seq({x} \cup T) /\ rest \in Seq({x} \cup T)
      BY <1>1
    <3>2. read = <<x>> \o rest
      BY DEF Cons
    <3>3. QED
      BY <3>1, <3>2
  <2>2. QED
    BY <2>1
<1>3. Len(rest) \in Nat /\ Len(rest) <= Len(mods) + 1 - (k + 1) /\ Len(mods) \in Nat
      /\ DOMAIN rest = 1 .. Len(rest) /\ DOMAIN read = 1 .. Len(read)
  BY <1>1, <1>2 DEF Prefixed
<1>4. Len(read) <= Len(mods) + 1 - k
  BY <1>2, <1>3
<1>5. ASSUME NEW j \in DOMAIN read
      PROVE  \/ read[j] = mods[k + j - 1]
             \/ j = Len(read) /\ line # full /\ SameSort(read[j], mods[k + j - 1])
  <2>1. CASE j = 1
    <3>1. k + j - 1 = k
      BY <2>1
    <3>2. QED
      BY <1>2, <2>1, <3>1
  <2>2. CASE j # 1
    <3>1. j \in 2 .. Len(read) /\ j - 1 \in DOMAIN rest /\ (k + 1) + (j - 1) - 1 = k + j - 1
          /\ (j - 1 = Len(rest) => j = Len(read))
      <4>1. \A kk \in Nat, l \in Nat : \A jj \in 1 .. l + 1 : jj # 1 =>
              /\ jj \in 2 .. l + 1 /\ jj - 1 \in 1 .. l /\ (kk + 1) + (jj - 1) - 1 = kk + jj - 1
              /\ (jj - 1 = l => jj = l + 1)
        OBVIOUS
      <4>2. j \in 1 .. Len(rest) + 1 /\ k \in Nat
        BY <1>2, <1>3
      <4>3. QED
        BY <1>2, <1>3, <2>2, <4>1, <4>2
    <3>2. read[j] = rest[j - 1]
      BY <1>2, <3>1
    <3>3. \/ rest[j - 1] = mods[(k + 1) + (j - 1) - 1]
          \/ j - 1 = Len(rest) /\ line # full /\ SameSort(rest[j - 1], mods[(k + 1) + (j - 1) - 1])
      BY <3>1 DEF Prefixed
    <3>4. QED
      BY <3>1, <3>2, <3>3
  <2>3. QED
    BY <2>1, <2>2
<1>6. QED
  BY <1>2, <1>4, <1>5 DEF Prefixed

\* The words of the k-th modification are all there, or it is cut.
LEMMA WholeOrCut ==
  ASSUME NEW S, NEW full \in Seq(Words), NEW line \in Seq(S), IsCut(full, line),
         NEW mods \in Seq(PrintedMods), NEW b, Laid(mods, full, b),
         NEW k \in 1 .. Len(mods), b[k] <= Len(line)
  PROVE  \/ WholeMod(line, b[k], mods[k]) /\ b[k + 1] <= Len(line) + 1
         \/ CutMod(line, b[k], mods[k]) /\ line # full
<1> DEFINE m == mods[k]
           w == PrintMod(m)
           n == Len(line)
           p == b[k]
<1>1. /\ p \in 6 .. Len(full) /\ b[k + 1] = p + Len(w)
      /\ b[k + 1] \in 6 .. Len(full) + 1
      /\ \A j \in 1 .. Len(w) : full[p + j - 1] = w[j]
  BY DEF Laid
<1>2. /\ n <= Len(full) /\ \A i \in 1 .. n - 1 : line[i] = full[i]
      /\ n > 0 => line[n] \in {full[n]} \cup WordCuts(full[n])
  BY DEF IsCut
<1>3. n \in Nat /\ Len(full) \in Nat /\ Len(mods) \in Nat /\ DOMAIN line = 1 .. n
  OBVIOUS
<1>4. m \in PrintedMods /\ Len(w) \in 2 .. 3
  <2>1. m \in PrintedMods
    OBVIOUS
  <2>2. Len(w) \in {2, 3}
    BY <2>1, PrintShape DEF Shape
  <2>3. QED
    BY <2>1, <2>2
<1>5. p <= n
  OBVIOUS
<1> HIDE DEF n, w, m, p
<1>6. CASE p + Len(w) <= n + 1 /\ (p + Len(w) = n + 1 => line[n] = full[n])
  <2>1. ASSUME NEW j \in 1 .. Len(w) PROVE line[p + j - 1] = w[j]
    <3>1. full[p + j - 1] = w[j]
      BY <1>1
    <3>2. PICK i : i = p + j - 1
      OBVIOUS
    <3>3. i \in 1 .. n - 1 \/ (i = n /\ p + Len(w) = n + 1)
      <4>1. \A pp \in 6 .. Len(full), l \in 2 .. 3 : \A jj \in 1 .. l : pp + l <= n + 1 =>
              pp + jj - 1 \in 1 .. n - 1 \/ (pp + jj - 1 = n /\ pp + l = n + 1)
        BY <1>3
      <4>2. p \in 6 .. Len(full) /\ Len(w) \in 2 .. 3 /\ j \in 1 .. Len(w) /\ p + Len(w) <= n + 1
        BY <1>1, <1>4, <1>6
      <4>3. p + j - 1 \in 1 .. n - 1 \/ (p + j - 1 = n /\ p + Len(w) = n + 1)
        BY <4>1, <4>2
      <4>4. QED
        BY <3>2, <4>3
    <3>4. line[i] = full[i]
      BY <1>2, <1>6, <3>3
    <3>5. QED
      BY <3>1, <3>2, <3>4
  <2>2. ~IsHex(line, p + Len(w))
    <3> SUFFICES ASSUME p + Len(w) \in 1 .. n PROVE Kind(line[p + Len(w)]) # "Hexadecimal"
      BY <1>3 DEF IsHex, IsKind
    <3>1. PICK q : q = b[k + 1]
      OBVIOUS
    <3>2. q = p + Len(w) /\ q \in 1 .. n /\ q <= Len(full)
      BY <1>1, <1>2, <1>3, <3>1
    <3>3. k + 1 \in 1 .. Len(mods)
      <4>1. k + 1 = Len(mods) + 1 => q = Len(full) + 1
        BY <3>1 DEF Laid
      <4>2. QED
        BY <1>3, <3>2, <4>1
    <3>4. PICK u : u = mods[k + 1]
      OBVIOUS
    <3>5. u \in PrintedMods
      BY <3>3, <3>4
    <3>6. PrintMod(u)[1].lead \in ModLeads /\ Len(PrintMod(u)) \in {2, 3}
      BY <3>5, PrintShape DEF Shape
    <3>7. full[q] = PrintMod(u)[1]
      <4>1. PICK e \in 1 .. Len(mods) : e = k + 1
        BY <3>3
      <4>2. \A j \in 1 .. Len(PrintMod(mods[e])) : full[b[e] + j - 1] = PrintMod(mods[e])[j]
        BY DEF Laid
      <4>3. 1 \in 1 .. Len(PrintMod(u)) /\ q + 1 - 1 = q
        BY <3>2, <3>6
      <4>4. mods[e] = u /\ b[e] = q
        BY <3>1, <3>4, <4>1
      <4>5. full[q + 1 - 1] = PrintMod(u)[1]
        BY <4>2, <4>3, <4>4
      <4>6. QED
        BY <4>3, <4>5
    <3>8. line[q] \in {full[q]} \cup WordCuts(full[q])
      <4>1. q \in 1 .. n - 1 \/ (q = n /\ n > 0)
        BY <1>3, <3>2
      <4>2. QED
        BY <1>2, <4>1
    <3>9. Kind(line[q]) # "Hexadecimal"
      BY <3>6, <3>7, <3>8, CutOfHead
    <3>10. QED
      BY <3>2, <3>9
  <2>3. WholeMod(line, p, m)
    BY <1>6, <2>1, <2>2 DEF WholeMod, n, w
  <2>4. QED
    BY <1>1, <1>6, <2>3 DEF n, p, m
<1>7. CASE ~(p + Len(w) <= n + 1 /\ (p + Len(w) = n + 1 => line[n] = full[n]))
  <2>1. n < p + Len(w)
    BY <1>1, <1>3, <1>4, <1>7
  <2>2. n + 1 - p \in 1 .. Len(w) /\ p + (n + 1 - p) - 1 = n /\ n > 0
    BY <1>1, <1>3, <1>4, <1>5, <2>1
  <2>3. line[n] \in {w[n + 1 - p]} \cup WordCuts(w[n + 1 - p])
    <3>1. PICK j \in 1 .. Len(w) : j = n + 1 - p
      BY <2>2
    <3>2. full[p + j - 1] = w[j] /\ p + j - 1 = n
      BY <1>1, <2>2, <3>1
    <3>3. QED
      BY <1>2, <2>2, <3>1, <3>2
  <2>4. ASSUME NEW j \in 1 .. Len(w), p + j - 1 < n PROVE line[p + j - 1] = w[j]
    <3>1. PICK i : i = p + j - 1
      OBVIOUS
    <3>2. i \in 1 .. n - 1
      BY <1>1, <1>3, <1>4, <2>4, <3>1
    <3>3. QED
      BY <1>1, <1>2, <3>1, <3>2
  <2>5. CutMod(line, p, m)
    BY <2>1, <2>3, <2>4 DEF CutMod, n, w
  <2>6. line # full
    <3> SUFFICES ASSUME line = full PROVE FALSE
      OBVIOUS
    <3>1. n = Len(full)
      BY DEF n
    <3>2. p + Len(w) <= n + 1
      BY <1>1, <1>3, <3>1
    <3>3. QED
      BY <1>7, <3>2
  <2>7. QED
    BY <2>5, <2>6 DEF p, m
<1>8. QED
  BY <1>6, <1>7

\* The parser of a line as a function of the first word, and its value by what
\* is at that word: a modification, none, or the end of the line
IsParse(line, from) == from = [i \in 1 .. Len(line) + 1 |-> Body(line, from, i)]

LEMMA FromMod ==
  ASSUME NEW S, NEW line \in Seq(S), NEW from, IsParse(line, from), NEW p \in DOMAIN line,
         ParseMod(line, p).result = "mod",
         NEW q, q = p + ParseMod(line, p).words, NEW mod, mod = ParseMod(line, p).mod
  PROVE  from[p].ok = from[q].ok /\ from[p].mods = Cons(mod, from[q].mods)
<1>1. p \in 1 .. Len(line) + 1 /\ ~(p > Len(line))
  OBVIOUS
<1>2. from[p] = Body(line, from, p)
  BY <1>1 DEF IsParse
<1> DEFINE r == [ok |-> from[q].ok, mods |-> Cons(mod, from[q].mods)]
<1>3. Body(line, from, p) = r
  BY Zenon, <1>1 DEF Body, Cons
<1>4. r.ok = from[q].ok /\ r.mods = Cons(mod, from[q].mods)
  OBVIOUS
<1> HIDE DEF r
<1>5. QED
  BY <1>2, <1>3, <1>4

LEMMA FromNone ==
  ASSUME NEW S, NEW line \in Seq(S), NEW from, IsParse(line, from), NEW p \in DOMAIN line,
         ParseMod(line, p).result # "mod"
  PROVE  from[p].mods = <<>>
<1>1. p \in 1 .. Len(line) + 1 /\ ~(p > Len(line))
  OBVIOUS
<1>2. from[p] = Body(line, from, p)
  BY <1>1 DEF IsParse
<1> DEFINE r == [ok |-> ParseMod(line, p).result = "stop", mods |-> <<>>]
<1>3. Body(line, from, p) = r
  BY Zenon, <1>1 DEF Body
<1>4. r.mods = <<>>
  OBVIOUS
<1> HIDE DEF r
<1>5. QED
  BY <1>2, <1>3, <1>4

LEMMA FromEnd ==
  ASSUME NEW S, NEW line \in Seq(S), NEW from,
         IsParse(line, from),
         NEW q, q = Len(line) + 1
  PROVE  from[q].ok /\ from[q].mods = <<>>
<1>1. q \in 1 .. Len(line) + 1 /\ q > Len(line)
  OBVIOUS
<1>2. from[q] = Body(line, from, q)
  BY <1>1 DEF IsParse
<1>3. from[q] = Ends(line)
  BY Zenon, <1>1, <1>2 DEF Body
<1>4. Ends(line).ok /\ Ends(line).mods = <<>>
  BY Zenon DEF Ends
<1>5. QED
  BY Zenon, <1>3, <1>4

\* A modification that is all there: what follows decides.
LEMMA FromWhole ==
  ASSUME NEW S, NEW line \in Seq(S), NEW from, IsParse(line, from), NEW p \in DOMAIN line,
         NEW m \in PrintedMods, WholeMod(line, p, m), NEW q, q = p + Len(PrintMod(m))
  PROVE  from[p].ok = from[q].ok /\ from[p].mods = Cons(m, from[q].mods)
<1>1. ParseMod(line, p) = Found(Len(PrintMod(m)), m)
  BY ParseWhole
<1>2. \A words, mod : /\ Found(words, mod).result = "mod" /\ Found(words, mod).words = words
                      /\ Found(words, mod).mod = mod
  BY DEF Found
<1>3. PICK first, n : first = ParseMod(line, p) /\ n = Len(PrintMod(m))
  OBVIOUS
<1>4. first = Found(n, m)
  BY <1>1, <1>3
<1>5. first.result = "mod" /\ first.mod = m /\ first.words = n
  BY <1>2, <1>4
<1>6. ParseMod(line, p).result = "mod"
  BY <1>3, <1>5
<1>7. m = ParseMod(line, p).mod
  BY <1>3, <1>5
<1>8. q = p + ParseMod(line, p).words
  BY <1>3, <1>5
<1>9. PICK mod : mod = ParseMod(line, p).mod
  OBVIOUS
<1>10. from[p].ok = from[q].ok /\ from[p].mods = Cons(mod, from[q].mods)
  BY <1>6, <1>8, <1>9, FromMod
<1>11. mod = m
  BY <1>7, <1>9
<1>12. QED
  BY <1>10, <1>11

\* All that is read from a modification that is cut
CutRead(read, m) == read = <<>> \/ \E mod : SameSort(mod, m) /\ read = <<mod>>

\* One that is cut is the last, if it is one at all.
LEMMA FromCut ==
  ASSUME NEW S, NEW line \in Seq(S), NEW from, IsParse(line, from), NEW p \in DOMAIN line,
         NEW m \in PrintedMods, CutMod(line, p, m)
  PROVE  CutRead(from[p].mods, m)
<1> USE DEF CutRead
<1>1. CASE ParseMod(line, p).result # "mod"
  <2>1. from[p].mods = <<>>
    BY <1>1, FromNone
  <2>2. QED
    BY <2>1
<1>2. CASE ParseMod(line, p).result = "mod"
  <2>1. PICK mod : mod = ParseMod(line, p).mod
    OBVIOUS
  <2>2. PICK q : q = p + ParseMod(line, p).words
    OBVIOUS
  <2>3. /\ SameSort(mod, m)
        /\ q = Len(line) + 1 \/ (q = Len(line) /\ ParseMod(line, q).result # "mod")
    BY Zenon, <1>2, <2>1, <2>2, ParseCut
  <2>4. from[p].mods = Cons(mod, from[q].mods)
    BY <1>2, <2>1, <2>2, FromMod
  <2>5. ASSUME q = Len(line) + 1 PROVE from[q].mods = <<>>
    BY <2>5, FromEnd
  <2>6. ASSUME q = Len(line), ParseMod(line, q).result # "mod" PROVE from[q].mods = <<>>
    <3>1. q \in DOMAIN line
      BY <2>6
    <3>2. QED
      BY <2>6, <3>1, FromNone
  <2>7. from[q].mods = <<>>
    BY <2>3, <2>5, <2>6
  <2>8. from[p].mods = Cons(mod, <<>>)
    BY Zenon, <2>4, <2>7
  <2>9. Cons(mod, <<>>) = <<mod>>
    BY DEF Cons
  <2>10. QED
    BY Zenon, <2>3, <2>8, <2>9
<1>3. QED
  BY <1>1, <1>2

\* From the modification behind it to this one: when it is whole, when it is
\* cut, either way, and, to begin with, behind the last one.
LEMMA ReadsWhole ==
  ASSUME NEW S, NEW mods \in Seq(S), NEW k \in 1 .. Len(mods), NEW line, NEW full, NEW b,
         NEW from, NEW p, NEW q, p = b[k], q = b[k + 1], q <= Len(line) + 1,
         from[p].ok = from[q].ok, from[p].mods = Cons(mods[k], from[q].mods),
         ReadsFrom(line, full, mods, b, from, k + 1)
  PROVE  ReadsFrom(line, full, mods, b, from, k)
<1>1. PICK read, rest : read = from[p].mods /\ rest = from[q].mods
  OBVIOUS
<1>2. /\ from[q].ok => Prefixed(rest, mods, k + 1, line, full)
      /\ line = full => from[q].ok /\ Len(rest) = Len(mods) + 1 - (k + 1)
  BY Zenon, <1>1 DEF ReadsFrom
<1>3. PICK x : x = mods[k]
  OBVIOUS
<1>9. read = Cons(x, rest)
  BY Zenon, <1>1, <1>3
<1>4. ASSUME Prefixed(rest, mods, k + 1, line, full)
      PROVE  Prefixed(read, mods, k, line, full) /\ Len(read) = Len(rest) + 1
  BY <1>3, <1>4, <1>9, PrefixedMore
<1>5. \A n \in Nat : n = Len(mods) + 1 - (k + 1) => n + 1 = Len(mods) + 1 - k
  OBVIOUS
<1>6. Len(mods) + 1 - (k + 1) \in Nat
  OBVIOUS
<1>7. line = full => Len(read) = Len(mods) + 1 - k
  BY Zenon, <1>2, <1>4, <1>5, <1>6
<1>8. QED
  BY Zenon, <1>1, <1>2, <1>4, <1>7 DEF ReadsFrom

LEMMA ReadsCut ==
  ASSUME NEW S, NEW mods \in Seq(S), NEW k \in 1 .. Len(mods), NEW line, NEW full, NEW b,
         NEW from, NEW p, p = b[k], line # full,
         CutRead(from[p].mods, mods[k])
  PROVE  ReadsFrom(line, full, mods, b, from, k)
<1>1. PICK read : read = from[p].mods
  OBVIOUS
<1>2. CASE read = <<>>
  <2>1. Prefixed(<<>>, mods, k, line, full)
    BY PrefixedNone
  <2>2. QED
    BY Zenon, <1>1, <1>2, <2>1 DEF ReadsFrom
<1>3. CASE \E mod : SameSort(mod, mods[k]) /\ read = <<mod>>
  <2>1. Prefixed(read, mods, k, line, full)
    BY <1>3, PrefixedOne
  <2>2. QED
    BY Zenon, <1>1, <2>1 DEF ReadsFrom
<1>4. QED
  BY <1>1, <1>2, <1>3 DEF CutRead

LEMMA ReadsStep ==
  ASSUME NEW S, NEW full \in Seq(Words), NEW line \in Seq(S), IsCut(full, line), NEW from,
         IsParse(line, from),
         NEW mods \in Seq(PrintedMods), NEW b, Laid(mods, full, b),
         NEW k \in 1 .. Len(mods), ReadsFrom(line, full, mods, b, from, k + 1)
  PROVE  ReadsFrom(line, full, mods, b, from, k)
<1>1. b[k] \in 6 .. Len(full) /\ Len(line) \in Nat /\ DOMAIN line = 1 .. Len(line)
  BY DEF Laid
<1>2. CASE b[k] <= Len(line)
  <2>1. b[k] \in DOMAIN line
    BY <1>1, <1>2
  <2>2. \/ WholeMod(line, b[k], mods[k]) /\ b[k + 1] <= Len(line) + 1
        \/ CutMod(line, b[k], mods[k]) /\ line # full
    BY <1>2, WholeOrCut
  <2>3. PICK p, q, m : p = b[k] /\ q = b[k + 1] /\ m = mods[k]
    OBVIOUS
  <2>4. p \in DOMAIN line /\ m \in PrintedMods
    BY <2>1, <2>3
  <2>5. q = p + Len(PrintMod(m))
    BY <2>3 DEF Laid
  <2>6. CASE WholeMod(line, p, m) /\ q <= Len(line) + 1
    <3>1. from[p].ok = from[q].ok /\ from[p].mods = Cons(m, from[q].mods)
      BY <2>4, <2>5, <2>6, FromWhole
    <3>2. QED
      BY <2>3, <2>6, <3>1, ReadsWhole
  <2>7. CASE CutMod(line, p, m) /\ line # full
    <3>1. CutRead(from[p].mods, m)
      BY <2>4, <2>7, FromCut
    <3>2. QED
      BY <2>3, <2>7, <3>1, ReadsCut
  <2>8. QED
    BY <2>2, <2>3, <2>6, <2>7
<1>3. CASE b[k] = Len(line) + 1
  <2>1. line # full
    BY <1>1, <1>3
  <2>2. from[b[k]].mods = <<>>
    BY <1>3, FromEnd
  <2>3. Prefixed(<<>>, mods, k, line, full)
    BY PrefixedNone
  <2>4. Prefixed(from[b[k]].mods, mods, k, line, full)
    BY Zenon, <2>2, <2>3
  <2>5. QED
    BY Zenon, <2>1, <2>4 DEF ReadsFrom
<1>4. CASE b[k] > Len(line) + 1
  <2>1. ~(b[k] <= Len(line) + 1)
    BY <1>1, <1>4
  <2>2. QED
    BY Zenon, <2>1 DEF ReadsFrom
<1>5. QED
  BY <1>1, <1>2, <1>3, <1>4

LEMMA ReadsLast ==
  ASSUME NEW S, NEW full \in Seq(Words), NEW line \in Seq(S), IsCut(full, line), NEW from,
         IsParse(line, from),
         NEW mods \in Seq(PrintedMods), NEW b, Laid(mods, full, b)
  PROVE  ReadsFrom(line, full, mods, b, from, Len(mods) + 1)
<1> DEFINE e == Len(mods) + 1
<1>1. b[e] = Len(full) + 1 /\ Len(line) <= Len(full)
  BY DEF Laid, IsCut
<1>2. e \in 1 .. Len(mods) + 1 /\ Len(mods) + 1 - e = 0
  OBVIOUS
<1>3. Len(full) \in Nat /\ Len(line) \in Nat
  OBVIOUS
<1> HIDE DEF e
<1>4. CASE b[e] <= Len(line) + 1
  <2>1. b[e] = Len(line) + 1
    BY <1>1, <1>3, <1>4
  <2>2. from[b[e]].mods = <<>> /\ from[b[e]].ok
    BY <2>1, FromEnd
  <2>3. Prefixed(<<>>, mods, e, line, full)
    BY <1>2, PrefixedNone
  <2>4. Len(from[b[e]].mods) = Len(mods) + 1 - e
    BY <1>2, <2>2
  <2>5. QED
    BY Zenon, <2>2, <2>3, <2>4 DEF ReadsFrom, e
<1>5. CASE ~(b[e] <= Len(line) + 1)
  BY Zenon, <1>5 DEF ReadsFrom, e
<1>6. QED
  BY <1>4, <1>5

\* What the parser makes of the beginning of a line
LEMMA ModsPrefixed ==
  ASSUME NEW S, NEW full \in Seq(Words), NEW line \in Seq(S), IsCut(full, line), Len(line) >= 5,
         NEW mods \in Seq(PrintedMods), NEW b, Laid(mods, full, b)
  PROVE  /\ ParseMods(line).ok => Prefixed(ParseMods(line).mods, mods, 1, line, full)
         /\ line = full => ParseMods(line).ok /\ Len(ParseMods(line).mods) = Len(mods)
<1>1. PICK from : /\ IsParse(line, from)
                  /\ ParseMods(line) = from[6]
  BY ParserIsDefined DEF IsParse
<1> DEFINE K == Len(mods)
           T == {d \in Nat : d <= K => ReadsFrom(line, full, mods, b, from, K + 1 - d)}
<1>2. K \in Nat
  OBVIOUS
<1>3. 0 \in T
  <2>1. K + 1 - 0 = K + 1
    BY <1>2
  <2>2. ReadsFrom(line, full, mods, b, from, K + 1)
    BY <1>1, ReadsLast
  <2>3. QED
    BY <2>1, <2>2
<1>4. ASSUME NEW d \in T PROVE d + 1 \in T
  <2>1. d \in Nat /\ d + 1 \in Nat
    OBVIOUS
  <2>2. ASSUME d + 1 <= K PROVE ReadsFrom(line, full, mods, b, from, K + 1 - (d + 1))
    <3>1. PICK k \in 1 .. K : k = K + 1 - (d + 1)
      BY <1>2, <2>1, <2>2
    <3>2. k + 1 = K + 1 - d /\ d <= K
      BY <1>2, <2>1, <2>2, <3>1
    <3>3. ReadsFrom(line, full, mods, b, from, k + 1)
      BY <3>2
    <3> HIDE DEF T
    <3>4. ReadsFrom(line, full, mods, b, from, k)
      BY <1>1, <3>3, ReadsStep
    <3>5. QED
      BY <3>1, <3>4
  <2>3. QED
    BY <2>1, <2>2
<1>5. T = Nat
  <2> HIDE DEF T
  <2>1. T \subseteq Nat
    BY DEF T
  <2>2. QED
    BY <1>3, <1>4, <2>1, SetInduction
<1>6. ReadsFrom(line, full, mods, b, from, 1)
  <2>1. K \in T /\ K + 1 - K = 1 /\ K <= K
    <3> HIDE DEF T
    <3>1. QED
      BY <1>2, <1>5
  <2>2. QED
    BY <2>1
<1>7. b[1] = 6 /\ 6 <= Len(line) + 1 /\ K + 1 - 1 = K
  BY <1>2 DEF Laid
<1>8. QED
  BY Zenon, <1>1, <1>6, <1>7 DEF ReadsFrom

\* What is left of the fifth word is no instruction.
LEMMA CutOfInst ==
  ASSUME NEW n, NEW d, NEW u \in {Word("(0x", n, d, ")")} \cup WordCuts(Word("(0x", n, d, ")")),
         Kind(u) = "Instruction"
  PROVE  u = Word("(0x", n, d, ")")
<1> DEFINE w == Word("(0x", n, d, ")")
<1>1. w.lead = "(0x" /\ w.rest = ")"
  BY DEF Word
<1>2. Kind(u) = "Instruction" => u.rest = ")"
  BY Zenon DEF Kind
<1>3. [w EXCEPT !.rest = ""].rest = ""
  BY DEF Word
<1>4. (\A x, y : Word("(0x", x, y, "").rest = "") /\ Plain("(0x").rest = "" /\ Plain("(").rest = ""
  BY DEF Word, Plain
<1>5. LeadCuts("(0x") = {Plain("(")}
  BY DEF LeadCuts
<1> HIDE DEF w
<1>6. \A v \in WordCuts(w) : \/ v = [w EXCEPT !.rest = ""]
                             \/ \E x, y : v \in {Word("(0x", x, y, ""), Plain("(0x"), Plain("(")}
  BY <1>1, <1>5 DEF WordCuts
<1>7. \A v \in WordCuts(w) : v.rest # ")"
  BY <1>3, <1>4, <1>6
<1>8. QED
  BY <1>2, <1>7 DEF w

\* A line that is not refused has its five first words, the last two as they
\* were printed.
LEMMA HeaderRead ==
  ASSUME NEW c, Printable(c), NEW line, IsCut(PrintLine(c), line), ~Refused(line)
  PROVE  /\ Len(line) \in Nat /\ Len(line) >= 5 /\ ParseMods(line).ok
         /\ line[4].num = c.pc /\ line[5].num = c.inst
<1>1. PICK full : full = PrintLine(c)
  OBVIOUS
<1>2. /\ full \in Seq(Words) /\ Len(full) >= 5
      /\ full[4] = Hex(c.pc, 8) /\ full[5] = Word("(0x", c.inst, 8, ")")
  BY <1>1, Layout
<1>3. PICK S : line \in Seq(S)
  BY DEF IsCut
<1>4. Len(line) \in Nat /\ DOMAIN line = 1 .. Len(line)
  BY <1>3
<1>5. IsKind(line, 5, "Instruction") /\ ParseMods(line).ok
  <2>1. 5 \in DOMAIN Header /\ Header[5] = "Instruction"
    BY DEF Header
  <2>2. QED
    BY <2>1 DEF Refused
<1>6. 5 \in 1 .. Len(line) /\ Kind(line[5]) = "Instruction"
  BY <1>4, <1>5 DEF IsKind
<1>7. /\ \A i \in 1 .. Len(line) - 1 : line[i] = full[i]
      /\ Len(line) > 0 => line[Len(line)] \in {full[Len(line)]} \cup WordCuts(full[Len(line)])
  BY <1>1 DEF IsCut
<1>8. line[4] = full[4]
  <2>1. 4 \in 1 .. Len(line) - 1
    BY <1>4, <1>6
  <2>2. QED
    BY <1>7, <2>1
<1>9. line[5] \in {full[5]} \cup WordCuts(full[5])
  <2>1. 5 \in 1 .. Len(line) - 1 \/ (Len(line) = 5 /\ Len(line) > 0)
    BY <1>4, <1>6
  <2>2. QED
    BY <1>7, <2>1
<1>10. line[5] = full[5]
  <2>1. PICK u : u = line[5]
    OBVIOUS
  <2>2. u \in {Word("(0x", c.inst, 8, ")")} \cup WordCuts(Word("(0x", c.inst, 8, ")"))
    BY <1>2, <1>9, <2>1
  <2>3. Kind(u) = "Instruction"
    BY <1>6, <2>1
  <2>4. u = Word("(0x", c.inst, 8, ")")
    BY <2>2, <2>3, CutOfInst
  <2>5. QED
    BY <1>2, <2>1, <2>4
<1>11. Hex(c.pc, 8).num = c.pc /\ Word("(0x", c.inst, 8, ")").num = c.inst
  BY DEF Hex, Word
<1>12. QED
  BY <1>2, <1>4, <1>5, <1>6, <1>8, <1>10, <1>11

\* A line of which the beginning is left is refused, or read as a prefix of its
\* commit, of which only the last write may differ.
LEMMA CutLineRead ==
  ASSUME NEW c, Printable(c), NEW line, IsCut(PrintLine(c), line), ~Refused(line)
  PROVE  /\ Parse(line).pc = c.pc /\ Parse(line).inst = c.inst
         /\ Prefixed(Parse(line).mods, c.mods, 1, line, PrintLine(c))
<1>1. PICK full : full = PrintLine(c)
  OBVIOUS
<1>2. PICK mods : mods = c.mods
  OBVIOUS
<1>3. full \in Seq(Words) /\ \E b : Laid(mods, full, b)
  BY <1>1, <1>2, Layout
<1>4. PICK b : Laid(mods, full, b)
  BY <1>3
<1>5. mods \in Seq(PrintedMods)
  BY <1>2 DEF Printable
<1>6. IsCut(full, line)
  BY <1>1
<1>7. PICK S : line \in Seq(S)
  BY DEF IsCut
<1>8. Len(line) >= 5 /\ ParseMods(line).ok /\ line[4].num = c.pc /\ line[5].num = c.inst
  BY HeaderRead
<1>9. Prefixed(ParseMods(line).mods, mods, 1, line, full)
  BY <1>3, <1>4, <1>5, <1>6, <1>7, <1>8, ModsPrefixed
<1>10. /\ Parse(line).pc = line[4].num /\ Parse(line).inst = line[5].num
       /\ Parse(line).mods = ParseMods(line).mods
  BY DEF Parse
<1>11. QED
  BY <1>1, <1>2, <1>8, <1>9, <1>10

\* The shadow states keep their shape whatever the logs write to them.
ShapeInv ==
  /\ DOMAIN csr = Sources
  /\ \A s \in Sources : csr[s] = [f \in Fields |-> csr[s][f]]
  /\ mask \in [Sources -> SUBSET Regs]

\* Before its end the replay has reported nothing.
Undecided == phase \notin {"report", "failed"} => report = "none"

\* What is kept: the shape, and the property itself.
ReportInv == ShapeInv /\ Undecided /\ DifferenceExplained

\* There is an exit entry only after the program has stored its code, which is
\* 0 or 1, and an exit code of source 2 only from such an entry.
ExitEntry(entry) == entry.kind = "exit" => ended = "exit" /\ entry.code \in {0, 1}

\* What is known of both logs and of the exit codes that the replay has read
ExitInv ==
  /\ \E S : dut \in Seq(S)
  /\ \A k \in DOMAIN dut : ExitEntry(dut[k])
  /\ DOMAIN exit = Sources
  /\ exit[1] \in {None, MaxCode}
  /\ exit[2] # None => ended = "exit" /\ exit[2] \in {0, 1}

\* What "same" says of the run of Pokedex
SameMeansExited == report = "same" => ended = "exit" /\ exit[2] = 0

\* The inductive invariant of SameOnlyAfterExit
SameInv == Undecided /\ ExitInv /\ SameMeansExited

-----------------------------------------------------------------------------
(* The replay *)

\* The steps of Cosim that are none of the replay leave it alone; Load begins
\* it or fails.
LEMMA CosimCases ==
  ASSUME [CosimNext]_cosimVars
  PROVE  \/ UNCHANGED vars
         \/ Load
         \/ Replay
<1>1. CASE \E i \in Program, j \in Insts \cup {Inst("spin", 0)} : Step(i, j)
  BY <1>1 DEF Step
<1>2. CASE \E i \in Program : RunOn(i)
  BY <1>2 DEF RunOn
<1>3. CASE Crash \/ StopSpike
  BY <1>3 DEF Crash, StopSpike
<1>4. CASE UNCHANGED cosimVars
  BY <1>4 DEF cosimVars
<1>5. QED
  BY <1>1, <1>2, <1>3, <1>4 DEF CosimNext

\* Load and the replay change the variables of DiffTest by its own actions.
LEMMA ReplayCases ==
  ASSUME Load \/ Replay
  PROVE  \/ Fail \/ GetResetPc \/ SkipBootRom \/ ResetSpike \/ ResetPokedex
         \/ UNCHANGED vars
         \/ \E s \in Sources : \E p : BeginCommit(s, p)
         \/ \E s \in Sources, r \in Regs : \E v : WriteReg(s, r, v)
         \/ \E s \in Sources : \E name, v : WriteCsr(s, name, v)
         \/ \E s \in Sources : EndCommit(s)
         \/ SpikeEnds
         \/ at[2] \in DOMAIN dut /\ dut[at[2]].kind = "exit" /\ PokedexExits(dut[at[2]].code)
         \/ JudgeRunning \/ JudgeExit
<1>1. CASE Load
  BY <1>1 DEF Load
<1>2. CASE Replay
  <2>1. CASE ReplayReset
    BY <2>1 DEF ReplayReset, SpikeEndsInReset
  <2>2. CASE \E s \in Sources : ReplayCommit(s)
    <3>1. PICK s \in Sources : ReplayCommit(s)
      BY <2>2
    <3>2. CASE BeginCommit(s, Current(s).pc)
      BY <3>2
    <3>3. CASE ReplayWrite(s, Current(s).mods[next])
      <4> DEFINE m == Current(s).mods[next]
      <4>1. CASE m.kind \in {"x", "f", "v"}
        <5>1. m.kind \in Regs
          BY <4>1, CosimAssumption DEF X1, F1, V1
        <5>2. WriteReg(s, m.kind, m.bits) \/ Fail
          BY <3>3, <4>1 DEF ReplayWrite
        <5>3. QED
          BY <5>1, <5>2
      <4>2. CASE m.kind = "csr"
        BY <3>3, <4>2 DEF ReplayWrite
      <4>3. CASE m.kind \notin {"x", "f", "v", "csr"}
        BY <3>3, <4>3 DEF ReplayWrite
      <4>4. QED
        BY <4>1, <4>2, <4>3
    <3>4. CASE EndCommit(s)
      BY <3>4
    <3>5. QED
      BY <3>1, <3>2, <3>3, <3>4 DEF ReplayCommit
  <2>3. CASE ReplayEnd
    BY <2>3 DEF ReplayEnd, Has, Current, PokedexLogBroken
  <2>4. CASE Judge
    BY <2>4 DEF Judge
  <2>5. QED
    BY <1>2, <2>1, <2>2, <2>3, <2>4 DEF Replay
<1>3. QED
  BY <1>1, <1>2

-----------------------------------------------------------------------------
(* The report of a difference *)

\* The states at the start, and a step of the replay
LEMMA ReportInit == CosimInit => ReportInv
<1> SUFFICES ASSUME CosimInit PROVE ReportInv
  OBVIOUS
<1>1. csr = [s \in Sources |-> [f \in Fields |-> 0]]
  BY DEF CosimInit, Init
<1>2. DOMAIN csr = Sources /\ \A s \in Sources : csr[s] = [f \in Fields |-> csr[s][f]]
  BY <1>1
<1>3. mask \in [Sources -> SUBSET Regs]
  BY DEF CosimInit, Init
<1>4. report = "none"
  BY DEF CosimInit, Init
<1>5. QED
  BY <1>2, <1>3, <1>4 DEF ReportInv, ShapeInv, Undecided, DifferenceExplained

LEMMA ShapeNext == ShapeInv /\ (Load \/ Replay) => ShapeInv'
<1> SUFFICES ASSUME ShapeInv, Load \/ Replay PROVE ShapeInv'
  OBVIOUS
<1>1. CASE UNCHANGED <<csr, mask>>
  BY <1>1 DEF ShapeInv
<1>2. CASE \E s \in Sources : \E p : BeginCommit(s, p)
  <2>1. csr' = csr /\ \E s \in Sources : mask' = [mask EXCEPT ![s] = {}]
    BY <1>2 DEF BeginCommit
  <2>2. QED
    BY <2>1 DEF ShapeInv
<1>3. CASE \E s \in Sources, r \in Regs : \E v : WriteReg(s, r, v)
  <2>1. csr' = csr /\ \E s \in Sources, r \in Regs : mask' = [mask EXCEPT ![s] = @ \cup {r}]
    BY <1>3 DEF WriteReg
  <2>2. QED
    BY <2>1 DEF ShapeInv
<1>4. CASE \E s \in Sources : \E name, v : WriteCsr(s, name, v)
  <2> PICK s \in Sources : \E name, v : WriteCsr(s, name, v)
    BY <1>4
  <2>1. PICK name, v : WriteCsr(s, name, v)
    OBVIOUS
  <2>2. CASE Accepted(name, v)
    <3> DEFINE field == FieldOf(name)
               value == Merged(name, csr[s][field], v)
    <3>1. mask' = mask /\ csr' = [csr EXCEPT ![s][field] = value]
      BY <2>1, <2>2 DEF WriteCsr
    <3> HIDE DEF field, value
    <3>2. DOMAIN csr' = Sources
      BY <3>1 DEF ShapeInv
    <3>3. ASSUME NEW t \in Sources
          PROVE  csr'[t] = [f \in Fields |-> csr'[t][f]]
      <4>1. csr'[t] = IF t = s THEN [csr[s] EXCEPT ![field] = value] ELSE csr[t]
        BY <3>1 DEF ShapeInv
      <4>2. csr[t] = [f \in Fields |-> csr[t][f]]
        BY DEF ShapeInv
      <4>3. QED
        BY <4>1, <4>2
    <3>4. QED
      BY <3>1, <3>2, <3>3 DEF ShapeInv
  <2>3. CASE ~Accepted(name, v)
    BY <2>1, <2>3 DEF WriteCsr, Fail, states, ShapeInv
  <2>4. QED
    BY <2>2, <2>3
<1>5. CASE JudgeRunning
  BY <1>5 DEF JudgeRunning, states, ShapeInv
<1>6. Fail => UNCHANGED <<csr, mask>>
  BY DEF Fail, states
<1>7. /\ GetResetPc => UNCHANGED <<csr, mask>>
      /\ SkipBootRom \/ ResetSpike \/ ResetPokedex => UNCHANGED <<csr, mask>>
  BY <1>6 DEF GetResetPc, SkipBootRom, ResetSpike, ResetPokedex, states
<1>8. /\ (\E s \in Sources : EndCommit(s)) => UNCHANGED <<csr, mask>>
      /\ SpikeEnds => UNCHANGED <<csr, mask>>
      /\ \A code : PokedexExits(code) => UNCHANGED <<csr, mask>>
      /\ JudgeExit => UNCHANGED <<csr, mask>>
      /\ UNCHANGED vars => UNCHANGED <<csr, mask>>
  BY DEF EndCommit, SpikeEnds, PokedexExits, JudgeExit, states, vars
<1>9. QED
  BY <1>1, <1>2, <1>3, <1>4, <1>5, <1>6, <1>7, <1>8, ReplayCases

\* Every action of the replay but the two judgements leaves the report alone,
\* and begins without one, unless it only fails.
LEMMA ReportOnce ==
  ASSUME Undecided, Load \/ Replay
  PROVE  /\ Undecided'
         /\ \/ JudgeRunning \/ JudgeExit
            \/ report' = report /\ (report = "none" \/ UNCHANGED <<pc, regs, csr, exit>>)
<1>1. CASE Fail
  BY <1>1 DEF Fail, states, Undecided
<1>2. CASE UNCHANGED vars
  BY <1>2 DEF vars, Undecided
<1>3. CASE GetResetPc \/ SkipBootRom \/ ResetSpike \/ ResetPokedex
  BY <1>1, <1>3 DEF GetResetPc, SkipBootRom, ResetSpike, ResetPokedex, states, Undecided
<1>4. CASE \E s \in Sources : \E p : BeginCommit(s, p)
  BY <1>4 DEF BeginCommit, Stepping, Writing, Undecided, Sources
<1>5. CASE \E s \in Sources, r \in Regs : \E v : WriteReg(s, r, v)
  BY <1>5 DEF WriteReg, Writing, Undecided, Sources
<1>6. CASE \E s \in Sources : \E name, v : WriteCsr(s, name, v)
  BY <1>1, <1>6 DEF WriteCsr, Writing, Undecided, Sources
<1>7. CASE \E s \in Sources : EndCommit(s)
  BY <1>7 DEF EndCommit, Writing, After, Undecided, Sources
<1>8. CASE SpikeEnds \/ PokedexExits(dut[at[2]].code)
  BY <1>8 DEF SpikeEnds, PokedexExits, Undecided
<1>9. CASE JudgeRunning \/ JudgeExit
  BY <1>9 DEF JudgeRunning, JudgeExit, Undecided
<1>10. QED
  BY <1>1, <1>2, <1>3, <1>4, <1>5, <1>6, <1>7, <1>8, <1>9, ReplayCases

\* A judgement reports the states as they are; no other step changes what has
\* been reported.
LEMMA ReportNext ==
  ASSUME Fields \subseteq ListedCsrs, ReportInv, [CosimNext]_cosimVars
  PROVE  ReportInv'
<1>1. CASE UNCHANGED vars
  BY <1>1 DEF vars, ReportInv, ShapeInv, Undecided, DifferenceExplained, DiffNotes
<1>2. CASE Load \/ Replay
  <2>1. ShapeInv' /\ Undecided'
    BY <1>2, ShapeNext, ReportOnce DEF ReportInv
  <2>2. CASE JudgeRunning
    <3> SUFFICES ASSUME report' = "different", pc[1] = pc[2]
                 PROVE  DiffNotes' # {}
      BY <2>1, <2>2 DEF ReportInv, DifferenceExplained, JudgeRunning, states
    <3>1. /\ ~compare(combine(mask[1], mask[2]))
          /\ UNCHANGED <<pc, regs, csr>>
      BY <2>2 DEF JudgeRunning, states, ReportInv, Undecided
    <3>2. DiffNotes' = DiffNotes
      BY <3>1 DEF DiffNotes
    <3>3. CASE \E r \in mask[1] \cup mask[2] : regs[1][r] # regs[2][r]
      <4>1. mask[1] \cup mask[2] \subseteq Regs
        BY DEF ReportInv, ShapeInv, Sources
      <4>2. QED
        BY <3>2, <3>3, <4>1 DEF DiffNotes
    <3>4. CASE csr[1] # csr[2]
      <4>1. \E f \in Fields : csr[1][f] # csr[2][f]
        BY <3>4 DEF ReportInv, ShapeInv, Sources
      <4>2. QED
        BY <3>2, <4>1 DEF DiffNotes
    <3>5. QED
      BY <3>1, <3>3, <3>4 DEF compare, combine
  <2>3. CASE JudgeExit
    BY <2>1, <2>3 DEF ReportInv, DifferenceExplained, JudgeExit, Sources
  <2>4. CASE report' = report /\ (report = "none" \/ UNCHANGED <<pc, regs, csr, exit>>)
    BY <2>1, <2>4 DEF ReportInv, DifferenceExplained, DiffNotes
  <2>5. QED
    BY <1>2, <2>2, <2>3, <2>4, ReportOnce DEF ReportInv
<1>3. QED
  BY <1>1, <1>2, CosimCases

\* When the replay stops at a difference of the states, the report names what
\* differs, provided that the list of CSRs in pretty_print_diff has every
\* field of CsrState, as the comment in front of it demands: the comparison of
\* the marked registers finds nothing that the report leaves out.
THEOREM DifferencesAreExplained ==
  ASSUME Fields \subseteq ListedCsrs
  PROVE  CosimSpec => []DifferenceExplained
<1>1. CosimInit => ReportInv
  BY ReportInit
<1>2. ReportInv /\ [CosimNext]_cosimVars => ReportInv'
  BY ReportNext
<1>3. ReportInv => DifferenceExplained
  BY DEF ReportInv
<1>4. QED
  BY <1>1, <1>2, <1>3, PTL DEF CosimSpec

-----------------------------------------------------------------------------
(* The verdict "same" and the run *)

\* A log of entries that tell the truth about the exit is such a log without
\* its end, and with entries of that kind appended.
LEMMA SeqCut ==
  ASSUME NEW S, NEW s \in Seq(S), NEW n \in 0 .. Len(s)
  PROVE  /\ SubSeq(s, 1, n) \in Seq(S)
         /\ \A k \in DOMAIN SubSeq(s, 1, n) : k \in DOMAIN s /\ SubSeq(s, 1, n)[k] = s[k]
OBVIOUS

LEMMA SeqAppend ==
  ASSUME NEW S, NEW s \in Seq(S), NEW T, NEW t \in Seq(T)
  PROVE  /\ s \o t \in Seq(S \cup T)
         /\ \A k \in DOMAIN (s \o t) :
              (s \o t)[k] \in {s[i] : i \in DOMAIN s} \cup {t[i] : i \in DOMAIN t}
<1>1. s \in Seq(S \cup T) /\ t \in Seq(S \cup T)
  OBVIOUS
<1>2. s \o t \in Seq(S \cup T)
  BY <1>1
<1>3. ASSUME NEW k \in DOMAIN (s \o t)
      PROVE  (s \o t)[k] \in {s[i] : i \in DOMAIN s} \cup {t[i] : i \in DOMAIN t}
  <2>1. k \in 1 .. Len(s) + Len(t) /\ Len(s) \in Nat /\ Len(t) \in Nat
    BY <1>1, <1>3
  <2>2. CASE k <= Len(s)
    BY <1>1, <2>1, <2>2
  <2>3. CASE k > Len(s)
    <3>1. (s \o t)[k] = t[k - Len(s)] /\ k - Len(s) \in DOMAIN t
      BY <1>1, <2>1, <2>3
    <3>2. QED
      BY <3>1
  <2>4. QED
    BY <2>1, <2>2, <2>3
<1>4. QED
  BY <1>2, <1>3

\* Executing an instruction logs an exit only if it is one.
LEMMA StepLogs ==
  ASSUME NEW h, NEW j \in Insts \cup {Inst("spin", 0)}
  PROVE  /\ \E T : DutLogs(h, j) \in Seq(T)
         /\ \A k \in DOMAIN DutLogs(h, j) :
              DutLogs(h, j)[k].kind = "exit" => j.op = "exit" /\ DutLogs(h, j)[k].code \in {0, 1}
<1> DEFINE one == Entry("commit", hart[2].pc, DutWrites(h, j), 0)
           two == Entry("exit", 0, <<>>, j.v)
<1>1. j.v \in {0, 1}
  BY DEF Insts, Inst
<1>2. one.kind = "commit" /\ two.code = j.v
  BY DEF Entry
<1> HIDE DEF one, two
<1> DEFINE rest == IF j.op = "exit" THEN <<two>> ELSE <<>>
<1>3. DutLogs(h, j) = <<one>> \o rest
  BY DEF DutLogs, one, two
<1>4. <<one>> \in Seq({one}) /\ \A i \in DOMAIN <<one>> : <<one>>[i] = one
  OBVIOUS
<1>5. rest \in Seq({two}) /\ \A i \in DOMAIN rest : j.op = "exit" /\ rest[i] = two
  <2>1. CASE j.op = "exit"
    <3>1. rest = <<two>>
      BY <2>1
    <3>2. QED
      BY <2>1, <3>1
  <2>2. CASE j.op # "exit"
    <3>1. rest = <<>>
      BY <2>2
    <3>2. QED
      BY <3>1
  <2>3. QED
    BY <2>1, <2>2
<1> HIDE DEF rest
<1>6. /\ DutLogs(h, j) \in Seq({one} \cup {two})
      /\ \A k \in DOMAIN DutLogs(h, j) : DutLogs(h, j)[k] \in
           {<<one>>[i] : i \in DOMAIN <<one>>} \cup {rest[i] : i \in DOMAIN rest}
  BY <1>3, <1>4, <1>5, SeqAppend
<1>7. ASSUME NEW k \in DOMAIN DutLogs(h, j)
      PROVE  DutLogs(h, j)[k] = one \/ (j.op = "exit" /\ DutLogs(h, j)[k] = two)
  BY <1>4, <1>5, <1>6
<1>8. QED
  BY <1>1, <1>2, <1>6, <1>7

\* It holds at the start, and every step keeps it.
LEMMA SameInit == CosimInit => SameInv
<1> SUFFICES ASSUME CosimInit PROVE SameInv
  OBVIOUS
<1> DEFINE first == Entry("reset", ResetPc, <<>>, 0)
<1>1. dut = <<first>> /\ first.kind = "reset"
  BY DEF CosimInit, Entry
<1>2. exit = [s \in Sources |-> None] /\ report = "none"
  BY DEF CosimInit, Init
<1> HIDE DEF first
<1>3. dut \in Seq({first}) /\ \A k \in DOMAIN dut : dut[k] = first
  BY <1>1
<1>4. ExitInv
  BY <1>1, <1>2, <1>3 DEF ExitInv, ExitEntry, Sources
<1>5. QED
  BY <1>2, <1>4 DEF SameInv, Undecided, SameMeansExited

LEMMA SameNext ==
  ASSUME Policy = "SuccessSource2", MaxCode \notin {0, 1}, SameInv, [CosimNext]_cosimVars
  PROVE  SameInv'
<1>1. CASE \E i \in Program, j \in Insts \cup {Inst("spin", 0)} : Step(i, j)
  <2>1. PICK i \in Program, j \in Insts \cup {Inst("spin", 0)} : Step(i, j)
    BY <1>1
  <2>2. PICK d : dut' = dut \o DutLogs(d, j)
    BY <2>1 DEF Step
  <2>3. /\ ended = "no" /\ ended' = IF j.op = "exit" THEN "exit" ELSE "no"
        /\ UNCHANGED <<phase, exit, report>>
    BY <2>1 DEF Step, vars
  <2>4. /\ exit[2] = None /\ report # "same"
        /\ \A k \in DOMAIN dut : dut[k].kind # "exit"
    BY <2>3 DEF SameInv, ExitInv, ExitEntry, SameMeansExited
  <2>5. PICK S : dut \in Seq(S)
    BY DEF SameInv, ExitInv
  <2>6. PICK T : DutLogs(d, j) \in Seq(T)
    BY StepLogs
  <2>7. /\ dut' \in Seq(S \cup T)
        /\ \A k \in DOMAIN dut' : dut'[k] \in {dut[i1] : i1 \in DOMAIN dut}
             \cup {DutLogs(d, j)[i1] : i1 \in DOMAIN DutLogs(d, j)}
    BY <2>2, <2>5, <2>6, SeqAppend
  <2>8. \A k \in DOMAIN dut' : dut'[k].kind = "exit" => j.op = "exit" /\ dut'[k].code \in {0, 1}
    BY <2>4, <2>7, StepLogs
  <2>9. ExitInv'
    BY <2>3, <2>4, <2>7, <2>8 DEF SameInv, ExitInv, ExitEntry
  <2>10. QED
    BY <2>3, <2>4, <2>9 DEF SameInv, Undecided, SameMeansExited
<1>2. CASE Crash
  <2>1. /\ ended = "no" /\ ended' = "crash"
        /\ UNCHANGED <<phase, exit, report>>
        /\ \E n \in 0 .. Len(dut) : dut' = SubSeq(dut, 1, n)
    BY <1>2 DEF Crash, vars
  <2>2. /\ exit[2] = None /\ report # "same"
        /\ \A k \in DOMAIN dut : dut[k].kind # "exit"
    BY <2>1 DEF SameInv, ExitInv, ExitEntry, SameMeansExited
  <2>3. PICK S : dut \in Seq(S)
    BY DEF SameInv, ExitInv
  <2>4. /\ dut' \in Seq(S)
        /\ \A k \in DOMAIN dut' : dut'[k].kind # "exit"
    BY <2>1, <2>2, <2>3, SeqCut
  <2>5. ExitInv'
    BY <2>1, <2>2, <2>4 DEF SameInv, ExitInv, ExitEntry
  <2>6. QED
    BY <2>1, <2>2, <2>5 DEF SameInv, Undecided, SameMeansExited
<1>3. CASE (\E i \in Program : RunOn(i)) \/ StopSpike \/ UNCHANGED cosimVars
  <2>1. UNCHANGED <<phase, exit, report, dut, ended>>
    BY <1>3 DEF RunOn, StopSpike, cosimVars, runVars, vars
  <2>2. QED
    BY <2>1 DEF SameInv, Undecided, ExitInv, ExitEntry, SameMeansExited
<1>4. CASE Load \/ Replay
  <2>1. UNCHANGED <<dut, ended>>
    BY <1>4 DEF Load, Replay, runVars
  <2>2. Undecided'
    BY <1>4, ReportOnce DEF SameInv
  <2>3. DOMAIN exit' = Sources /\ exit'[1] \in {None, MaxCode}
        /\ (exit'[2] # None => ended = "exit" /\ exit'[2] \in {0, 1})
    <3>1. CASE UNCHANGED exit
      BY <3>1 DEF SameInv, ExitInv
    <3>2. CASE SpikeEnds
      <4>1. exit' = [exit EXCEPT ![1] = MaxCode]
        BY <3>2 DEF SpikeEnds
      <4>2. QED
        BY <4>1 DEF SameInv, ExitInv, Sources
    <3>3. CASE /\ at[2] \in DOMAIN dut /\ dut[at[2]].kind = "exit"
               /\ PokedexExits(dut[at[2]].code)
      <4>1. exit' = [exit EXCEPT ![2] = dut[at[2]].code]
        BY <3>3 DEF PokedexExits
      <4>2. ended = "exit" /\ dut[at[2]].code \in {0, 1}
        BY <3>3 DEF SameInv, ExitInv, ExitEntry
      <4>3. QED
        BY <4>1, <4>2 DEF SameInv, ExitInv, Sources
    <3>4. Fail \/ UNCHANGED vars => UNCHANGED exit
      BY DEF Fail, vars
    <3>5. GetResetPc \/ SkipBootRom \/ ResetSpike \/ ResetPokedex => UNCHANGED exit
      BY <3>4 DEF GetResetPc, SkipBootRom, ResetSpike, ResetPokedex
    <3>6. /\ (\E s \in Sources : \E p : BeginCommit(s, p)) => UNCHANGED exit
          /\ (\E s \in Sources, r \in Regs : \E v : WriteReg(s, r, v)) => UNCHANGED exit
          /\ (\E s \in Sources : EndCommit(s)) => UNCHANGED exit
      BY DEF BeginCommit, WriteReg, EndCommit
    <3>7. (\E s \in Sources : \E name, v : WriteCsr(s, name, v)) => UNCHANGED exit
      BY <3>4 DEF WriteCsr
    <3>8. JudgeRunning \/ JudgeExit => UNCHANGED exit
      BY DEF JudgeRunning, JudgeExit
    <3>9. QED
      BY <1>4, <3>1, <3>2, <3>3, <3>4, <3>5, <3>6, <3>7, <3>8, ReplayCases
  <2>4. ExitInv'
    BY <2>1, <2>3 DEF SameInv, ExitInv, ExitEntry
  <2>5. SameMeansExited'
    <3>1. CASE JudgeRunning
      BY <2>1, <3>1 DEF JudgeRunning, SameInv, Undecided, SameMeansExited
    <3>2. CASE JudgeExit
      <4>1. report' = "same" => exit[2] = 0
        BY <3>2, CosimAssumption DEF JudgeExit, is_same, SameInv, ExitInv, Sources, None
      <4>2. exit' = exit
        BY <3>2 DEF JudgeExit
      <4>3. QED
        BY <2>1, <4>1, <4>2 DEF SameInv, ExitInv, SameMeansExited, None
    <3>3. CASE report' = report /\ (report = "none" \/ UNCHANGED <<pc, regs, csr, exit>>)
      BY <2>1, <3>3 DEF SameInv, SameMeansExited
    <3>4. QED
      BY <1>4, <3>1, <3>2, <3>3, ReportOnce DEF SameInv
  <2>6. QED
    BY <2>2, <2>4, <2>5 DEF SameInv
<1>5. QED
  BY <1>1, <1>2, <1>3, <1>4 DEF CosimNext

\* The first part of VerdictTrue.  With the policy that `pokedex difftest`
\* runs with, the verdict "same" is only given when the program has stored
\* the exit code 0: not for a program that fails, nor for one that is killed,
\* wherever its log is cut, and whatever is left of the log of Spike.
THEOREM SameOnlyAfterExit ==
  ASSUME Policy = "SuccessSource2", MaxCode \notin {0, 1}
  PROVE  CosimSpec => []SameMeansExited
<1>1. CosimInit => SameInv
  BY SameInit
<1>2. SameInv /\ [CosimNext]_cosimVars => SameInv'
  BY SameNext
<1>3. SameInv => SameMeansExited
  BY DEF SameInv
<1>4. QED
  BY <1>1, <1>2, <1>3, PTL DEF CosimSpec

-----------------------------------------------------------------------------
(* The machines and the log of Spike *)

\* The states of a machine, what it may execute, and the commits that Spike
\* prints
HartStates == [pc : Nat, x1 : Nat, v1 : Nat, fflags : Nat, frm : Nat, mscratch : Nat, done : BOOLEAN]
AnyInst == Insts \cup {Inst("spin", 0)}
Commits == [pc : Nat, inst : {1}, mods : Seq(PrintedMods)]

\* What an instruction does stays within these sets.
LEMMA InstValues ==
  ASSUME NEW i \in AnyInst
  PROVE  /\ i.v \in {0, 1}
         /\ i.op \in {"nop", "jump", "li", "vmv", "load", "amo", "mcause", "ecall", "exit",
                      "vli", "fflags", "frm", "mscratch", "spin"}
         /\ i.op = "spin" => i = Inst("spin", 0)
BY DEF AnyInst, Insts, Inst

LEMMA ExecuteType ==
  ASSUME NEW h \in HartStates, NEW i \in AnyInst
  PROVE  Execute(h, i) \in HartStates
<1>1. i.v \in Nat
  BY InstValues
<1>2. TrapPc \in Nat
  BY HandlerAssumption
<1>4. h.pc \in Nat /\ h.x1 \in Nat /\ h.v1 \in Nat /\ h.fflags \in Nat /\ h.frm \in Nat /\ h.mscratch \in Nat
  BY DEF HartStates
<1> DEFINE g == Execute(h, i)
<1> DEFINE p == IF i.op = "ecall" THEN TrapPc ELSE IF i.op = "jump" THEN h.pc + 8
                ELSE IF i.op = "spin" THEN h.pc ELSE h.pc + 4
           a == IF i.op = "li" THEN i.v ELSE IF i.op \in {"load", "amo"} THEN 1 ELSE h.x1
           b == IF i.op = "vli" THEN i.v ELSE IF i.op = "vmv" THEN h.x1 ELSE h.v1
           c == IF i.op = "fflags" THEN i.v ELSE h.fflags
           d == IF i.op = "frm" THEN i.v ELSE h.frm
           e == IF i.op = "mscratch" THEN i.v ELSE h.mscratch
           f == i.op \in {"exit", "spin"}
<1>5. g = [h EXCEPT !.pc = p, !.x1 = a, !.v1 = b, !.fflags = c, !.frm = d, !.mscratch = e, !.done = f]
  BY DEF Execute
<1> HIDE DEF g
<1>6. p \in Nat /\ a \in Nat /\ b \in Nat /\ c \in Nat /\ d \in Nat /\ e \in Nat /\ f \in BOOLEAN
  BY <1>1, <1>2, <1>4
<1> HIDE DEF p, a, b, c, d, e, f
<1>7. g \in HartStates
  BY <1>5, <1>6 DEF HartStates
<1>8. QED
  BY <1>7 DEF g

LEMMA FcsrNat ==
  ASSUME NEW h \in HartStates
  PROVE  Fcsr(h) \in Nat
<1>1. LowRange["fcsr"] \in Nat
  BY CsrAssumption DEF Whole
<1>2. h.frm \in Nat /\ h.fflags \in Nat
  BY DEF HartStates
<1>3. \A a \in Nat, b \in Nat, c \in Nat : a * b + c \in Nat
  OBVIOUS
<1>4. QED
  BY <1>1, <1>2, <1>3 DEF Fcsr

\* What Spike prints of an instruction is of its grammar.
LEMMA GoldModsPrinted ==
  ASSUME NEW h \in HartStates, NEW i \in AnyInst
  PROVE  GoldMods(h, i) \in Seq(PrintedMods)
<1>1. /\ i.v \in Nat /\ h.x1 \in Nat /\ h.v1 \in Nat /\ h.fflags \in Nat /\ h.frm \in Nat
      /\ h.mscratch \in Nat /\ Fcsr(h) \in Nat
  BY InstValues, FcsrNat DEF HartStates
<1>2. XWrite(h) \in PrintedMods /\ VWrite(h) \in PrintedMods
  BY <1>1 DEF XWrite, VWrite, Modification, PrintedMods, RegMods, VRegMods
<1>3. /\ CsrWrite(1, "fflags", h.fflags) \in PrintedMods /\ CsrWrite(2, "frm", h.frm) \in PrintedMods
      /\ CsrWrite(3, "fcsr", Fcsr(h)) \in PrintedMods
  BY <1>1 DEF CsrWrite, Modification, PrintedMods, CsrMods, CsrNames
<1>4. CsrWrite(832, "mscratch", h.mscratch) \in PrintedMods /\ CsrWrite(834, "mcause", 0) \in PrintedMods
  BY <1>1 DEF CsrWrite, Modification, PrintedMods, CsrMods, CsrNames
<1>5. /\ Modification("ctx", 0, "", 8) \in PrintedMods
      /\ Modification("load", 64, "", 0) \in PrintedMods
      /\ Modification("store", 64, "", 1) \in PrintedMods
      /\ Modification("store", 128, "", i.v) \in PrintedMods
  BY <1>1 DEF Modification, PrintedMods, CtxMods, LoadMods, StoreMods
<1> DEFINE P == PrintedMods
<1> HIDE DEF P
<1>6. /\ <<>> \in Seq(P) /\ \A a \in P : <<a>> \in Seq(P)
      /\ \A a \in P, b \in P : <<a, b>> \in Seq(P)
      /\ \A a \in P, b \in P, c \in P : <<a, b, c>> \in Seq(P)
  OBVIOUS
<1>7. DutWrites(h, i) \in Seq(P)
  BY <1>2, <1>3, <1>4, <1>6 DEF DutWrites, P
<1>8. GoldMods(h, i) \in Seq(P)
  BY <1>2, <1>3, <1>4, <1>5, <1>6, <1>7 DEF GoldMods, P
<1>9. QED
  BY <1>8 DEF P

\* So the parser lemmas are about each line of the log.
LEMMA CommitPrintable ==
  ASSUME NEW c \in Commits
  PROVE  Printable(c)
BY DEF Commits, Printable

\* The log of Spike before it is cut
GoldInv ==
  /\ hart \in [Sources -> HartStates]
  /\ gold \in Seq(Commits)

\* A step of Spike adds one such commit or none.
LEMMA GoldLogsType ==
  ASSUME GoldInv, NEW h \in HartStates, NEW i \in AnyInst
  PROVE  GoldLogs(h, i) \in Seq(Commits)
<1> DEFINE mods == GoldMods(h, i)
<1>1. mods \in Seq(PrintedMods)
  BY GoldModsPrinted
<1>2. hart[1].pc \in Nat
  BY DEF GoldInv, Sources, HartStates
<1>3. GoldLogs(h, i) = <<>> \/ GoldLogs(h, i) = <<Commit(hart[1].pc, mods)>>
  BY DEF GoldLogs
<1> HIDE DEF mods
<1>4. Commit(hart[1].pc, mods) \in Commits
  BY <1>1, <1>2 DEF Commit, Commits
<1>5. PICK c : c = Commit(hart[1].pc, mods)
  OBVIOUS
<1>6. <<>> \in Seq(Commits) /\ (c \in Commits => <<c>> \in Seq(Commits))
  OBVIOUS
<1>7. QED
  BY <1>3, <1>4, <1>5, <1>6

LEMMA GoldAppend ==
  ASSUME NEW S, NEW s \in Seq(S), NEW t \in Seq(S)
  PROVE  s \o t \in Seq(S)
OBVIOUS

\* It holds at the start, and every step keeps it.
LEMMA GoldInit == CosimInit => GoldInv
<1> SUFFICES ASSUME CosimInit PROVE GoldInv
  OBVIOUS
<1>1. hart \in [Sources -> HartStates]
  BY DEF CosimInit, HartStates, ResetPc
<1>2. gold \in Seq(Commits)
  <2> DEFINE first == Modification("x", 1, "", 1)
  <2>1. first \in PrintedMods
    BY DEF Modification, PrintedMods, RegMods
  <2>2. gold = <<Commit(BootPc, <<first>>)>>
    BY DEF CosimInit
  <2> HIDE DEF first
  <2>3. <<first>> \in Seq(PrintedMods)
    BY <2>1
  <2>4. Commit(BootPc, <<first>>) \in Commits
    BY <2>3 DEF Commit, Commits, BootPc
  <2>5. QED
    BY <2>2, <2>4
<1>3. QED
  BY <1>1, <1>2 DEF GoldInv

LEMMA GoldNext ==
  ASSUME GoldInv, [CosimNext]_cosimVars
  PROVE  GoldInv'
<1>1. CASE \E i \in Program, j \in Insts \cup {Inst("spin", 0)} : Step(i, j)
  <2>1. PICK i \in AnyInst, j \in AnyInst : Step(i, j)
    BY <1>1 DEF Program, AnyInst
  <2>2. PICK g, d : g = Execute(hart[1], i) /\ d = Execute(hart[2], j)
    OBVIOUS
  <2>3. hart' = [m \in Sources |-> IF m = 1 THEN g ELSE d] /\ gold' = gold \o GoldLogs(g, i)
    BY <2>1, <2>2 DEF Step
  <2>4. g \in HartStates /\ d \in HartStates
    BY <2>2, ExecuteType DEF GoldInv, Sources
  <2>5. GoldLogs(g, i) \in Seq(Commits)
    BY <2>4, GoldLogsType
  <2>6. gold' \in Seq(Commits)
    BY <2>3, <2>5, GoldAppend DEF GoldInv
  <2>7. QED
    BY <2>3, <2>4, <2>6 DEF GoldInv
<1>2. CASE \E i \in Program : RunOn(i)
  <2>1. PICK i \in AnyInst : RunOn(i)
    BY <1>2 DEF Program, AnyInst
  <2>2. PICK g : g = Execute(hart[1], i)
    OBVIOUS
  <2>3. hart' = [hart EXCEPT ![1] = g] /\ gold' = gold \o GoldLogs(g, i)
    BY <2>1, <2>2 DEF RunOn
  <2>4. g \in HartStates
    BY <2>2, ExecuteType DEF GoldInv, Sources
  <2>5. GoldLogs(g, i) \in Seq(Commits)
    BY <2>4, GoldLogsType
  <2>6. gold' \in Seq(Commits)
    BY <2>3, <2>5, GoldAppend DEF GoldInv
  <2>7. QED
    BY <2>3, <2>4, <2>6 DEF GoldInv
<1>3. CASE Crash \/ StopSpike \/ Load \/ Replay \/ UNCHANGED cosimVars
  <2>1. UNCHANGED <<hart, gold>>
    BY <1>3 DEF Crash, StopSpike, Load, Replay, cosimVars, runVars
  <2>2. QED
    BY <2>1 DEF GoldInv
<1>4. QED
  BY <1>1, <1>2, <1>3 DEF CosimNext

-----------------------------------------------------------------------------
(* The log of Spike, cut anywhere *)

\* The log of Spike: the lines of its commits, of which the last ones may be
\* missing and the last one left may be cut.
TextInv ==
  /\ \E S : text \in Seq(S)
  /\ Len(text) <= Len(gold)
  /\ \A k \in 1 .. Len(text) - 1 : text[k] = PrintLine(gold[k])
  /\ Len(text) > 0 => IsCut(PrintLine(gold[Len(text)]), text[Len(text)])
  /\ stage = "run" => text = <<>>

\* The log is stopped at the n-th line or within it, or ends after its last
\* line; nothing changes it afterwards.
LEMMA TextCut ==
  ASSUME GoldInv, NEW n \in DOMAIN gold, NEW line, IsCut(PrintLine(gold[n]), line),
         text' = SubSeq(Lines, 1, n - 1) \o <<line>>, gold' = gold, stage' # "run"
  PROVE  TextInv'
<1> DEFINE front == SubSeq(Lines, 1, n - 1)
<1>1. Len(gold) \in Nat /\ DOMAIN gold = 1 .. Len(gold)
  BY DEF GoldInv
<1>2. PICK S : S = {PrintLine(gold[k]) : k \in DOMAIN gold}
  OBVIOUS
<1>3. Lines = [k \in 1 .. Len(gold) |-> PrintLine(gold[k])]
  BY <1>1 DEF Lines
<1>4. Lines \in Seq(S) /\ Len(Lines) = Len(gold)
  <2>1. \A k \in 1 .. Len(gold) : PrintLine(gold[k]) \in S
    BY <1>1, <1>2
  <2>2. QED
    BY <1>1, <1>3, <2>1
<1>5. n - 1 \in 0 .. Len(Lines) /\ n \in 1 .. Len(gold)
  BY <1>1, <1>4
<1>6. front \in Seq(S) /\ Len(front) = n - 1 /\ \A k \in 1 .. n - 1 : front[k] = Lines[k]
  BY <1>4, <1>5
<1>7. \A k \in 1 .. n - 1 : Lines[k] = PrintLine(gold[k])
  BY <1>3, <1>5
<1> DEFINE last == <<line>>
<1>8. last \in Seq(S \cup {line}) /\ Len(last) = 1 /\ last[1] = line
  OBVIOUS
<1>9. text' = front \o last /\ front \in Seq(S \cup {line})
  BY <1>6
<1> HIDE DEF front, last
<1>10. /\ text' \in Seq(S \cup {line}) /\ Len(text') = Len(front) + Len(last)
       /\ \A i \in 1 .. Len(front) : text'[i] = front[i]
       /\ \A i \in 1 .. Len(last) : text'[Len(front) + i] = last[i]
  <2>1. PICK T, u : T = S \cup {line} /\ u = text'
    OBVIOUS
  <2>2. front \in Seq(T) /\ last \in Seq(T) /\ u = front \o last
    BY <1>8, <1>9, <2>1
  <2>3. /\ u \in Seq(T) /\ Len(u) = Len(front) + Len(last)
        /\ \A i \in 1 .. Len(front) : u[i] = front[i]
        /\ \A i \in 1 .. Len(last) : u[Len(front) + i] = last[i]
    BY <2>2, SeqConcat
  <2>4. QED
    BY <2>1, <2>3
<1>11. Len(text') = n /\ (n - 1) + 1 = n
  BY <1>5, <1>6, <1>8, <1>10
<1>12. text'[n] = line
  <2>1. 1 \in 1 .. Len(last)
    BY <1>8
  <2>2. text'[Len(front) + 1] = last[1]
    BY <1>10, <2>1
  <2>3. Len(front) + 1 = n
    BY <1>6, <1>11
  <2>4. QED
    BY <1>8, <2>2, <2>3
<1>13. \A k \in 1 .. n - 1 : text'[k] = PrintLine(gold[k])
  BY <1>6, <1>7, <1>10
<1>14. IsCut(PrintLine(gold'[n]), text'[n])
  BY <1>12
<1>15. \E T : text' \in Seq(T)
  BY <1>10
<1>16. n <= Len(gold')
  BY <1>5
<1>17. \A k \in 1 .. Len(text') - 1 : text'[k] = PrintLine(gold'[k])
  BY <1>11, <1>13
<1>18. IsCut(PrintLine(gold'[Len(text')]), text'[Len(text')])
  BY <1>11, <1>14
<1>19. QED
  BY <1>11, <1>15, <1>16, <1>17, <1>18 DEF TextInv

LEMMA TextLines ==
  ASSUME GoldInv, NEW n \in 0 .. Len(gold), text' = SubSeq(Lines, 1, n), gold' = gold, stage' # "run"
  PROVE  TextInv'
<1>1. Len(gold) \in Nat /\ DOMAIN gold = 1 .. Len(gold)
  BY DEF GoldInv
<1>2. PICK S : S = {PrintLine(gold[k]) : k \in DOMAIN gold}
  OBVIOUS
<1>3. Lines = [k \in 1 .. Len(gold) |-> PrintLine(gold[k])]
  BY <1>1 DEF Lines
<1>4. Lines \in Seq(S) /\ Len(Lines) = Len(gold)
  <2>1. \A k \in 1 .. Len(gold) : PrintLine(gold[k]) \in S
    BY <1>1, <1>2
  <2>2. QED
    BY <1>1, <1>3, <2>1
<1>5. text' \in Seq(S) /\ Len(text') = n /\ \A k \in 1 .. n : text'[k] = Lines[k]
  BY <1>4
<1>6. \A k \in 1 .. n : text'[k] = PrintLine(gold[k])
  BY <1>1, <1>3, <1>5
<1>7. n > 0 => IsCut(PrintLine(gold'[n]), text'[n])
  <2> SUFFICES ASSUME n > 0 PROVE IsCut(PrintLine(gold'[n]), text'[n])
    OBVIOUS
  <2>1. n \in DOMAIN gold /\ n \in 1 .. n
    BY <1>1
  <2>2. PICK c : c = gold[n]
    OBVIOUS
  <2>3. c \in Commits
    BY <2>1, <2>2 DEF GoldInv
  <2>4. Printable(c)
    BY <2>3, CommitPrintable
  <2>5. PrintLine(c) \in Seq(Words)
    BY <2>4, Layout
  <2>6. PICK full : full = PrintLine(c)
    OBVIOUS
  <2>7. IsCut(full, full)
    BY <2>5, <2>6, WholeIsCut
  <2>8. text'[n] = full
    BY <1>6, <2>1, <2>2, <2>6
  <2>9. QED
    BY <2>2, <2>6, <2>7, <2>8
<1>8. n \in Nat /\ \A k \in 1 .. n - 1 : k \in 1 .. n
  OBVIOUS
<1>9. \E T : text' \in Seq(T)
  BY <1>5
<1>10. n <= Len(gold')
  BY <1>1
<1>11. \A k \in 1 .. Len(text') - 1 : text'[k] = PrintLine(gold'[k])
  BY <1>5, <1>6, <1>8
<1>12. Len(text') > 0 => IsCut(PrintLine(gold'[Len(text')]), text'[Len(text')])
  BY <1>5, <1>7
<1>13. QED
  BY <1>5, <1>9, <1>10, <1>11, <1>12 DEF TextInv

LEMMA TextNext ==
  ASSUME GoldInv, TextInv, [CosimNext]_cosimVars
  PROVE  TextInv'
<1>1. CASE stage = "run" /\ stage' = "run" /\ text' = text
  <2>1. text' = <<>>
    BY <1>1 DEF TextInv
  <2>2. text' \in Seq({}) /\ Len(text') = 0
    BY <2>1
  <2>3. Len(gold') \in Nat
    BY GoldNext DEF GoldInv
  <2>4. QED
    BY <2>1, <2>2, <2>3 DEF TextInv
<1>2. CASE UNCHANGED <<text, gold, stage>>
  BY <1>2 DEF TextInv
<1>3. CASE Load \/ Replay
  <2>1. UNCHANGED <<text, gold>> /\ stage' = "replay"
    BY <1>3 DEF Load, Replay, runVars, logVars
  <2>2. QED
    BY <2>1 DEF TextInv
<1>4. CASE StopSpike
  <2>1. stage' # "run" /\ gold' = gold
    BY <1>4 DEF StopSpike, runVars
  <2>2. Len(gold) \in Nat /\ DOMAIN gold = 1 .. Len(gold)
    BY DEF GoldInv
  <2>3. CASE text' = Lines
    <3>1. Lines = [k \in 1 .. Len(gold) |-> PrintLine(gold[k])]
      BY <2>2 DEF Lines
    <3>2. SubSeq(Lines, 1, Len(gold)) = Lines
      BY <2>2, <3>1
    <3>3. PICK n : n = Len(gold)
      OBVIOUS
    <3>4. n \in 0 .. Len(gold) /\ text' = SubSeq(Lines, 1, n)
      BY <2>2, <2>3, <3>2, <3>3
    <3>5. QED
      BY <2>1, <3>4, TextLines
  <2>4. CASE \E n \in DOMAIN gold : text' = SubSeq(Lines, 1, n - 1)
    <3>1. PICK n \in DOMAIN gold : text' = SubSeq(Lines, 1, n - 1)
      BY <2>4
    <3>2. n - 1 \in 0 .. Len(gold)
      BY <2>2
    <3>3. QED
      BY <2>1, <3>1, <3>2, TextLines
  <2>5. CASE \E n \in DOMAIN gold : \E line \in LineCuts(Lines[n]) \ {<<>>} :
               text' = SubSeq(Lines, 1, n - 1) \o <<line>>
    <3>1. PICK n \in DOMAIN gold : \E line \in LineCuts(Lines[n]) \ {<<>>} :
               text' = SubSeq(Lines, 1, n - 1) \o <<line>>
      BY <2>5
    <3>2. PICK line \in LineCuts(Lines[n]) : text' = SubSeq(Lines, 1, n - 1) \o <<line>>
      BY <3>1
    <3>3. Lines[n] = PrintLine(gold[n])
      BY DEF Lines
    <3>4. PICK c, full : c = gold[n] /\ full = PrintLine(c)
      OBVIOUS
    <3>5. c \in Commits
      BY <3>4 DEF GoldInv
    <3>6. Printable(c)
      BY <3>5, CommitPrintable
    <3>7. full \in Seq(Words)
      BY <3>4, <3>6, Layout
    <3>8. line \in LineCuts(full)
      BY <3>2, <3>3, <3>4
    <3>9. IsCut(full, line)
      BY <3>7, <3>8, LineCutIsCut
    <3>10. IsCut(PrintLine(gold[n]), line)
      BY <3>4, <3>9
    <3>11. QED
      BY <2>1, <3>2, <3>10, TextCut
  <2>6. QED
    BY <1>4, <2>3, <2>4, <2>5 DEF StopSpike
<1>5. CASE \/ \E i \in Program, j \in Insts \cup {Inst("spin", 0)} : Step(i, j)
           \/ \E i \in Program : RunOn(i)
           \/ Crash
  BY <1>1, <1>5 DEF Step, RunOn, Crash, logVars
<1>6. QED
  BY <1>2, <1>3, <1>4, <1>5 DEF CosimNext, cosimVars, runVars, logVars

LEMMA TextInit == CosimInit => TextInv
<1> SUFFICES ASSUME CosimInit PROVE TextInv
  OBVIOUS
<1>1. text = <<>> /\ Len(gold) \in Nat
  BY GoldInit DEF CosimInit, GoldInv
<1>2. text \in Seq({}) /\ Len(text) = 0
  BY <1>1
<1>3. QED
  BY <1>1, <1>2 DEF TextInv

\* What is left of the last line is CutLineRead of its commit.
LEMMA PrefixKept == GoldInv /\ TextInv => CutKeepsPrefix
<1> SUFFICES ASSUME GoldInv, TextInv, Len(text) > 0, ~Refused(text[Len(text)])
             PROVE  LET n == Len(text)
                        read == Parse(text[n])
                        was == gold[n]
                    IN /\ read.pc = was.pc /\ read.inst = was.inst
                       /\ Len(read.mods) <= Len(was.mods)
                       /\ \A k \in DOMAIN read.mods :
                            \/ read.mods[k] = was.mods[k]
                            \/ k = Len(read.mods) /\ text[n] # PrintLine(was)
  BY DEF CutKeepsPrefix
<1>1. PICK n : n = Len(text)
  OBVIOUS
<1>2. n \in Nat /\ n > 0 /\ n \in DOMAIN gold
  BY <1>1 DEF TextInv, GoldInv
<1>3. PICK c, line : c = gold[n] /\ line = text[n]
  OBVIOUS
<1>4. c \in Commits
  BY <1>2, <1>3 DEF GoldInv
<1>5. Printable(c)
  BY <1>4, CommitPrintable
<1>6. IsCut(PrintLine(c), line) /\ ~Refused(line)
  BY <1>1, <1>2, <1>3 DEF TextInv
<1>7. /\ Parse(line).pc = c.pc /\ Parse(line).inst = c.inst
      /\ Prefixed(Parse(line).mods, c.mods, 1, line, PrintLine(c))
  BY <1>5, <1>6, CutLineRead
<1>8. PICK mods, was, full : mods = Parse(line).mods /\ was = c.mods /\ full = PrintLine(c)
  OBVIOUS
<1>9. Prefixed(mods, was, 1, line, full) /\ was \in Seq(PrintedMods)
  BY <1>5, <1>7, <1>8 DEF Printable
<1>10. \E T : mods \in Seq(T)
  BY <1>9 DEF Prefixed
<1>11. \A j \in DOMAIN mods : 1 + j - 1 = j
  BY <1>10
<1>12. Len(mods) <= Len(was)
  <2>1. Len(mods) <= Len(was) + 1 - 1 /\ Len(was) \in Nat
    BY <1>9 DEF Prefixed
  <2>2. QED
    BY <2>1
<1>13. \A j \in DOMAIN mods : mods[j] = was[j] \/ (j = Len(mods) /\ line # full)
  BY <1>9, <1>11 DEF Prefixed
<1>14. QED
  BY <1>1, <1>3, <1>7, <1>8, <1>12, <1>13

\* Wherever Spike is stopped, within a word too, backend_from_log refuses what
\* is left of its last line, or reads the pc and the instruction of that commit
\* and a prefix of its writes, of which only the last one read may have another
\* value: for every program, every length of it, and every base in which the
\* log has its numbers (the token loop of spike.rs).
THEOREM CutLinesKeepPrefix == CosimSpec => []CutKeepsPrefix
<1>1. CosimInit => GoldInv /\ TextInv
  BY GoldInit, TextInit
<1>2. GoldInv /\ TextInv /\ [CosimNext]_cosimVars => GoldInv' /\ TextInv'
  BY GoldNext, TextNext
<1>3. GoldInv /\ TextInv => CutKeepsPrefix
  BY PrefixKept
<1>4. QED
  BY <1>1, <1>2, <1>3, PTL DEF CosimSpec

-----------------------------------------------------------------------------
(* What the replay would make of the whole logs *)

\* How many entries the replay has to get through: the commits after the boot
\* ROM, and those of Pokedex without its exit entry
GoldRan == Len(gold) - 1
DutRan == IF ended = "exit" THEN Len(dut) - 2 ELSE Len(dut) - 1

\* A shadow state: the registers and the CSRs of the replay
Shadow(x, v, fcsr, mscratch) ==
  [regs |-> [r \in Regs |-> IF r = X1 THEN x ELSE IF r = V1 THEN v ELSE 0],
   csr |-> [f \in Fields |-> IF f = "fcsr" THEN fcsr ELSE mscratch]]
\* What the shadow of a machine is to be; x1 is known to the replay once the
\* program has written it, the boot ROM being skipped.
View(h, x) == Shadow(x, h.v1, Fcsr(h), h.mscratch)
Known(m) == IF X1 \in touched[m] THEN hart[m].x1 ELSE 0

\* The writes that change it
Effective(m) == m.kind \in Regs \/ (m.kind = "csr" /\ FieldOf(m.name) \in Fields)
Written(old, m) ==
  IF m.kind \in Regs THEN [regs |-> [old.regs EXCEPT ![m.kind] = m.bits], csr |-> old.csr]
  ELSE [regs |-> old.regs,
        csr |-> [old.csr EXCEPT ![FieldOf(m.name)] = Merged(m.name, @, m.bits)]]

\* An entry has one of them at most.
Only(mods, e) ==
  /\ e \in DOMAIN mods /\ Effective(mods[e])
  /\ \A k \in DOMAIN mods : k # e => ~Effective(mods[k])
\* Or it has none, and changes nothing.
Idle(mods) == \A k \in DOMAIN mods : ~Effective(mods[k])
Applies(old, mods, new) ==
  \/ Idle(mods) /\ new = old
  \/ \E e \in DOMAIN mods : Only(mods, e) /\ new = Written(old, mods[e])

\* The shadow states of a log: the first one is that of the reset, the k-th is
\* the one before it with the writes of the k-th entry.
Trace(log, n, shadows) ==
  /\ shadows[1] = Shadow(0, 0, 0, 0)
  /\ \A k \in 2 .. n : Applies(shadows[k - 1], log[k].mods, shadows[k])

\* The registers that it writes
Marks(mods) == {mods[k].kind : k \in {l \in DOMAIN mods : mods[l].kind \in Regs}}

\* Round r finds nothing in the data.
DataAgree(G, D, r) ==
  /\ G[r + 1].csr = D[r + 1].csr
  /\ \A name \in Marks(gold[r + 1].mods) \cup Marks(dut[r + 1].mods) :
       G[r + 1].regs[name] = D[r + 1].regs[name]

-----------------------------------------------------------------------------
(* The run *)

\* G and D are the traces of both logs; while the machines run, the last shadow
\* is what the machine knows of itself.
RunTraces(G, D) ==
  /\ Trace(gold, Len(gold), G)
  /\ ended # "crash" => Trace(dut, DutRan + 1, D)
  /\ ended = "no" => /\ G[Len(gold)] = View(hart[1], Known(1))
                     /\ D[DutRan + 1] = View(hart[2], Known(2))

\* A round that tells the machines apart: by the pcs, by the data, or because
\* Spike is no more at the pc of Pokedex when it gets there.
PcTells(r) == r <= GoldRan /\ gold[r + 1].pc # dut[r + 1].pc
\* By the data of a round that both logs have: a marked register or a CSR
\* differs.  The round of the exit counts only when there was a fault.
DataTells(G, D, r) ==
  /\ r <= GoldRan /\ ~DataAgree(G, D, r)
  /\ r < DutRan \/ "fault" \in causes \/ ended = "no"
\* Spike has not got there, and will not be at that pc.
LateTells(r) ==
  /\ r > GoldRan
  /\ hart[1].pc # dut[r + 1].pc
  /\ (r = GoldRan + 1 /\ hart[1].pc = TrapPc) \/ hart[1].done
\* Some round tells.
Told(G, D) == \E r \in 1 .. DutRan : PcTells(r) \/ DataTells(G, D, r) \/ LateTells(r)

\* Spike has logged less, but the machines run in step.
Ahead ==
  /\ ended = "no" /\ "fault" \in causes
  /\ GoldRan < DutRan /\ hart[1].pc = hart[2].pc

\* What both have written is equal.
Common == \A name \in touched[1] \cap touched[2] : ValueOf(hart[1], name) = ValueOf(hart[2], name)

\* No difference and no trap so far; while the machines run, the logs are
\* equally long, what both have written is equal, and without a fault the pcs
\* are too.
Calm ==
  /\ ~differ /\ "trap" \notin causes
  /\ ended = "no" => /\ GoldRan = DutRan /\ Common
                     /\ "fault" \notin causes =>
                          hart[1].pc = hart[2].pc /\ hart[1].pc <= ResetPc + 8 * DutRan

\* So a run that must not be called "same" has a round that tells, or is about
\* to have one.
RunTells(G, D) == ended # "crash" => Told(G, D) \/ Ahead \/ Calm

\* The replay takes the write as it is: the register is known, or the CSR is and
\* its value is in range, or it is not replayed.
Replayable(m) ==
  \/ m.kind \in Regs /\ m.idx = 1 /\ m.name = ""
  \/ m.kind = "csr" /\ Accepted(m.name, m.bits)
  \/ m.kind \notin Regs \cup {"csr"}

\* The replay takes the entry as it is.
Harmless(mods) == \A l \in DOMAIN mods : Replayable(mods[l])

\* In a run without a cause the logs agree round by round, and every write is
\* one that the replay takes; while the machines run, they are in step.
Clean(G, D) ==
  causes = {} =>
    /\ ended # "crash" /\ GoldRan >= DutRan
    /\ \A r \in 1 .. DutRan : gold[r + 1].pc = dut[r + 1].pc /\ G[r + 1] = D[r + 1]
    /\ \A k \in 2 .. Len(gold) : Harmless(gold[k].mods)
    /\ \A k \in 2 .. DutRan + 1 : Harmless(dut[k].mods)
    /\ ended = "no" =>
         /\ GoldRan = DutRan /\ touched[1] = touched[2] /\ Common
         /\ hart[1].pc = hart[2].pc /\ hart[1].v1 = hart[2].v1
         /\ hart[1].fflags = hart[2].fflags /\ hart[1].frm = hart[2].frm
         /\ hart[1].mscratch = hart[2].mscratch /\ ~hart[1].done
    /\ ended = "exit" => hart[1].done /\ dut[DutRan + 2].code = 0

\* Without a trap the first instruction is logged.
Booted ==
  "trap" \notin causes =>
    /\ Len(gold) >= 2 => gold[2].pc = ResetPc
    /\ Len(gold) = 1 => hart[1].pc = ResetPc

\* The values that the instructions write fit the parts of fcsr.
TwoValued(h) == h \in HartStates /\ h.fflags \in {0, 1} /\ h.frm \in {0, 1}

\* The machines: what they have not written is as it was, and no commit but the
\* first one after the boot ROM is at the reset vector.
HartShape ==
  /\ \A m \in Sources : TwoValued(hart[m]) /\ touched[m] \subseteq {X1, V1, "fcsr", "mscratch"}
  /\ X1 \notin touched[2] => hart[2].x1 = 0
  /\ hart[1].pc >= ResetPc
  /\ (Len(gold) >= 2 \/ hart[1].done) => hart[1].pc > ResetPc
  /\ Len(gold) >= 1 /\ gold[1].pc = BootPc
  /\ \A k \in 2 .. Len(gold) : gold[k].pc >= ResetPc
  /\ \A k \in 3 .. Len(gold) : gold[k].pc > ResetPc

\* The log of Pokedex: a reset, commits, and the exit if there was one
Entries == [kind : {"reset", "commit", "exit"}, pc : Nat, mods : Seq(PrintedMods), code : {0, 1}]

DutShape ==
  /\ dut \in Seq(Entries)
  /\ ended # "crash" =>
       /\ DutRan \in Nat
       /\ DutRan <= MaxInsts
       /\ dut[1] = Entry("reset", ResetPc, <<>>, 0)
       /\ \A k \in 2 .. DutRan + 1 : dut[k].kind = "commit"
       /\ ended = "exit" => DutRan >= 1 /\ dut[DutRan + 2].kind = "exit"

\* What each stage leaves behind
Stages ==
  /\ stage \in {"run", "parse", "replay"} /\ ended \in {"no", "exit", "crash"}
  /\ stage # "run" => ended # "no"
  /\ torn => ended = "crash"
  /\ "cut" \in causes => stage # "run" /\ "fault" \notin causes
  /\ stage # "run" => text = Lines \/ "cut" \in causes
  /\ stage # "replay" => Init /\ at = [m \in Sources |-> 1]

-----------------------------------------------------------------------------
(* The replay *)

\* The k-th line of the log of Spike is whole.
Intact(k) == text[k] = PrintLine(gold[k])

\* Round r of the replay has found no difference.
Passed(G, D, r) ==
  /\ r + 1 <= Len(text)
  /\ gold[r + 1].pc = dut[r + 1].pc
  /\ Intact(r + 1) => DataAgree(G, D, r)

\* The shadow state of source s is the k-th of a trace.
IsShadow(s, shadows, k) == regs[s] = shadows[k].regs /\ csr[s] = shadows[k].csr

\* Between two writes of an entry
Between(s, shadows, k, mods) ==
  /\ next \in 1 .. Len(mods) + 1
  /\ mask[s] = {mods[l].kind : l \in {j \in 1 .. next - 1 : mods[j].kind \in Regs}}
  /\ \/ (\A l \in 1 .. next - 1 : ~Effective(mods[l])) /\ IsShadow(s, shadows, k - 1)
     \/ (\E l \in 1 .. next - 1 : Effective(mods[l])) /\ IsShadow(s, shadows, k)

\* The source has no more entries.
Ended(s) == exit[s] # None
\* The first n rounds have passed.
Rounds(G, D, n) == \A r \in 1 .. n : Passed(G, D, r)

\* Source 1 has replayed the entry before the k-th, and source 2
OneAt(G, k) == at[1] = k /\ (Intact(k - 1) => IsShadow(1, G, k - 1))
TwoAt(D, k) == at[2] = k /\ IsShadow(2, D, k - 1)
\* The k-th entry of source 1 is replayed in this round, or there is none.
OneRead(G, k) == /\ OneAt(G, k + 1) /\ pc[1] = gold[k].pc
                 /\ Intact(k) => mask[1] = Marks(gold[k].mods)
OneDone(G, k) == \/ Ended(1) /\ k > Len(text)
                 \/ ~Ended(1) /\ k <= Len(text) /\ OneRead(G, k)

\* backend_from_log has read every line of the log.
Parsed ==
  /\ DOMAIN parsed = DOMAIN text
  /\ \A k \in DOMAIN text : ~Refused(text[k]) /\ parsed[k] = Parse(text[k])

\* Where the replay is, by its phase: while it skips the boot ROM, while it
\* resets source 2, and in the k-th entry of both sources
InReset1(G, D) ==
  /\ at[2] = 1 /\ resetPc = ResetPc /\ ~Ended(1) /\ ~Ended(2)
  /\ skipped \in Nat /\ at[1] = skipped + 1
  /\ \A j \in 1 .. at[1] - 1 : gold[j].pc # ResetPc
  /\ IsShadow(1, G, 1) /\ IsShadow(2, D, 1)
InReset2(G, D) ==
  /\ at[2] = 1 /\ at[1] = 2 /\ ~Ended(1) /\ ~Ended(2)
  /\ IsShadow(1, G, 1) /\ IsShadow(2, D, 1)
InRound(G, D, k) == k \in 2 .. DutRan + 2 /\ at[2] = k /\ ~Ended(2) /\ Rounds(G, D, k - 2)
InStep1(G, D, k) == InRound(G, D, k) /\ ~Ended(1) /\ OneAt(G, k) /\ TwoAt(D, k)
InWrite1(G, D, k) ==
  /\ InRound(G, D, k) /\ ~Ended(1) /\ TwoAt(D, k)
  /\ at[1] = k /\ k <= Len(text) /\ pc[1] = gold[k].pc
  /\ Intact(k) => Between(1, G, k, gold[k].mods)
InStep2(G, D, k) == InRound(G, D, k) /\ TwoAt(D, k) /\ OneDone(G, k)
InWrite2(G, D, k) ==
  /\ InRound(G, D, k) /\ OneDone(G, k)
  /\ k <= DutRan + 1 /\ pc[2] = dut[k].pc /\ Between(2, D, k, dut[k].mods)
\* Both have replayed the k-th entry, or source 2 has read its exit.
InJudge(G, D, k) ==
  \/ Ended(2) /\ Rounds(G, D, DutRan) /\ exit[2] = dut[DutRan + 2].code
  \/ /\ ~Ended(2) /\ k \in 2 .. DutRan + 1 /\ TwoAt(D, k + 1)
     /\ pc[2] = dut[k].pc /\ mask[2] = Marks(dut[k].mods)
     /\ OneDone(G, k) /\ Rounds(G, D, k - 2)

\* In every phase
ReplayAt(G, D) ==
  /\ phase = "reset1" => InReset1(G, D)
  /\ phase = "reset2" => InReset2(G, D)
  /\ phase = "step1" => InStep1(G, D, at[2])
  /\ phase = "write1" => InWrite1(G, D, at[2])
  /\ phase = "step2" => InStep2(G, D, at[2])
  /\ phase = "write2" => InWrite2(G, D, at[2])
  /\ phase = "judge" => InJudge(G, D, at[2] - 1)
  /\ phase = "report" /\ report = "same" => Rounds(G, D, DutRan)

\* The replay of the log of a program that has exited is at one of these
\* places, unless it has failed.
ReplayFacts(G, D) ==
  stage = "replay" /\ ended = "exit" /\ phase # "failed" =>
    phase # "start" /\ Parsed /\ ReplayAt(G, D)

\* Without a cause it does not fail, nor does it report a difference.
NotWrong == causes = {} => phase # "failed" /\ report # "different"

\* frm above fflags, and the two of them again
LEMMA Parts ==
  ASSUME NEW a \in Nat, NEW b \in Nat, NEW low \in Nat, b < low
  PROVE  (a * low + b) \div low = a /\ (a * low + b) % low = b
<1> DEFINE n == a * low + b
<1>1. n \in Nat /\ low > 0
  <2>1. a * low \in Nat
    OBVIOUS
  <2>2. QED
    BY <2>1
<1>2. PICK q, r : q = n \div low /\ r = n % low
  OBVIOUS
<1>3. q \in Int /\ r \in 0 .. low - 1 /\ n = low * q + r
  <2> HIDE DEF n
  <2>1. QED
    BY <1>1, <1>2
<1>4. q = a
  <2>1. ASSUME q >= a + 1 PROVE FALSE
    <3>1. low * q >= low * (a + 1)
      BY <1>1, <1>3, <2>1
    <3>2. low * (a + 1) = a * low + low
      BY <1>1
    <3>3. a * low \in Nat /\ low * q \in Int
      BY <1>3
    <3>4. PICK x, y : x = a * low /\ y = low * q
      OBVIOUS
    <3>5. x + b = y + r /\ y >= x + low
      BY <1>3, <3>1, <3>2, <3>4
    <3>6. QED
      BY <1>3, <3>3, <3>4, <3>5
  <2>2. ASSUME q + 1 <= a PROVE FALSE
    <3>1. low * a >= low * (q + 1)
      BY <1>1, <1>3, <2>2
    <3>2. low * (q + 1) = low * q + low /\ low * a = a * low
      BY <1>1, <1>3
    <3>3. a * low \in Nat /\ low * q \in Int
      BY <1>3
    <3>4. PICK x, y : x = a * low /\ y = low * q
      OBVIOUS
    <3>5. x + b = y + r /\ x >= y + low
      BY <1>3, <3>1, <3>2, <3>4
    <3>6. QED
      BY <1>3, <3>3, <3>4, <3>5
  <2>3. QED
    BY <1>3, <2>1, <2>2
<1>5. r = b
  <2>1. low * a = a * low /\ a * low \in Nat
    OBVIOUS
  <2>2. PICK x : x = a * low
    OBVIOUS
  <2>3. x + b = x + r
    BY <1>3, <1>4, <2>1, <2>2
  <2>4. QED
    BY <1>3, <2>1, <2>2, <2>3
<1>6. QED
  BY <1>2, <1>4, <1>5

\* The registers and the CSRs of the shadow state
LEMMA Names3 == Regs = {"x", "f", "v"} /\ Fields = {"fcsr", "mscratch"}
BY CosimAssumption DEF X1, F1, V1

\* What each kind of write does to the shadow state
LEMMA WrittenX ==
  ASSUME NEW x, NEW v, NEW f, NEW m, NEW b, NEW w, w.kind = "x", w.bits = b
  PROVE  Effective(w) /\ Written(Shadow(x, v, f, m), w) = Shadow(b, v, f, m)
<1>1. Effective(w)
  BY Names3 DEF Effective
<1>2. [Shadow(x, v, f, m).regs EXCEPT ![w.kind] = w.bits] = Shadow(b, v, f, m).regs
  BY DEF Shadow, X1, V1
<1>3. Shadow(x, v, f, m).csr = Shadow(b, v, f, m).csr
  BY DEF Shadow
<1>4. Shadow(b, v, f, m) = [regs |-> Shadow(b, v, f, m).regs, csr |-> Shadow(b, v, f, m).csr]
  BY DEF Shadow
<1>5. w.kind \in Regs
  BY Names3
<1>6. QED
  BY Zenon, <1>1, <1>2, <1>3, <1>4, <1>5 DEF Written

LEMMA WrittenV ==
  ASSUME NEW x, NEW v, NEW f, NEW m, NEW b, NEW w, w.kind = "v", w.bits = b
  PROVE  Effective(w) /\ Written(Shadow(x, v, f, m), w) = Shadow(x, b, f, m)
<1>1. Effective(w)
  BY Names3 DEF Effective
<1>2. [Shadow(x, v, f, m).regs EXCEPT ![w.kind] = w.bits] = Shadow(x, b, f, m).regs
  BY DEF Shadow, X1, V1
<1>3. Shadow(x, v, f, m).csr = Shadow(x, b, f, m).csr
  BY DEF Shadow
<1>4. Shadow(x, b, f, m) = [regs |-> Shadow(x, b, f, m).regs, csr |-> Shadow(x, b, f, m).csr]
  BY DEF Shadow
<1>5. w.kind \in Regs
  BY Names3
<1>6. QED
  BY Zenon, <1>1, <1>2, <1>3, <1>4, <1>5 DEF Written

LEMMA WrittenScratch ==
  ASSUME NEW x, NEW v, NEW f, NEW m, NEW b, NEW w, w.kind = "csr", w.name = "mscratch", w.bits = b
  PROVE  Effective(w) /\ Written(Shadow(x, v, f, m), w) = Shadow(x, v, f, b)
<1>1. FieldOf("mscratch") = "mscratch" /\ \A old : Merged("mscratch", old, b) = b
  BY DEF FieldOf, Merged, Low, High
<1>2. Effective(w) /\ w.kind \notin Regs
  BY <1>1, Names3 DEF Effective
<1>3. PICK old : old = Shadow(x, v, f, m).csr
  OBVIOUS
<1>4. [old EXCEPT !["mscratch"] = b] = Shadow(x, v, f, b).csr
  BY <1>3, Names3 DEF Shadow
<1>5. [old EXCEPT ![FieldOf(w.name)] = Merged(w.name, @, w.bits)] = [old EXCEPT !["mscratch"] = b]
  BY <1>1
<1>6. Shadow(x, v, f, m).regs = Shadow(x, v, f, b).regs
  BY DEF Shadow
<1>7. Shadow(x, v, f, b) = [regs |-> Shadow(x, v, f, b).regs, csr |-> Shadow(x, v, f, b).csr]
  BY DEF Shadow
<1>8. QED
  BY Zenon, <1>2, <1>3, <1>4, <1>5, <1>6, <1>7 DEF Written

LEMMA WrittenFcsr ==
  ASSUME NEW x, NEW v, NEW f, NEW m, NEW b, NEW w, w.kind = "csr",
         w.name \in {"fcsr", "fflags", "frm"}, Merged(w.name, f, w.bits) = b
  PROVE  Effective(w) /\ Written(Shadow(x, v, f, m), w) = Shadow(x, v, b, m)
<1>1. FieldOf(w.name) = "fcsr"
  BY DEF FieldOf
<1>2. Effective(w) /\ w.kind \notin Regs
  BY <1>1, Names3 DEF Effective
<1>3. PICK old : old = Shadow(x, v, f, m).csr
  OBVIOUS
<1>4. "fcsr" \in DOMAIN old /\ old["fcsr"] = f /\ [old EXCEPT !["fcsr"] = b] = Shadow(x, v, b, m).csr
  BY <1>3, Names3 DEF Shadow
<1>5. [old EXCEPT ![FieldOf(w.name)] = Merged(w.name, @, w.bits)] = [old EXCEPT !["fcsr"] = b]
  BY <1>1, <1>4
<1>6. Shadow(x, v, f, m).regs = Shadow(x, v, b, m).regs
  BY DEF Shadow
<1>7. Shadow(x, v, b, m) = [regs |-> Shadow(x, v, b, m).regs, csr |-> Shadow(x, v, b, m).csr]
  BY DEF Shadow
<1>8. QED
  BY Zenon, <1>2, <1>3, <1>4, <1>5, <1>6, <1>7 DEF Written

-----------------------------------------------------------------------------
(* An instruction and its entries in both logs *)

\* One write among others that are not replayed
OneIn(mods, w, kinds) ==
  /\ \E e \in DOMAIN mods : mods[e] = w /\ \A k \in DOMAIN mods : k # e => ~Effective(mods[k])
  /\ Marks(mods) = kinds

\* An entry with one write that counts does what the write does.
LEMMA AppliesOne ==
  ASSUME NEW mods, NEW w, NEW kinds, OneIn(mods, w, kinds), Effective(w), NEW old
  PROVE  Applies(old, mods, Written(old, w))
BY DEF OneIn, Applies, Only

\* The writes that do not count
LEMMA NotReplayed ==
  ASSUME NEW m, m.kind \in {"ctx", "load", "store"} \/ (m.kind = "csr" /\ m.name = "mcause")
  PROVE  ~Effective(m) /\ m.kind \notin Regs
BY Names3 DEF Effective, FieldOf

\* Where the one write is among the others
LEMMA OneOfOne ==
  ASSUME NEW w, NEW mods, mods = <<w>>
  PROVE  OneIn(mods, w, {w.kind} \cap Regs)
<1>1. DOMAIN mods = {1} /\ mods[1] = w
  OBVIOUS
<1>2. Marks(mods) = {w.kind} \cap Regs
  BY <1>1 DEF Marks
<1>3. QED
  BY <1>1, <1>2 DEF OneIn

LEMMA OneOfTwo ==
  ASSUME NEW w, NEW n, ~Effective(n), n.kind \notin Regs, NEW mods, mods = <<w, n>> \/ mods = <<n, w>>
  PROVE  OneIn(mods, w, {w.kind} \cap Regs)
<1>1. CASE mods = <<w, n>>
  <2>1. DOMAIN mods = {1, 2} /\ mods[1] = w /\ mods[2] = n
    BY <1>1
  <2>2. Marks(mods) = {w.kind} \cap Regs
    BY <2>1 DEF Marks
  <2>3. QED
    BY <2>1, <2>2 DEF OneIn
<1>2. CASE mods = <<n, w>>
  <2>1. DOMAIN mods = {1, 2} /\ mods[1] = n /\ mods[2] = w
    BY <1>2
  <2>2. Marks(mods) = {w.kind} \cap Regs
    BY <2>1 DEF Marks
  <2>3. QED
    BY <2>1, <2>2 DEF OneIn
<1>3. QED
  BY <1>1, <1>2

LEMMA OneOfThree ==
  ASSUME NEW w, NEW n, NEW o, ~Effective(n), n.kind \notin Regs, ~Effective(o), o.kind \notin Regs,
         NEW mods, mods = <<w, n, o>>
  PROVE  OneIn(mods, w, {w.kind} \cap Regs)
<1>1. DOMAIN mods = {1, 2, 3} /\ mods[1] = w /\ mods[2] = n /\ mods[3] = o
  OBVIOUS
<1>2. Marks(mods) = {w.kind} \cap Regs
  BY <1>1 DEF Marks
<1>3. QED
  BY <1>1, <1>2 DEF OneIn

\* An entry without a write that counts
LEMMA IdleNone ==
  ASSUME NEW mods, mods = <<>> \/ (\E n : mods = <<n>> /\ ~Effective(n) /\ n.kind \notin Regs), NEW old
  PROVE  Applies(old, mods, old) /\ Marks(mods) = {}
<1>1. DOMAIN mods = {} \/ (DOMAIN mods = {1} /\ ~Effective(mods[1]) /\ mods[1].kind \notin Regs)
  OBVIOUS
<1>2. QED
  BY <1>1 DEF Applies, Idle, Marks

\* Execute, field by field
Executed(h, i, g) ==
  /\ g.pc = IF i.op = "ecall" THEN TrapPc ELSE IF i.op = "jump" THEN h.pc + 8
            ELSE IF i.op = "spin" THEN h.pc ELSE h.pc + 4
  /\ g.x1 = IF i.op = "li" THEN i.v ELSE IF i.op \in {"load", "amo"} THEN 1 ELSE h.x1
  /\ g.v1 = IF i.op = "vli" THEN i.v ELSE IF i.op = "vmv" THEN h.x1 ELSE h.v1
  /\ g.fflags = IF i.op = "fflags" THEN i.v ELSE h.fflags
  /\ g.frm = IF i.op = "frm" THEN i.v ELSE h.frm
  /\ g.mscratch = IF i.op = "mscratch" THEN i.v ELSE h.mscratch
  /\ g.done = (i.op \in {"exit", "spin"})

LEMMA ExecuteFields ==
  ASSUME NEW h \in HartStates, NEW i, NEW g, g = Execute(h, i)
  PROVE  Executed(h, i, g)
<1> DEFINE p == IF i.op = "ecall" THEN TrapPc ELSE IF i.op = "jump" THEN h.pc + 8
                ELSE IF i.op = "spin" THEN h.pc ELSE h.pc + 4
           a == IF i.op = "li" THEN i.v ELSE IF i.op \in {"load", "amo"} THEN 1 ELSE h.x1
           b == IF i.op = "vli" THEN i.v ELSE IF i.op = "vmv" THEN h.x1 ELSE h.v1
           c == IF i.op = "fflags" THEN i.v ELSE h.fflags
           d == IF i.op = "frm" THEN i.v ELSE h.frm
           e == IF i.op = "mscratch" THEN i.v ELSE h.mscratch
           f == i.op \in {"exit", "spin"}
<1>1. g = [h EXCEPT !.pc = p, !.x1 = a, !.v1 = b, !.fflags = c, !.frm = d, !.mscratch = e, !.done = f]
  BY DEF Execute
<1>2. h = [pc |-> h.pc, x1 |-> h.x1, v1 |-> h.v1, fflags |-> h.fflags, frm |-> h.frm,
           mscratch |-> h.mscratch, done |-> h.done]
  BY DEF HartStates
<1> HIDE DEF p, a, b, c, d, e, f
<1>3. g.pc = p /\ g.x1 = a /\ g.v1 = b /\ g.fflags = c /\ g.frm = d /\ g.mscratch = e /\ g.done = f
  BY <1>1, <1>2
<1>4. QED
  BY <1>3 DEF Executed, p, a, b, c, d, e, f

\* What an instruction does to the machine is what its entry does to the shadow.
Effect(h, g, i, mods) ==
  /\ \A x : Applies(View(h, x), mods, View(g, IF X1 \in Touches(i) THEN g.x1 ELSE x))
  /\ Marks(mods) = Touches(i) \cap {X1, V1}

\* For each of the shadow state's parts that an instruction may write
LEMMA EffectOfX ==
  ASSUME NEW h, NEW g, NEW i, NEW mods, Touches(i) = {X1},
         OneIn(mods, XWrite(g), {XWrite(g).kind} \cap Regs),
         g.v1 = h.v1, Fcsr(g) = Fcsr(h), g.mscratch = h.mscratch
  PROVE  Effect(h, g, i, mods)
<1>1. PICK w : w = XWrite(g)
  OBVIOUS
<1>2. w.kind = "x" /\ w.bits = g.x1
  BY <1>1 DEF XWrite, Modification
<1>3. ASSUME NEW x PROVE Applies(View(h, x), mods, View(g, g.x1))
  <2>1. PICK old, new : old = View(h, x) /\ new = View(g, g.x1)
    OBVIOUS
  <2>2. Effective(w) /\ Written(old, w) = new
    BY <1>2, <2>1, WrittenX DEF View
  <2>3. Applies(old, mods, Written(old, w))
    BY <1>1, <2>2, AppliesOne
  <2>4. QED
    BY <2>1, <2>2, <2>3
<1>4. Marks(mods) = {X1}
  BY <1>1, <1>2, Names3 DEF OneIn, X1
<1>5. QED
  BY <1>3, <1>4 DEF Effect

LEMMA EffectOfV ==
  ASSUME NEW h, NEW g, NEW i, NEW mods, Touches(i) = {V1},
         OneIn(mods, VWrite(g), {VWrite(g).kind} \cap Regs),
         Fcsr(g) = Fcsr(h), g.mscratch = h.mscratch
  PROVE  Effect(h, g, i, mods)
<1>1. PICK w : w = VWrite(g)
  OBVIOUS
<1>2. w.kind = "v" /\ w.bits = g.v1
  BY <1>1 DEF VWrite, Modification
<1>3. ASSUME NEW x PROVE Applies(View(h, x), mods, View(g, x))
  <2>1. PICK old, new : old = View(h, x) /\ new = View(g, x)
    OBVIOUS
  <2>2. Effective(w) /\ Written(old, w) = new
    BY <1>2, <2>1, WrittenV DEF View
  <2>3. Applies(old, mods, Written(old, w))
    BY <1>1, <2>2, AppliesOne
  <2>4. QED
    BY <2>1, <2>2, <2>3
<1>4. Marks(mods) = {V1} /\ X1 \notin {V1}
  BY <1>1, <1>2, Names3 DEF OneIn, V1, X1
<1>5. QED
  BY <1>3, <1>4 DEF Effect

LEMMA EffectOfFcsr ==
  ASSUME NEW h, NEW g, NEW i, NEW mods, Touches(i) = {"fcsr"}, NEW w, w.kind = "csr",
         OneIn(mods, w, {w.kind} \cap Regs), g.v1 = h.v1,
         w.name \in {"fcsr", "fflags", "frm"}, Merged(w.name, Fcsr(h), w.bits) = Fcsr(g),
         g.mscratch = h.mscratch
  PROVE  Effect(h, g, i, mods)
<1>1. ASSUME NEW x PROVE Applies(View(h, x), mods, View(g, x))
  <2>1. PICK old, new : old = View(h, x) /\ new = View(g, x)
    OBVIOUS
  <2>2. Effective(w) /\ Written(old, w) = new
    BY <2>1, WrittenFcsr DEF View
  <2>3. Applies(old, mods, Written(old, w))
    BY <2>2, AppliesOne
  <2>4. QED
    BY <2>1, <2>2, <2>3
<1>2. Marks(mods) = {} /\ Touches(i) \cap {X1, V1} = {}
  BY Names3 DEF OneIn, V1, X1
<1>3. X1 \notin Touches(i)
  BY DEF X1
<1>4. QED
  BY <1>1, <1>2, <1>3 DEF Effect

LEMMA EffectOfScratch ==
  ASSUME NEW h, NEW g, NEW i, NEW mods, Touches(i) = {"mscratch"}, NEW w, w.kind = "csr",
         OneIn(mods, w, {w.kind} \cap Regs), g.v1 = h.v1,
         w.name = "mscratch", w.bits = g.mscratch, Fcsr(g) = Fcsr(h)
  PROVE  Effect(h, g, i, mods)
<1>1. ASSUME NEW x PROVE Applies(View(h, x), mods, View(g, x))
  <2>1. PICK old, new : old = View(h, x) /\ new = View(g, x)
    OBVIOUS
  <2>2. Effective(w) /\ Written(old, w) = new
    BY <2>1, WrittenScratch DEF View
  <2>3. Applies(old, mods, Written(old, w))
    BY <2>2, AppliesOne
  <2>4. QED
    BY <2>1, <2>2, <2>3
<1>2. Marks(mods) = {} /\ Touches(i) \cap {X1, V1} = {}
  BY Names3 DEF OneIn, V1, X1
<1>3. X1 \notin Touches(i)
  BY DEF X1
<1>4. QED
  BY <1>1, <1>2, <1>3 DEF Effect

LEMMA EffectOfNone ==
  ASSUME NEW h, NEW g, NEW i, NEW mods, Touches(i) = {},
         mods = <<>> \/ (\E n : mods = <<n>> /\ ~Effective(n) /\ n.kind \notin Regs),
         g.v1 = h.v1, Fcsr(g) = Fcsr(h), g.mscratch = h.mscratch
  PROVE  Effect(h, g, i, mods)
<1>1. ASSUME NEW x PROVE Applies(View(h, x), mods, View(g, x)) /\ Marks(mods) = {}
  <2>1. View(g, x) = View(h, x)
    BY DEF View
  <2>2. QED
    BY <2>1, IdleNone
<1>2. QED
  BY <1>1 DEF Effect

\* fcsr in parts and as a whole
LEMMA FcsrMerged ==
  ASSUME NEW h, TwoValued(h), LowRange["fcsr"] > 1, NEW g, TwoValued(g)
  PROVE  /\ Merged("fcsr", Fcsr(h), Fcsr(g)) = Fcsr(g)
         /\ g.frm = h.frm => Merged("fflags", Fcsr(h), g.fflags) = Fcsr(g)
         /\ g.fflags = h.fflags => Merged("frm", Fcsr(h), g.frm) = Fcsr(g)
<1> DEFINE low == LowRange["fcsr"]
<1>1. low \in Nat /\ low > 1
  BY CsrAssumption DEF Whole
<1>2. /\ h.frm \in Nat /\ h.fflags \in Nat /\ h.fflags < low
      /\ g.frm \in Nat /\ g.fflags \in Nat
  BY <1>1 DEF TwoValued, HartStates
<1>3. Fcsr(h) = h.frm * low + h.fflags /\ Fcsr(g) = g.frm * low + g.fflags
  BY DEF Fcsr
<1>4. FieldOf("fflags") = "fcsr" /\ FieldOf("frm") = "fcsr" /\ FieldOf("fcsr") = "fcsr"
  BY DEF FieldOf
<1> HIDE DEF low
<1>5. Fcsr(h) \div low = h.frm /\ Fcsr(h) % low = h.fflags
  <2>1. PICK a, b, n : a = h.frm /\ b = h.fflags /\ n = a * low + b
    OBVIOUS
  <2>2. a \in Nat /\ b \in Nat /\ b < low /\ low \in Nat
    BY <1>1, <1>2, <2>1
  <2>3. (a * low + b) \div low = a /\ (a * low + b) % low = b
    BY <2>2, Parts
  <2>4. Fcsr(h) = a * low + b
    BY <1>3, <2>1
  <2>5. QED
    BY <2>1, <2>3, <2>4
<1>6. \A old, v : Merged("fflags", old, v) = (old \div low) * low + v
  <2>1. "fflags" \in Low /\ LowRange[FieldOf("fflags")] = low
    BY <1>4 DEF Low, low
  <2>2. "fflags" \notin High
    BY DEF High
  <2>3. QED
    BY <2>1, <2>2 DEF Merged
<1>7. \A old, v : Merged("frm", old, v) = (old % low) + v * low
  BY <1>4 DEF Merged, Low, High, low
<1>8. \A old, v : Merged("fcsr", old, v) = v
  BY DEF Merged, Low, High
<1>9. g.frm * low \in Nat
  BY <1>1, <1>2
<1>10. g.frm = h.frm => Merged("fflags", Fcsr(h), g.fflags) = Fcsr(g)
  BY <1>3, <1>5, <1>6
<1>11. g.fflags = h.fflags => Merged("frm", Fcsr(h), g.frm) = Fcsr(g)
  <2>1. Merged("frm", Fcsr(h), g.frm) = h.fflags + g.frm * low
    BY <1>5, <1>7
  <2>2. PICK n : n = g.frm * low
    OBVIOUS
  <2>3. n \in Nat /\ g.fflags + n = n + g.fflags
    BY <1>2, <1>9, <2>2
  <2>4. QED
    BY <1>3, <2>1, <2>2, <2>3
<1>12. QED
  BY <1>8, <1>10, <1>11

\* Every instruction does to its machine what both entries of it, that of Spike
\* and that of Pokedex, do to a shadow.
LEMMA EffectOfStep ==
  ASSUME NEW h, TwoValued(h), LowRange["fcsr"] > 1, NEW i \in AnyInst, NEW g, g = Execute(h, i)
  PROVE  /\ TwoValued(g)
         /\ Effect(h, g, i, GoldMods(g, i)) /\ Effect(h, g, i, DutWrites(g, i))
         /\ \A name \in {X1, V1, "fcsr", "mscratch"} \ Touches(i) : ValueOf(g, name) = ValueOf(h, name)
         /\ Touches(i) \subseteq {X1, V1, "fcsr", "mscratch"}
<1>1. h \in HartStates /\ g \in HartStates
  BY ExecuteType DEF TwoValued
<1>2. /\ g.x1 = IF i.op = "li" THEN i.v ELSE IF i.op \in {"load", "amo"} THEN 1 ELSE h.x1
      /\ g.v1 = IF i.op = "vli" THEN i.v ELSE IF i.op = "vmv" THEN h.x1 ELSE h.v1
      /\ g.fflags = IF i.op = "fflags" THEN i.v ELSE h.fflags
      /\ g.frm = IF i.op = "frm" THEN i.v ELSE h.frm
      /\ g.mscratch = IF i.op = "mscratch" THEN i.v ELSE h.mscratch
  <2>1. Executed(h, i, g)
    BY <1>1, ExecuteFields
  <2>2. QED
    BY <2>1 DEF Executed
<1>3. i.v \in {0, 1}
  BY InstValues
<1>4. TwoValued(g)
  BY <1>1, <1>2, <1>3 DEF TwoValued
<1>5. Touches(i) \subseteq {X1, V1, "fcsr", "mscratch"}
  BY DEF Touches
<1>6. i.op \notin {"fflags", "frm"} => Fcsr(g) = Fcsr(h)
  BY <1>2 DEF Fcsr
<1>7. \A name \in {X1, V1, "fcsr", "mscratch"} \ Touches(i) : ValueOf(g, name) = ValueOf(h, name)
  <2>1. X1 \notin Touches(i) => g.x1 = h.x1
    BY <1>2 DEF Touches
  <2>2. V1 \notin Touches(i) => g.v1 = h.v1
    BY <1>2 DEF Touches
  <2>3. "fcsr" \notin Touches(i) => Fcsr(g) = Fcsr(h)
    BY <1>6 DEF Touches
  <2>4. "mscratch" \notin Touches(i) => g.mscratch = h.mscratch
    BY <1>2 DEF Touches
  <2>5. \A k : /\ ValueOf(k, X1) = k.x1 /\ ValueOf(k, V1) = k.v1
               /\ ValueOf(k, "fcsr") = Fcsr(k) /\ ValueOf(k, "mscratch") = k.mscratch
    BY DEF ValueOf, X1, V1
  <2>6. QED
    BY <2>1, <2>2, <2>3, <2>4, <2>5
<1>8. ~Effective(Modification("ctx", 0, "", 8)) /\ Modification("ctx", 0, "", 8).kind \notin Regs
  BY NotReplayed DEF Modification
<1>9. ~Effective(Modification("load", 64, "", 0)) /\ Modification("load", 64, "", 0).kind \notin Regs
  BY NotReplayed DEF Modification
<1>10. \A a, b : ~Effective(Modification("store", a, "", b)) /\ Modification("store", a, "", b).kind \notin Regs
  BY NotReplayed DEF Modification
<1>11. ~Effective(CsrWrite(834, "mcause", 0)) /\ CsrWrite(834, "mcause", 0).kind \notin Regs
  BY NotReplayed DEF CsrWrite, Modification
<1>12. CASE i.op \in {"li", "load", "amo"}
  <2>1. Touches(i) = {X1} /\ g.v1 = h.v1 /\ Fcsr(g) = Fcsr(h) /\ g.mscratch = h.mscratch
    BY <1>2, <1>6, <1>12 DEF Touches
  <2>2. PICK w : w = XWrite(g)
    OBVIOUS
  <2>3. DutWrites(g, i) = <<w>>
    BY <1>12, <2>2 DEF DutWrites
  <2>4. OneIn(DutWrites(g, i), w, {w.kind} \cap Regs)
    BY <2>3, OneOfOne
  <2>5. OneIn(GoldMods(g, i), w, {w.kind} \cap Regs)
    <3>1. PICK n, o : n = Modification("load", 64, "", 0) /\ o = Modification("store", 64, "", 1)
      OBVIOUS
    <3>2. ~Effective(n) /\ n.kind \notin Regs /\ ~Effective(o) /\ o.kind \notin Regs
      BY <1>9, <1>10, <3>1
    <3>3. CASE i.op = "li"
      <4>1. GoldMods(g, i) = DutWrites(g, i)
        BY <3>3 DEF GoldMods
      <4>2. QED
        BY <2>4, <4>1
    <3>4. CASE i.op = "load"
      <4>1. GoldMods(g, i) = <<w, n>>
        BY <2>2, <3>1, <3>4 DEF GoldMods
      <4>2. QED
        BY <3>2, <4>1, OneOfTwo
    <3>5. CASE i.op = "amo"
      <4>1. GoldMods(g, i) = <<w, n, o>>
        BY <2>2, <3>1, <3>5 DEF GoldMods
      <4>2. QED
        BY <3>2, <4>1, OneOfThree
    <3>6. QED
      BY <1>12, <3>3, <3>4, <3>5
  <2>6. Effect(h, g, i, GoldMods(g, i)) /\ Effect(h, g, i, DutWrites(g, i))
    BY <2>1, <2>2, <2>4, <2>5, EffectOfX
  <2>7. QED
    BY <1>4, <1>5, <1>7, <2>6
<1>13. CASE i.op \in {"vli", "vmv"}
  <2>1. Touches(i) = {V1} /\ Fcsr(g) = Fcsr(h) /\ g.mscratch = h.mscratch
    BY <1>2, <1>6, <1>13 DEF Touches
  <2>2. PICK w, n : w = VWrite(g) /\ n = Modification("ctx", 0, "", 8)
    OBVIOUS
  <2>3. DutWrites(g, i) = <<w>> /\ GoldMods(g, i) = <<n, w>>
    <3>1. DutWrites(g, i) = <<w>>
      BY <1>13, <2>2, ZenonT(60) DEF DutWrites
    <3>2. GoldMods(g, i) = <<n, w>>
      BY <1>13, <2>2, ZenonT(60) DEF GoldMods
    <3>3. QED
      BY <3>1, <3>2
  <2>4. OneIn(DutWrites(g, i), w, {w.kind} \cap Regs)
    BY <2>3, OneOfOne
  <2>5. OneIn(GoldMods(g, i), w, {w.kind} \cap Regs)
    <3>1. ~Effective(n) /\ n.kind \notin Regs
      BY <1>8, <2>2
    <3>2. QED
      BY <2>3, <3>1, OneOfTwo
  <2>6. Effect(h, g, i, GoldMods(g, i)) /\ Effect(h, g, i, DutWrites(g, i))
    BY <2>1, <2>2, <2>4, <2>5, EffectOfV
  <2>7. QED
    BY <1>4, <1>5, <1>7, <2>6
<1>14. CASE i.op \in {"fflags", "frm", "mscratch"}
  <2>1. Touches(i) \in {{"fcsr"}, {"mscratch"}} /\ g.v1 = h.v1
    BY <1>2, <1>14 DEF Touches
  <2>2. \A n, s, b : /\ CsrWrite(n, s, b).kind = "csr" /\ CsrWrite(n, s, b).name = s
                     /\ CsrWrite(n, s, b).bits = b
    BY DEF CsrWrite, Modification
  <2>3. CASE i.op = "mscratch"
    <3>1. PICK w : w = CsrWrite(832, "mscratch", g.mscratch)
      OBVIOUS
    <3>2. DutWrites(g, i) = <<w>> /\ GoldMods(g, i) = <<w>>
      BY <2>3, <3>1 DEF DutWrites, GoldMods
    <3>3. OneIn(DutWrites(g, i), w, {w.kind} \cap Regs) /\ OneIn(GoldMods(g, i), w, {w.kind} \cap Regs)
      BY <3>2, OneOfOne
    <3>4. w.kind = "csr" /\ w.name = "mscratch" /\ w.bits = g.mscratch
      BY <2>2, <3>1
    <3>5. Fcsr(g) = Fcsr(h)
      BY <1>6, <2>3
    <3>6. Effect(h, g, i, GoldMods(g, i)) /\ Effect(h, g, i, DutWrites(g, i))
      <4>1. Touches(i) = {"mscratch"}
        BY <2>3 DEF Touches
      <4>2. QED
        BY <2>1, <3>3, <3>4, <3>5, <4>1, EffectOfScratch
    <3>7. QED
      BY <1>4, <1>5, <1>7, <3>6
  <2>4. CASE i.op \in {"fflags", "frm"}
    <3>1. PICK w, u : /\ w = CsrWrite(3, "fcsr", Fcsr(g))
                      /\ u = IF i.op = "fflags" THEN CsrWrite(1, "fflags", g.fflags)
                             ELSE CsrWrite(2, "frm", g.frm)
      OBVIOUS
    <3>2. DutWrites(g, i) = <<w>> /\ GoldMods(g, i) = <<u>>
      <4>1. DutWrites(g, i) = <<w>>
        BY <2>4, <3>1 DEF DutWrites
      <4>2. GoldMods(g, i) = <<u>>
        BY <2>4, <3>1 DEF GoldMods
      <4>3. QED
        BY <4>1, <4>2
    <3>3. OneIn(DutWrites(g, i), w, {w.kind} \cap Regs) /\ OneIn(GoldMods(g, i), u, {u.kind} \cap Regs)
      BY <3>2, OneOfOne
    <3>4. w.kind = "csr" /\ w.name = "fcsr" /\ w.bits = Fcsr(g)
      BY <2>2, <3>1
    <3>5. /\ Merged("fcsr", Fcsr(h), Fcsr(g)) = Fcsr(g)
          /\ g.frm = h.frm => Merged("fflags", Fcsr(h), g.fflags) = Fcsr(g)
          /\ g.fflags = h.fflags => Merged("frm", Fcsr(h), g.frm) = Fcsr(g)
      BY <1>4, FcsrMerged
    <3>6. u.kind = "csr" /\ u.name \in {"fflags", "frm"} /\ Merged(u.name, Fcsr(h), u.bits) = Fcsr(g)
      <4>1. CASE i.op = "fflags"
        <5>1. u.kind = "csr" /\ u.name = "fflags" /\ u.bits = g.fflags /\ g.frm = h.frm
          BY <1>2, <2>2, <3>1, <4>1
        <5>2. QED
          BY <3>5, <5>1
      <4>2. CASE i.op = "frm"
        <5>1. u.kind = "csr" /\ u.name = "frm" /\ u.bits = g.frm /\ g.fflags = h.fflags
          BY <1>2, <2>2, <3>1, <4>2
        <5>2. QED
          BY <3>5, <5>1
      <4>3. QED
        BY <2>4, <4>1, <4>2
    <3>7. g.mscratch = h.mscratch
      BY <1>2, <2>4
    <3>8. Touches(i) = {"fcsr"} /\ Merged(w.name, Fcsr(h), w.bits) = Fcsr(g)
      BY <2>4, <3>4, <3>5 DEF Touches
    <3>9. Effect(h, g, i, GoldMods(g, i)) /\ Effect(h, g, i, DutWrites(g, i))
      <4>1. Effect(h, g, i, DutWrites(g, i))
        BY <2>1, <3>3, <3>4, <3>7, <3>8, EffectOfFcsr
      <4>2. Effect(h, g, i, GoldMods(g, i))
        BY <2>1, <3>3, <3>6, <3>7, <3>8, EffectOfFcsr
      <4>3. QED
        BY <4>1, <4>2
    <3>10. QED
      BY <1>4, <1>5, <1>7, <3>9
  <2>5. QED
    BY <1>14, <2>3, <2>4
<1>15. CASE i.op \in {"nop", "jump", "ecall", "mcause", "exit", "spin"}
  <2>1. Touches(i) = {} /\ g.v1 = h.v1 /\ Fcsr(g) = Fcsr(h) /\ g.mscratch = h.mscratch
    BY <1>2, <1>6, <1>15 DEF Touches
  <2>2. DutWrites(g, i) = <<>> \/ DutWrites(g, i) = <<CsrWrite(834, "mcause", 0)>>
    BY <1>15 DEF DutWrites
  <2>3. GoldMods(g, i) = DutWrites(g, i) \/ GoldMods(g, i) = <<Modification("store", 128, "", i.v)>>
    BY <1>15 DEF GoldMods
  <2>4. DutWrites(g, i) = <<>>
        \/ (\E n : DutWrites(g, i) = <<n>> /\ ~Effective(n) /\ n.kind \notin Regs)
    BY <1>11, <2>2
  <2>5. GoldMods(g, i) = <<>>
        \/ (\E n : GoldMods(g, i) = <<n>> /\ ~Effective(n) /\ n.kind \notin Regs)
    BY <1>10, <2>3, <2>4
  <2>6. Effect(h, g, i, GoldMods(g, i)) /\ Effect(h, g, i, DutWrites(g, i))
    BY <2>1, <2>4, <2>5, EffectOfNone
  <2>7. QED
    BY <1>4, <1>5, <1>7, <2>6
<1>16. QED
  BY <1>12, <1>13, <1>14, <1>15, InstValues

\* A log grown by one entry
Grown(s, t, c) ==
  /\ Len(t) = Len(s) + 1 /\ t[Len(s) + 1] = c
  /\ \A k \in 1 .. Len(s) : t[k] = s[k]

LEMMA GrownByOne ==
  ASSUME NEW S, NEW s \in Seq(S), NEW c, NEW t, t = s \o <<c>>
  PROVE  Grown(s, t, c)
<1>1. PICK T, u : T = S \cup {c} /\ u = <<c>>
  OBVIOUS
<1>2. s \in Seq(T) /\ u \in Seq(T) /\ Len(u) = 1 /\ u[1] = c /\ t = s \o u
  BY <1>1
<1>3. /\ Len(t) = Len(s) + Len(u)
      /\ \A i \in 1 .. Len(s) : t[i] = s[i]
      /\ \A i \in 1 .. Len(u) : t[Len(s) + i] = u[i]
  BY <1>2, SeqConcat
<1>4. 1 \in 1 .. Len(u)
  BY <1>2
<1>5. t[Len(s) + 1] = c
  BY <1>2, <1>3, <1>4
<1>6. QED
  BY <1>2, <1>3, <1>5 DEF Grown

\* What a step of Spike leaves in its log
GoldStep(i, g) ==
  \/ i.op = "ecall" /\ gold' = gold
  \/ i.op # "ecall" /\ Grown(gold, gold', Commit(hart[1].pc, GoldMods(g, i)))

LEMMA GoldGrows ==
  ASSUME GoldInv, NEW g, NEW i, gold' = gold \o GoldLogs(g, i)
  PROVE  GoldStep(i, g)
<1>1. gold \in Seq(Commits)
  BY DEF GoldInv
<1>2. CASE i.op = "ecall"
  <2>1. GoldLogs(g, i) = <<>>
    BY <1>2 DEF GoldLogs
  <2>2. gold' = gold
    BY <1>1, <2>1
  <2>3. QED
    BY <1>2, <2>2 DEF GoldStep
<1>3. CASE i.op # "ecall"
  <2>1. PICK c : c = Commit(hart[1].pc, GoldMods(g, i))
    OBVIOUS
  <2>2. GoldLogs(g, i) = <<c>>
    BY <1>3, <2>1 DEF GoldLogs
  <2>3. gold' = gold \o <<c>>
    BY <2>2
  <2>4. PICK t : t = gold'
    OBVIOUS
  <2>5. Grown(gold, t, c)
    BY <1>1, <2>3, <2>4, GrownByOne
  <2>6. QED
    BY <1>3, <2>1, <2>4, <2>5 DEF GoldStep
<1>4. QED
  BY <1>2, <1>3

\* And one of Pokedex in its own
DutStep(j, d) ==
  /\ DutRan' = DutRan + 1
  /\ \A k \in 1 .. DutRan + 1 : dut'[k] = dut[k]
  /\ dut'[DutRan + 2] = Entry("commit", hart[2].pc, DutWrites(d, j), 0)
  /\ ended' = "exit" => j.op = "exit" /\ dut'[DutRan + 3] = Entry("exit", 0, <<>>, j.v)

\* What Pokedex logs is of the set above, and its log grows by it.
LEMMA EntryTypes ==
  ASSUME NEW p \in Nat, NEW mods \in Seq(PrintedMods), NEW v \in {0, 1}
  PROVE  Entry("commit", p, mods, 0) \in Entries /\ Entry("exit", 0, <<>>, v) \in Entries
<1>1. <<>> \in Seq(PrintedMods)
  OBVIOUS
<1>2. QED
  BY <1>1 DEF Entry, Entries

LEMMA DutWritesPrinted ==
  ASSUME NEW h \in HartStates, NEW i
  PROVE  DutWrites(h, i) \in Seq(PrintedMods)
<1>1. /\ h.x1 \in Nat /\ h.v1 \in Nat /\ h.mscratch \in Nat /\ Fcsr(h) \in Nat
  BY FcsrNat DEF HartStates
<1>2. XWrite(h) \in PrintedMods /\ VWrite(h) \in PrintedMods
  BY <1>1 DEF XWrite, VWrite, Modification, PrintedMods, RegMods, VRegMods
<1>3. CsrWrite(3, "fcsr", Fcsr(h)) \in PrintedMods
  BY <1>1 DEF CsrWrite, Modification, PrintedMods, CsrMods, CsrNames
<1>4. CsrWrite(832, "mscratch", h.mscratch) \in PrintedMods /\ CsrWrite(834, "mcause", 0) \in PrintedMods
  BY <1>1 DEF CsrWrite, Modification, PrintedMods, CsrMods, CsrNames
<1> DEFINE P == PrintedMods
<1> HIDE DEF P
<1>5. <<>> \in Seq(P) /\ \A a \in P : <<a>> \in Seq(P)
  OBVIOUS
<1>6. DutWrites(h, i) \in Seq(P)
  BY <1>2, <1>3, <1>4, <1>5 DEF DutWrites, P
<1>7. QED
  BY <1>6 DEF P

LEMMA DutGrows ==
  ASSUME DutShape, ended = "no", NEW d, NEW j,
         NEW p, p = hart[2].pc,
         dut' = dut \o DutLogs(d, j), ended' = IF j.op = "exit" THEN "exit" ELSE "no",
         NEW w, w = DutWrites(d, j), NEW E, Entries \subseteq E,
         Entry("commit", p, w, 0) \in E, Entry("exit", 0, <<>>, j.v) \in E
  PROVE  DutStep(j, d) /\ dut' \in Seq(E)
<1> DEFINE one == Entry("commit", p, w, 0)
           two == Entry("exit", 0, <<>>, j.v)
           n == Len(dut)
<1>1. dut \in Seq(E) /\ n \in Nat /\ DutRan = n - 1 /\ DutRan \in Nat
  BY DEF DutShape, DutRan
<1>2. DutLogs(d, j) = <<one>> \o (IF j.op = "exit" THEN <<two>> ELSE <<>>)
  BY DEF DutLogs
<1>3. one \in E /\ two \in E
  OBVIOUS
<1> HIDE DEF one, two, n
<1>4. CASE j.op = "exit"
  <2>1. DutLogs(d, j) = <<one>> \o <<two>>
    BY <1>2, <1>4
  <2>2. PICK u : u = <<one>> \o <<two>>
    OBVIOUS
  <2>3. dut' = dut \o u /\ u \in Seq(E) /\ Len(u) = 2 /\ u[1] = one /\ u[2] = two
    <3>1. <<one>> \in Seq(E) /\ <<two>> \in Seq(E)
      BY <1>3
    <3>2. u \in Seq(E) /\ Len(u) = 2 /\ u[1] = one /\ u[2] = two
      BY <2>2, <3>1
    <3>3. QED
      BY <2>1, <2>2, <3>2
  <2>4. PICK t, s : t = dut' /\ s = dut
    OBVIOUS
  <2>5. /\ t \in Seq(E) /\ Len(t) = Len(dut) + Len(u)
        /\ \A i \in 1 .. Len(dut) : t[i] = dut[i]
        /\ \A i \in 1 .. Len(u) : t[Len(dut) + i] = u[i]
    <3>1. s \in Seq(E) /\ u \in Seq(E) /\ t = s \o u
      BY <1>1, <2>3, <2>4
    <3>2. /\ t \in Seq(E) /\ Len(t) = Len(s) + Len(u)
          /\ \A i \in 1 .. Len(s) : t[i] = s[i]
          /\ \A i \in 1 .. Len(u) : t[Len(s) + i] = u[i]
      BY <3>1, SeqConcat
    <3>3. QED
      BY <2>4, <3>2
  <2>6. 1 \in 1 .. Len(u) /\ 2 \in 1 .. Len(u)
    BY <2>3
  <2>7. Len(t) = n + 2 /\ (\A i \in 1 .. n : t[i] = dut[i]) /\ t[n + 1] = one /\ t[n + 2] = two
    BY <2>3, <2>5, <2>6 DEF n
  <2>8. ended' = "exit"
    BY <1>4
  <2>9. DutRan' = n
    BY <1>1, <2>4, <2>7, <2>8 DEF DutRan
  <2>10. n = DutRan + 1 /\ n + 1 = DutRan + 2 /\ n + 2 = DutRan + 3
    BY <1>1
  <2>11. QED
    BY <1>4, <2>4, <2>5, <2>7, <2>9, <2>10 DEF DutStep, one, two
<1>5. CASE j.op # "exit"
  <2>1. DutLogs(d, j) = <<one>>
    BY <1>2, <1>5
  <2>2. PICK t : t = dut'
    OBVIOUS
  <2>3. t = dut \o <<one>>
    BY <2>1, <2>2
  <2>4. Grown(dut, t, one)
    BY <1>1, <2>3, GrownByOne
  <2>5. Len(t) = n + 1 /\ (\A i \in 1 .. n : t[i] = dut[i]) /\ t[n + 1] = one
    BY <2>4 DEF Grown, n
  <2>6. ended' = "no"
    BY <1>5
  <2>7. DutRan' = n
    BY <1>1, <2>2, <2>5, <2>6 DEF DutRan
  <2>8. n = DutRan + 1 /\ n + 1 = DutRan + 2
    BY <1>1
  <2>9. t \in Seq(E)
    BY <1>1, <1>3, <2>3
  <2>10. QED
    BY <2>2, <2>5, <2>6, <2>7, <2>8, <2>9 DEF DutStep, one
<1>6. QED
  BY <1>4, <1>5

\* A step keeps the values small.
LEMMA TwoValuedStep ==
  ASSUME NEW h, TwoValued(h), NEW i \in AnyInst, NEW g, g = Execute(h, i)
  PROVE  TwoValued(g) /\ Executed(h, i, g)
<1>1. h \in HartStates /\ g \in HartStates
  BY ExecuteType DEF TwoValued
<1>2. Executed(h, i, g)
  BY <1>1, ExecuteFields
<1>3. QED
  BY <1>1, <1>2, InstValues DEF TwoValued, Executed

\* A step of Spike leaves the reset vector behind.
LEMMA PcMoves ==
  ASSUME NEW h, TwoValued(h), h.pc >= ResetPc, h.done => h.pc > ResetPc,
         NEW i \in AnyInst, i.op = "spin" => h.done, NEW g, Executed(h, i, g)
  PROVE  g.pc > ResetPc
<1>1. h.pc \in Nat
  BY DEF TwoValued, HartStates
<1>2. TrapPc > ResetPc
  <2>1. MaxInsts \in Nat /\ TrapPc \in Nat /\ TrapPc > ResetPc + 8 * MaxInsts
    BY HandlerAssumption, CosimAssumption
  <2>2. QED
    BY <2>1 DEF ResetPc
<1>3. g.pc \in {TrapPc, h.pc + 8, h.pc + 4} \/ (i.op = "spin" /\ g.pc = h.pc)
  BY DEF Executed
<1>4. QED
  BY <1>1, <1>2, <1>3 DEF ResetPc

\* After its exit Spike spins.
LEMMA SpinsWhenDone ==
  ASSUME NEW i \in Program
  PROVE  i \in AnyInst /\ (i.op = "spin" => hart[1].done) /\ (hart[1].done => i.op = "spin")
<1>1. i \in AnyInst
  BY DEF Program, AnyInst
<1>2. \A k \in Insts : k.op # "spin"
  BY DEF Insts, Inst
<1>3. Inst("spin", 0).op = "spin"
  BY DEF Inst
<1>4. QED
  BY <1>1, <1>2, <1>3 DEF Program

\* HartShape holds at the start, and every step keeps it.
LEMMA HartInit == CosimInit => HartShape
<1> SUFFICES ASSUME CosimInit PROVE HartShape
  OBVIOUS
<1>1. hart \in [Sources -> HartStates]
  BY GoldInit DEF GoldInv
<1>2. \A m \in Sources : TwoValued(hart[m]) /\ touched[m] \subseteq {X1, V1, "fcsr", "mscratch"}
  BY <1>1 DEF CosimInit, TwoValued
<1>3. hart[2].x1 = 0 /\ hart[1].pc = ResetPc /\ ~hart[1].done
  <2>1. hart = [m \in Sources |->
          [pc |-> ResetPc, x1 |-> IF m = 1 THEN 1 ELSE 0, v1 |-> 0,
           fflags |-> 0, frm |-> 0, mscratch |-> 0, done |-> FALSE]]
    BY DEF CosimInit
  <2>2. 1 \in Sources /\ 2 \in Sources
    BY DEF Sources
  <2>3. QED
    BY <2>1, <2>2
<1>4. PICK c : c = Commit(BootPc, <<Modification("x", 1, "", 1)>>)
  OBVIOUS
<1>5. gold = <<c>> /\ c.pc = BootPc
  BY <1>4 DEF CosimInit, Commit
<1>6. Len(gold) = 1 /\ gold[1] = c
  BY <1>5
<1>7. (\A k \in 2 .. Len(gold) : FALSE) /\ (\A k \in 3 .. Len(gold) : FALSE)
  BY <1>6
<1>8. QED
  BY <1>2, <1>3, <1>5, <1>6, <1>7 DEF HartShape, ResetPc

LEMMA GoldPcs ==
  ASSUME GoldInv, HartShape, NEW g, NEW i, GoldStep(i, g)
  PROVE  /\ Len(gold') \in {Len(gold), Len(gold) + 1}
         /\ gold'[1].pc = BootPc
         /\ \A k \in 2 .. Len(gold') : gold'[k].pc >= ResetPc
         /\ \A k \in 3 .. Len(gold') : gold'[k].pc > ResetPc
<1>1. CASE gold' = gold
  BY <1>1 DEF HartShape
<1>2. CASE Grown(gold, gold', Commit(hart[1].pc, GoldMods(g, i)))
  <2>1. PICK c, t, n : c = Commit(hart[1].pc, GoldMods(g, i)) /\ t = gold' /\ n = Len(gold)
    OBVIOUS
  <2>2. c.pc = hart[1].pc
    BY <2>1 DEF Commit
  <2>3. Len(t) = n + 1 /\ t[n + 1] = c /\ (\A k \in 1 .. n : t[k] = gold[k]) /\ n \in Nat /\ n >= 1
    BY <1>2, <2>1 DEF Grown, GoldInv, HartShape
  <2>4. \A k \in 1 .. n + 1 : k \in 1 .. n \/ k = n + 1
    BY <2>3
  <2>5. t[1].pc = BootPc
    BY <2>1, <2>3 DEF HartShape
  <2>6. ASSUME NEW k \in 2 .. n + 1 PROVE t[k].pc >= ResetPc
    <3>1. CASE k = n + 1
      BY <2>2, <2>3, <3>1 DEF HartShape
    <3>2. CASE k # n + 1
      <4>1. k \in 2 .. n /\ k \in 1 .. n
        BY <2>3, <3>2
      <4>2. QED
        BY <2>1, <2>3, <4>1 DEF HartShape
    <3>3. QED
      BY <3>1, <3>2
  <2>7. ASSUME NEW k \in 3 .. n + 1 PROVE t[k].pc > ResetPc
    <3>1. CASE k = n + 1
      <4>1. n >= 2
        BY <2>3, <3>1
      <4>2. QED
        BY <2>1, <2>2, <2>3, <3>1, <4>1 DEF HartShape
    <3>2. CASE k # n + 1
      <4>1. k \in 3 .. n /\ k \in 1 .. n
        BY <2>3, <3>2
      <4>2. QED
        BY <2>1, <2>3, <4>1 DEF HartShape
    <3>3. QED
      BY <3>1, <3>2
  <2>8. QED
    BY <2>1, <2>3, <2>5, <2>6, <2>7
<1>3. QED
  BY <1>1, <1>2 DEF GoldStep

LEMMA TouchesNames ==
  ASSUME NEW i
  PROVE  Touches(i) \subseteq {X1, V1, "fcsr", "mscratch"} /\ (X1 \notin Touches(i) => i.op \notin {"li", "load", "amo"})
BY DEF Touches

LEMMA HartNext ==
  ASSUME GoldInv, HartShape, [CosimNext]_cosimVars
  PROVE  HartShape'
<1>0. Len(gold) \in Nat
  BY DEF GoldInv
<1>1. CASE \E i \in Program, j \in Insts \cup {Inst("spin", 0)} : Step(i, j)
  <2>1. PICK i \in Program, j \in AnyInst : Step(i, j)
    BY <1>1 DEF AnyInst
  <2>2. PICK g, d : g = Execute(hart[1], i) /\ d = Execute(hart[2], j)
    OBVIOUS
  <2>3. /\ hart' = [m \in Sources |-> IF m = 1 THEN g ELSE d] /\ gold' = gold \o GoldLogs(g, i)
        /\ touched' = [m \in Sources |-> IF m = 1 THEN touched[1] \cup Touches(i) ELSE touched[2] \cup Touches(j)]
    BY <2>1, <2>2 DEF Step
  <2>4. i \in AnyInst /\ (i.op = "spin" => hart[1].done)
    BY SpinsWhenDone
  <2>5. TwoValued(hart[1]) /\ TwoValued(hart[2])
    BY DEF HartShape, Sources
  <2>6. TwoValued(g) /\ Executed(hart[1], i, g) /\ TwoValued(d) /\ Executed(hart[2], j, d)
    BY <2>2, <2>4, <2>5, TwoValuedStep
  <2>7. g.pc > ResetPc
    BY <2>4, <2>5, <2>6, PcMoves DEF HartShape
  <2>8. GoldStep(i, g)
    BY <2>3, GoldGrows
  <2>9. /\ Len(gold') \in {Len(gold), Len(gold) + 1}
        /\ gold'[1].pc = BootPc
        /\ \A k \in 2 .. Len(gold') : gold'[k].pc >= ResetPc
        /\ \A k \in 3 .. Len(gold') : gold'[k].pc > ResetPc
    BY <2>8, GoldPcs
  <2>10. hart'[1] = g /\ hart'[2] = d /\ touched'[1] = touched[1] \cup Touches(i)
         /\ touched'[2] = touched[2] \cup Touches(j)
    BY <2>3 DEF Sources
  <2>11. X1 \notin touched'[2] => d.x1 = 0
    BY <2>6, <2>10, TouchesNames DEF HartShape, Executed
  <2>12. \A m \in Sources : TwoValued(hart'[m]) /\ touched'[m] \subseteq {X1, V1, "fcsr", "mscratch"}
    <3>1. touched[1] \subseteq {X1, V1, "fcsr", "mscratch"} /\ touched[2] \subseteq {X1, V1, "fcsr", "mscratch"}
      BY DEF HartShape, Sources
    <3>2. QED
      BY <2>6, <2>10, <3>1, TouchesNames DEF Sources
  <2>13. Len(gold') >= 1 /\ g.pc >= ResetPc
    <3>1. g.pc \in Nat
      BY <2>6 DEF TwoValued, HartStates
    <3>2. QED
      BY <1>0, <2>7, <2>9, <3>1 DEF HartShape, ResetPc
  <2>14. QED
    BY <2>7, <2>9, <2>10, <2>11, <2>12, <2>13 DEF HartShape
<1>2. CASE \E i \in Program : RunOn(i)
  <2>1. PICK i \in Program : RunOn(i)
    BY <1>2
  <2>2. PICK g : g = Execute(hart[1], i)
    OBVIOUS
  <2>3. hart' = [hart EXCEPT ![1] = g] /\ gold' = gold \o GoldLogs(g, i) /\ touched' = touched
    BY <2>1, <2>2 DEF RunOn
  <2>4. i \in AnyInst /\ (i.op = "spin" => hart[1].done)
    BY SpinsWhenDone
  <2>5. TwoValued(hart[1]) /\ TwoValued(hart[2])
    BY DEF HartShape, Sources
  <2>6. TwoValued(g) /\ Executed(hart[1], i, g)
    BY <2>2, <2>4, <2>5, TwoValuedStep
  <2>7. g.pc > ResetPc
    BY <2>4, <2>5, <2>6, PcMoves DEF HartShape
  <2>8. GoldStep(i, g)
    BY <2>3, GoldGrows
  <2>9. /\ Len(gold') \in {Len(gold), Len(gold) + 1}
        /\ gold'[1].pc = BootPc
        /\ \A k \in 2 .. Len(gold') : gold'[k].pc >= ResetPc
        /\ \A k \in 3 .. Len(gold') : gold'[k].pc > ResetPc
    BY <2>8, GoldPcs
  <2>10. hart'[1] = g /\ hart'[2] = hart[2]
    BY <2>3 DEF GoldInv, Sources
  <2>11. \A m \in Sources : TwoValued(hart'[m]) /\ touched'[m] \subseteq {X1, V1, "fcsr", "mscratch"}
    BY <2>3, <2>5, <2>6, <2>10 DEF HartShape, Sources
  <2>12. Len(gold') >= 1 /\ g.pc >= ResetPc
    <3>1. g.pc \in Nat
      BY <2>6 DEF TwoValued, HartStates
    <3>2. QED
      BY <1>0, <2>7, <2>9, <3>1 DEF HartShape, ResetPc
  <2>13. QED
    BY <2>3, <2>7, <2>9, <2>10, <2>11, <2>12 DEF HartShape
<1>3. CASE Crash \/ StopSpike \/ Load \/ Replay \/ UNCHANGED cosimVars
  <2>1. UNCHANGED <<hart, gold, touched>>
    BY <1>3 DEF Crash, StopSpike, Load, Replay, cosimVars, runVars
  <2>2. QED
    BY <2>1 DEF HartShape
<1>4. QED
  BY <1>1, <1>2, <1>3 DEF CosimNext

-----------------------------------------------------------------------------
(* The log of Pokedex, and the stages *)

\* DutShape holds at the start, and every step keeps it.
LEMMA DutInit == CosimInit => DutShape
<1> SUFFICES ASSUME CosimInit PROVE DutShape
  OBVIOUS
<1> DEFINE first == Entry("reset", ResetPc, <<>>, 0)
<1>1. dut = <<first>> /\ ended = "no"
  BY DEF CosimInit
<1>2. <<>> \in Seq(PrintedMods)
  OBVIOUS
<1>3. first \in Entries
  BY <1>2 DEF Entry, Entries, ResetPc
<1> HIDE DEF first
<1>4. dut \in Seq(Entries) /\ Len(dut) = 1 /\ dut[1] = first
  BY <1>1, <1>3
<1>5. DutRan = 0 /\ 0 <= MaxInsts
  BY <1>1, <1>4, CosimAssumption DEF DutRan
<1>6. \A k \in 2 .. DutRan + 1 : FALSE
  BY <1>5
<1>7. QED
  BY <1>1, <1>4, <1>5, <1>6 DEF DutShape, first

LEMMA StepDut ==
  ASSUME GoldInv, HartShape, DutShape, NEW i \in Program, NEW j \in AnyInst, Step(i, j),
         NEW d, d = Execute(hart[2], j)
  PROVE  DutStep(j, d) /\ dut' \in Seq(Entries)
<1>1. TwoValued(hart[2])
  BY DEF HartShape, Sources
<1>2. TwoValued(d)
  BY <1>1, TwoValuedStep
<1>3. PICK p, w : p = hart[2].pc /\ w = DutWrites(d, j)
  OBVIOUS
<1>4. p \in Nat /\ w \in Seq(PrintedMods) /\ j.v \in {0, 1}
  BY <1>1, <1>2, <1>3, DutWritesPrinted, InstValues DEF TwoValued, HartStates
<1>5. Entry("commit", p, w, 0) \in Entries /\ Entry("exit", 0, <<>>, j.v) \in Entries
  BY <1>4, EntryTypes
<1>6. ended = "no" /\ dut' = dut \o DutLogs(d, j) /\ ended' = IF j.op = "exit" THEN "exit" ELSE "no"
  BY DEF Step
<1>7. PICK E : E = Entries
  OBVIOUS
<1>8. Entries \subseteq E /\ Entry("commit", p, w, 0) \in E /\ Entry("exit", 0, <<>>, j.v) \in E
  BY <1>5, <1>7
<1>9. DutStep(j, d) /\ dut' \in Seq(E)
  BY <1>3, <1>6, <1>8, DutGrows
<1>10. QED
  BY <1>7, <1>9

LEMMA DutNext ==
  ASSUME GoldInv, HartShape, DutShape, [CosimNext]_cosimVars
  PROVE  DutShape'
<1>1. CASE \E i \in Program, j \in Insts \cup {Inst("spin", 0)} : Step(i, j)
  <2>1. PICK i \in Program, j \in AnyInst : Step(i, j)
    BY <1>1 DEF AnyInst
  <2>2. PICK d, n : d = Execute(hart[2], j) /\ n = DutRan
    OBVIOUS
  <2>3. DutStep(j, d) /\ dut' \in Seq(Entries)
    BY <2>1, <2>2, StepDut
  <2>4. ended = "no" /\ Len(dut) <= MaxInsts
    BY <2>1 DEF Step
  <2>5. n \in Nat /\ DutRan' = n + 1 /\ n + 1 <= MaxInsts
    BY <2>2, <2>3, <2>4, CosimAssumption DEF DutShape, DutStep, DutRan
  <2>6. PICK t : t = dut'
    OBVIOUS
  <2>7. /\ \A k \in 1 .. n + 1 : t[k] = dut[k]
        /\ t[n + 2] = Entry("commit", hart[2].pc, DutWrites(d, j), 0)
        /\ ended' = "exit" => t[n + 3] = Entry("exit", 0, <<>>, j.v)
    BY <2>2, <2>3, <2>6 DEF DutStep
  <2>8. dut[1] = Entry("reset", ResetPc, <<>>, 0) /\ \A k \in 2 .. n + 1 : dut[k].kind = "commit"
    BY <2>2, <2>4 DEF DutShape
  <2>9. t[1] = Entry("reset", ResetPc, <<>>, 0)
    BY <2>5, <2>7, <2>8
  <2>10. t[n + 2].kind = "commit" /\ (ended' = "exit" => t[n + 3].kind = "exit")
    BY <2>7 DEF Entry
  <2>11. ASSUME NEW k \in 2 .. (n + 1) + 1 PROVE t[k].kind = "commit"
    <3>1. k \in 2 .. n + 1 \/ k = n + 2
      BY <2>5
    <3>2. k \in 2 .. n + 1 => k \in 1 .. n + 1
      OBVIOUS
    <3>3. QED
      BY <2>7, <2>8, <2>10, <3>1, <3>2
  <2>12. (n + 1) + 2 = n + 3 /\ n + 1 >= 1 /\ n + 1 \in Nat
    BY <2>5
  <2>13. QED
    BY <2>3, <2>5, <2>6, <2>9, <2>10, <2>11, <2>12 DEF DutShape
<1>2. CASE Crash
  <2>1. ended' = "crash" /\ \E n \in 0 .. Len(dut) : dut' = SubSeq(dut, 1, n)
    BY <1>2 DEF Crash
  <2>2. dut' \in Seq(Entries)
    BY <2>1, SeqCut DEF DutShape
  <2>3. QED
    BY <2>1, <2>2 DEF DutShape
<1>3. CASE (\E i \in Program : RunOn(i)) \/ StopSpike \/ Load \/ Replay \/ UNCHANGED cosimVars
  <2>1. UNCHANGED <<dut, ended>>
    BY <1>3 DEF RunOn, StopSpike, Load, Replay, cosimVars, runVars
  <2>2. QED
    BY <2>1 DEF DutShape, DutRan
<1>4. QED
  BY <1>1, <1>2, <1>3 DEF CosimNext

-----------------------------------------------------------------------------

\* Stages holds at the start, and every step keeps it.
LEMMA StagesInit == CosimInit => Stages
BY DEF CosimInit, Stages

LEMMA StagesNext ==
  ASSUME Stages, [CosimNext]_cosimVars
  PROVE  Stages'
<1>1. CASE \E i \in Program, j \in Insts \cup {Inst("spin", 0)} : Step(i, j)
  <2>1. PICK i \in Program, j \in AnyInst : Step(i, j)
    BY <1>1 DEF AnyInst
  <2>2. /\ stage = "run" /\ stage' = stage /\ torn' = torn /\ ended = "no" /\ ended' \in {"no", "exit"}
        /\ UNCHANGED <<vars, at>>
    BY <2>1 DEF Step, logVars
  <2>3. /\ causes' = causes \cup CausesOf(i) \cup (IF i = j THEN {} ELSE {"fault"})
                 \cup (IF j.op = "exit" /\ j.v # 0 THEN {"code"} ELSE {})
    BY <2>1 DEF Step
  <2>4. "cut" \notin CausesOf(i)
    BY DEF CausesOf
  <2>5. "cut" \notin causes'
    BY <2>2, <2>3, <2>4 DEF Stages
  <2>6. Init' /\ at' = [m \in Sources |-> 1] /\ ~torn'
    BY <2>2 DEF Stages, Init, vars
  <2>7. QED
    BY <2>2, <2>5, <2>6 DEF Stages
<1>2. CASE \E i \in Program : RunOn(i)
  <2>1. PICK i \in Program : RunOn(i)
    BY <1>2
  <2>2. stage = "run" /\ UNCHANGED <<vars, at, stage, torn, ended, causes>>
    BY <2>1 DEF RunOn, logVars
  <2>3. Init' /\ at' = [m \in Sources |-> 1]
    BY <2>2 DEF Stages, Init, vars
  <2>4. QED
    BY <2>2, <2>3 DEF Stages
<1>3. CASE Crash
  <2>1. stage = "run" /\ ended' = "crash" /\ causes' = causes \cup {"crash"} /\ UNCHANGED <<vars, at, stage>>
    BY <1>3 DEF Crash
  <2>2. Init' /\ at' = [m \in Sources |-> 1]
    BY <2>1 DEF Stages, Init, vars
  <2>3. "cut" \notin causes'
    BY <2>1 DEF Stages
  <2>4. QED
    BY <2>1, <2>2, <2>3 DEF Stages
<1>4. CASE StopSpike
  <2>1. /\ stage = "run" /\ stage' = "parse" /\ ended # "no"
        /\ UNCHANGED <<vars, at, torn, ended, gold>>
    BY <1>4 DEF StopSpike, runVars
  <2>2. Init' /\ at' = [m \in Sources |-> 1]
    BY <2>1 DEF Stages, Init, vars
  <2>3. \/ text' = Lines /\ causes' = causes
        \/ "fault" \notin causes /\ causes' = causes \cup {"cut"}
    BY <1>4 DEF StopSpike, Faultless
  <2>4. Lines' = Lines
    BY <2>1 DEF Lines
  <2>5. "cut" \in causes' => "fault" \notin causes'
    BY <2>1, <2>3 DEF Stages
  <2>6. QED
    BY <2>1, <2>2, <2>3, <2>4, <2>5 DEF Stages
<1>5. CASE Load \/ Replay
  <2>1. /\ stage # "run" /\ stage' = "replay" /\ UNCHANGED <<torn, ended, gold, text, causes>>
    BY <1>5 DEF Load, Replay, runVars, logVars
  <2>2. Lines' = Lines
    BY <2>1 DEF Lines
  <2>3. QED
    BY <2>1, <2>2 DEF Stages
<1>6. CASE UNCHANGED cosimVars
  <2>1. UNCHANGED <<vars, at, stage, torn, ended, gold, text, causes>>
    BY <1>6 DEF cosimVars, runVars, logVars
  <2>2. Lines' = Lines /\ (Init => Init')
    BY <2>1 DEF Lines, Init, vars
  <2>3. QED
    BY <2>1, <2>2 DEF Stages
<1>7. QED
  BY <1>1, <1>2, <1>3, <1>4, <1>5, <1>6 DEF CosimNext

\* What holds of the machines and the logs without the shadow states
Machines == GoldInv /\ TextInv /\ HartShape /\ DutShape /\ Stages

\* It holds at the start, and every step keeps it.
LEMMA MachinesInit == CosimInit => Machines
BY GoldInit, TextInit, HartInit, DutInit, StagesInit DEF Machines

LEMMA MachinesNext == Machines /\ [CosimNext]_cosimVars => Machines'
BY GoldNext, TextNext, HartNext, DutNext, StagesNext DEF Machines

\* A longer trace, with one more entry in the log
Extends(H, G, n) == \A k \in 1 .. n : H[k] = G[k]

LongerTrace(log, n, new, G) ==
  \E H : Trace(log, n + 1, H) /\ H[n + 1] = new /\ Extends(H, G, n)

LEMMA TraceMore ==
  ASSUME NEW log, NEW n \in Nat, n >= 1, NEW G, Trace(log, n, G), NEW new,
         NEW c, Applies(G[n], c.mods, new),
         NEW log2, \A k \in 1 .. n : log2[k] = log[k], log2[n + 1] = c
  PROVE  LongerTrace(log2, n, new, G)
<1> DEFINE H == [k \in 1 .. n + 1 |-> IF k = n + 1 THEN new ELSE G[k]]
<1>1. H[n + 1] = new /\ \A k \in 1 .. n : H[k] = G[k]
  OBVIOUS
<1> HIDE DEF H
<1>2. H[1] = Shadow(0, 0, 0, 0)
  BY <1>1 DEF Trace
<1>3. ASSUME NEW k \in 2 .. n + 1 PROVE Applies(H[k - 1], log2[k].mods, H[k])
  <2>1. CASE k = n + 1
    <3>1. k - 1 = n /\ n \in 1 .. n
      BY <2>1
    <3>2. H[k - 1] = G[n] /\ H[k] = new /\ log2[k] = c
      BY <1>1, <2>1, <3>1
    <3>3. QED
      BY <3>2
  <2>2. CASE k # n + 1
    <3>1. k \in 2 .. n /\ k \in 1 .. n /\ k - 1 \in 1 .. n
      BY <2>2
    <3>2. H[k - 1] = G[k - 1] /\ H[k] = G[k] /\ log2[k] = log[k]
      BY <1>1, <3>1
    <3>3. Applies(G[k - 1], log[k].mods, G[k])
      BY <3>1 DEF Trace
    <3>4. QED
      BY <3>2, <3>3
  <2>3. QED
    BY <2>1, <2>2
<1>4. Trace(log2, n + 1, H)
  BY <1>2, <1>3 DEF Trace
<1>5. QED
  BY <1>1, <1>4 DEF Extends, LongerTrace

\* What is known of x1 after a step
LEMMA KnownNext ==
  ASSUME NEW m \in Sources, NEW h, h = hart[m], NEW g, g = hart'[m], NEW i,
         touched'[m] = touched[m] \cup Touches(i),
         X1 \notin Touches(i) => g.x1 = h.x1
  PROVE  (IF X1 \in Touches(i) THEN g.x1 ELSE Known(m)) = Known(m)'
BY DEF Known

\* The traces after a step, whether Pokedex ends with it or not
TracesAfter(G, D, G2, D2) ==
  /\ Trace(gold', Len(gold'), G2) /\ Extends(G2, G, Len(gold))
  /\ Trace(dut', DutRan' + 1, D2) /\ Extends(D2, D, DutRan + 1)
  /\ G2[Len(gold')] = View(hart'[1], Known(1)')
  /\ D2[DutRan' + 1] = View(hart'[2], Known(2)')

\* A step of both machines, with what it does spelt out
Both(i, j, g, d) ==
  /\ i \in Program /\ j \in AnyInst
  /\ stage = "run" /\ ended = "no" /\ Len(dut) <= MaxInsts
  /\ i = j \/ Faultless
  /\ hart'[1] = g /\ hart'[2] = d
  /\ Executed(hart[1], i, g) /\ Executed(hart[2], j, d) /\ TwoValued(g) /\ TwoValued(d)
  /\ touched'[1] = touched[1] \cup Touches(i) /\ touched'[2] = touched[2] \cup Touches(j)
  /\ GoldStep(i, g) /\ DutStep(j, d)
  /\ ended' = IF j.op = "exit" THEN "exit" ELSE "no"
  /\ causes' = causes \cup CausesOf(i) \cup (IF i = j THEN {} ELSE {"fault"})
                 \cup (IF j.op = "exit" /\ j.v # 0 THEN {"code"} ELSE {})
  /\ differ' = (\/ differ
                \/ hart[1].pc # hart[2].pc
                \/ \E name \in touched'[1] \cap touched'[2] : ValueOf(g, name) # ValueOf(d, name))

\* Machine m does what its entry does to its shadow, and leaves the rest.
EffectOf(m, h, g, i, mods) ==
  /\ Effect(h, g, i, mods)
  /\ \A name \in {X1, V1, "fcsr", "mscratch"} \ Touches(i) : ValueOf(g, name) = ValueOf(h, name)

LEMMA KeptX ==
  ASSUME NEW m, NEW h, NEW g, NEW i, NEW mods, EffectOf(m, h, g, i, mods), X1 \notin Touches(i)
  PROVE  g.x1 = h.x1
<1>1. X1 \in {X1, V1, "fcsr", "mscratch"} \ Touches(i)
  OBVIOUS
<1>2. ValueOf(g, X1) = ValueOf(h, X1)
  BY <1>1 DEF EffectOf
<1>3. \A k : ValueOf(k, X1) = k.x1
  BY DEF ValueOf, X1, V1
<1>4. QED
  BY <1>2, <1>3

\* Step is that.
LEMMA StepOfBoth ==
  ASSUME Machines, NEW i \in Program, NEW j \in AnyInst, Step(i, j), LowRange["fcsr"] > 1
  PROVE  \E g, d : /\ Both(i, j, g, d)
                   /\ EffectOf(1, hart[1], g, i, GoldMods(g, i))
                   /\ EffectOf(2, hart[2], d, j, DutWrites(d, j))
<1>1. PICK g, d : g = Execute(hart[1], i) /\ d = Execute(hart[2], j)
  OBVIOUS
<1>2. i \in AnyInst /\ TwoValued(hart[1]) /\ TwoValued(hart[2])
  BY SpinsWhenDone DEF Machines, HartShape, Sources
<1>3. TwoValued(g) /\ Executed(hart[1], i, g) /\ TwoValued(d) /\ Executed(hart[2], j, d)
  BY <1>1, <1>2, TwoValuedStep
<1>4. hart'[1] = g /\ hart'[2] = d
  <2>1. hart' = [m \in Sources |-> IF m = 1 THEN g ELSE d]
    BY <1>1 DEF Step
  <2>2. QED
    BY <2>1 DEF Sources
<1>5. touched'[1] = touched[1] \cup Touches(i) /\ touched'[2] = touched[2] \cup Touches(j)
  <2>1. touched' = [m \in Sources |-> IF m = 1 THEN touched[1] \cup Touches(i) ELSE touched[2] \cup Touches(j)]
    BY DEF Step
  <2>2. QED
    BY <2>1 DEF Sources
<1>6. GoldStep(i, g)
  <2>1. gold' = gold \o GoldLogs(g, i)
    BY <1>1 DEF Step
  <2>2. QED
    BY <2>1, GoldGrows DEF Machines
<1>7. DutStep(j, d)
  BY <1>1, StepDut DEF Machines
<1>8. differ' = (\/ differ
                 \/ hart[1].pc # hart[2].pc
                 \/ \E name \in touched'[1] \cap touched'[2] : ValueOf(g, name) # ValueOf(d, name))
  BY <1>1, <1>5 DEF Step
<1>9. Both(i, j, g, d)
  BY <1>3, <1>4, <1>5, <1>6, <1>7, <1>8 DEF Both, Step
<1>10. EffectOf(1, hart[1], g, i, GoldMods(g, i))
  BY <1>1, <1>2, EffectOfStep DEF EffectOf
<1>11. EffectOf(2, hart[2], d, j, DutWrites(d, j))
  BY <1>1, <1>2, EffectOfStep DEF EffectOf
<1>12. QED
  BY <1>9, <1>10, <1>11

\* After a step there are traces of the longer logs, of Spike and of Pokedex,
\* that extend the old ones.
LEMMA GoldTrace ==
  ASSUME Machines, NEW i, NEW g, GoldStep(i, g), hart'[1] = g, NEW G, Trace(gold, Len(gold), G),
         G[Len(gold)] = View(hart[1], Known(1)),
         touched'[1] = touched[1] \cup Touches(i),
         EffectOf(1, hart[1], g, i, GoldMods(g, i))
  PROVE  \E G2 : /\ Trace(gold', Len(gold'), G2) /\ Extends(G2, G, Len(gold))
                 /\ G2[Len(gold')] = View(hart'[1], Known(1)')
<1>1. PICK n, new : n = Len(gold) /\ new = View(g, Known(1)')
  OBVIOUS
<1>2. n \in Nat /\ n >= 1
  BY <1>1 DEF Machines, GoldInv, HartShape
<1>3. X1 \notin Touches(i) => g.x1 = hart[1].x1
  BY KeptX
<1>4. (IF X1 \in Touches(i) THEN g.x1 ELSE Known(1)) = Known(1)'
  BY <1>3, KnownNext DEF Sources
<1>5. Applies(G[n], GoldMods(g, i), new)
  <2>1. Applies(View(hart[1], Known(1)), GoldMods(g, i), View(g, IF X1 \in Touches(i) THEN g.x1 ELSE Known(1)))
    BY DEF EffectOf, Effect
  <2>2. QED
    BY <1>1, <1>4, <2>1
<1>6. CASE i.op = "ecall" /\ gold' = gold
  <2>1. GoldMods(g, i) = <<>>
    BY <1>6 DEF GoldMods, DutWrites
  <2>2. new = G[n]
    BY <1>5, <2>1 DEF Applies
  <2>3. Extends(G, G, Len(gold))
    BY DEF Extends
  <2>4. QED
    BY <1>1, <1>6, <2>2, <2>3
<1>7. CASE Grown(gold, gold', Commit(hart[1].pc, GoldMods(g, i)))
  <2>1. PICK c, t : c = Commit(hart[1].pc, GoldMods(g, i)) /\ t = gold'
    OBVIOUS
  <2>2. Len(t) = n + 1 /\ t[n + 1] = c /\ \A k \in 1 .. n : t[k] = gold[k]
    BY <1>1, <1>7, <2>1 DEF Grown
  <2>3. Applies(G[n], c.mods, new)
    BY <1>5, <2>1 DEF Commit
  <2>4. Trace(gold, n, G)
    BY <1>1
  <2>5. LongerTrace(t, n, new, G)
    BY <1>2, <2>2, <2>3, <2>4, TraceMore
  <2>6. QED
    BY <1>1, <2>1, <2>2, <2>5 DEF LongerTrace
<1>8. QED
  BY <1>6, <1>7 DEF GoldStep

LEMMA DutTrace ==
  ASSUME Machines, ended = "no", NEW j, NEW d, DutStep(j, d), hart'[2] = d, NEW D, Trace(dut, DutRan + 1, D),
         D[DutRan + 1] = View(hart[2], Known(2)),
         touched'[2] = touched[2] \cup Touches(j),
         EffectOf(2, hart[2], d, j, DutWrites(d, j))
  PROVE  \E D2 : /\ Trace(dut', DutRan' + 1, D2) /\ Extends(D2, D, DutRan + 1)
                 /\ D2[DutRan' + 1] = View(hart'[2], Known(2)')
<1>1. PICK n, new, t : n = DutRan + 1 /\ new = View(d, Known(2)') /\ t = dut'
  OBVIOUS
<1>2. n \in Nat /\ n >= 1 /\ DutRan' + 1 = n + 1 /\ DutRan + 2 = n + 1
  BY <1>1 DEF Machines, DutShape, DutStep
<1>3. X1 \notin Touches(j) => d.x1 = hart[2].x1
  BY KeptX
<1>4. (IF X1 \in Touches(j) THEN d.x1 ELSE Known(2)) = Known(2)'
  BY <1>3, KnownNext DEF Sources
<1>5. Applies(D[n], DutWrites(d, j), new)
  <2>1. Applies(View(hart[2], Known(2)), DutWrites(d, j), View(d, IF X1 \in Touches(j) THEN d.x1 ELSE Known(2)))
    BY DEF EffectOf, Effect
  <2>2. QED
    BY <1>1, <1>4, <2>1
<1>6. PICK c : c = Entry("commit", hart[2].pc, DutWrites(d, j), 0)
  OBVIOUS
<1>7. t[n + 1] = c /\ \A k \in 1 .. n : t[k] = dut[k]
  BY <1>1, <1>2, <1>6 DEF DutStep
<1>8. Applies(D[n], c.mods, new)
  BY <1>5, <1>6 DEF Entry
<1>9. Trace(dut, n, D)
  BY <1>1
<1>10. LongerTrace(t, n, new, D)
  BY <1>2, <1>7, <1>8, <1>9, TraceMore
<1>11. QED
  BY <1>1, <1>2, <1>10 DEF LongerTrace

\* Both together
LEMMA TracesStep ==
  ASSUME Machines, NEW i, NEW j, NEW g, NEW d, Both(i, j, g, d),
         EffectOf(1, hart[1], g, i, GoldMods(g, i)), EffectOf(2, hart[2], d, j, DutWrites(d, j)),
         NEW G, NEW D, RunTraces(G, D)
  PROVE  \E G2, D2 : TracesAfter(G, D, G2, D2)
<1>1. /\ Trace(gold, Len(gold), G) /\ G[Len(gold)] = View(hart[1], Known(1))
      /\ Trace(dut, DutRan + 1, D) /\ D[DutRan + 1] = View(hart[2], Known(2))
  BY DEF Both, RunTraces
<1>2. PICK G2 : /\ Trace(gold', Len(gold'), G2) /\ Extends(G2, G, Len(gold))
                /\ G2[Len(gold')] = View(hart'[1], Known(1)')
  BY <1>1, GoldTrace DEF Both
<1>3. PICK D2 : /\ Trace(dut', DutRan' + 1, D2) /\ Extends(D2, D, DutRan + 1)
                /\ D2[DutRan' + 1] = View(hart'[2], Known(2)')
  BY <1>1, DutTrace DEF Both
<1>4. QED
  BY <1>2, <1>3 DEF TracesAfter

\* What one round tells is not lost when the logs grow: by the pc, by the data,
\* or late.
Tell(G, D, r) == PcTells(r) \/ DataTells(G, D, r) \/ LateTells(r)

\* Both logs, and their traces, grow at most.
LogsGrow(G, D, G2, D2) ==
  /\ GoldRan \in Nat /\ GoldRan' \in Nat /\ GoldRan <= GoldRan'
  /\ DutRan \in Nat /\ DutRan' \in Nat /\ DutRan <= DutRan'
  /\ \A k \in 1 .. GoldRan + 1 : gold'[k] = gold[k] /\ G2[k] = G[k]
  /\ \A k \in 1 .. DutRan + 1 : dut'[k] = dut[k] /\ D2[k] = D[k]

LEMMA RoundKept ==
  ASSUME NEW G, NEW D, NEW G2, NEW D2, LogsGrow(G, D, G2, D2), NEW r \in 1 .. DutRan, r <= GoldRan
  PROVE  /\ gold'[r + 1] = gold[r + 1] /\ dut'[r + 1] = dut[r + 1] /\ r <= GoldRan'
         /\ G2[r + 1] = G[r + 1] /\ D2[r + 1] = D[r + 1]
<1>1. r + 1 \in 1 .. GoldRan + 1 /\ r + 1 \in 1 .. DutRan + 1 /\ r <= GoldRan'
  BY DEF LogsGrow
<1>2. QED
  BY <1>1 DEF LogsGrow

LEMMA PcTellsKept ==
  ASSUME NEW G, NEW D, NEW G2, NEW D2, LogsGrow(G, D, G2, D2), NEW r \in 1 .. DutRan, PcTells(r)
  PROVE  PcTells(r)'
BY RoundKept DEF PcTells

LEMMA DataTellsKept ==
  ASSUME NEW G, NEW D, NEW G2, NEW D2, LogsGrow(G, D, G2, D2), NEW r \in 1 .. DutRan,
         DataTells(G, D, r), causes \subseteq causes', ended = "no" => DutRan < DutRan'
  PROVE  DataTells(G2, D2, r)'
<1>1. /\ gold'[r + 1] = gold[r + 1] /\ dut'[r + 1] = dut[r + 1] /\ r <= GoldRan'
      /\ G2[r + 1] = G[r + 1] /\ D2[r + 1] = D[r + 1]
  BY RoundKept DEF DataTells
<1>2. ~DataAgree(G2, D2, r)'
  BY <1>1 DEF DataTells, DataAgree
<1>3. r < DutRan' \/ "fault" \in causes' \/ ended' = "no"
  BY DEF DataTells, LogsGrow
<1>4. QED
  BY <1>1, <1>2, <1>3 DEF DataTells

\* When Spike gets on, what it would have been late for is in its log.
LEMMA LateTellsKept ==
  ASSUME NEW G, NEW D, NEW G2, NEW D2, LogsGrow(G, D, G2, D2), NEW r \in 1 .. DutRan, LateTells(r),
         Len(gold) \in Nat, Len(gold) >= 1,
         NEW i, NEW g, GoldStep(i, g), hart'[1] = g, Executed(hart[1], i, g), hart[1].done => i.op = "spin"
  PROVE  PcTells(r)' \/ LateTells(r)'
<1>1. /\ r > GoldRan /\ hart[1].pc # dut[r + 1].pc
      /\ (r = GoldRan + 1 /\ hart[1].pc = TrapPc) \/ hart[1].done
  BY DEF LateTells
<1>2. dut'[r + 1] = dut[r + 1]
  <2>1. r + 1 \in 1 .. DutRan + 1
    BY DEF LogsGrow
  <2>2. QED
    BY <2>1 DEF LogsGrow
<1>3. CASE i.op = "ecall" /\ gold' = gold
  <2>1. ~hart[1].done /\ g.pc = TrapPc
    BY <1>3 DEF Executed
  <2>2. GoldRan' = GoldRan
    BY <1>3 DEF GoldRan
  <2>3. LateTells(r)'
    BY <1>1, <1>2, <2>1, <2>2 DEF LateTells
  <2>4. QED
    BY <2>3
<1>4. CASE Grown(gold, gold', Commit(hart[1].pc, GoldMods(g, i)))
  <2>1. GoldRan' = GoldRan + 1 /\ Len(gold) + 1 = GoldRan + 2
    BY <1>4 DEF Grown, GoldRan
  <2>2. gold'[Len(gold) + 1].pc = hart[1].pc
    BY <1>4 DEF Grown, Commit
  <2>3. CASE r = GoldRan + 1
    <3>1. r + 1 = Len(gold) + 1 /\ r <= GoldRan'
      BY <2>1, <2>3 DEF LogsGrow, GoldRan
    <3>2. PcTells(r)'
      BY <1>1, <1>2, <2>2, <3>1 DEF PcTells
    <3>3. QED
      BY <3>2
  <2>4. CASE r # GoldRan + 1
    <3>1. hart[1].done /\ g.pc = hart[1].pc /\ g.done
      BY <1>1, <2>4 DEF Executed
    <3>2. r > GoldRan'
      BY <1>1, <2>1, <2>4 DEF LogsGrow
    <3>3. LateTells(r)'
      BY <1>1, <1>2, <3>1, <3>2 DEF LateTells
    <3>4. QED
      BY <3>3
  <2>5. QED
    BY <2>3, <2>4
<1>5. QED
  BY <1>3, <1>4 DEF GoldStep

\* So what has been told stays told.
LEMMA ToldKept ==
  ASSUME NEW G, NEW D, NEW G2, NEW D2, LogsGrow(G, D, G2, D2), Told(G, D),
         causes \subseteq causes', ended = "no" => DutRan < DutRan',
         Len(gold) \in Nat, Len(gold) >= 1,
         NEW i, NEW g, GoldStep(i, g), hart'[1] = g, Executed(hart[1], i, g), hart[1].done => i.op = "spin"
  PROVE  Told(G2, D2)'
<1>1. PICK r \in 1 .. DutRan : PcTells(r) \/ DataTells(G, D, r) \/ LateTells(r)
  BY DEF Told
<1>2. r \in 1 .. DutRan'
  BY DEF LogsGrow
<1>3. CASE PcTells(r)
  BY <1>2, <1>3, PcTellsKept DEF Told
<1>4. CASE DataTells(G, D, r)
  <2>1. DataTells(G2, D2, r)'
    BY <1>4, DataTellsKept
  <2>2. QED
    BY <1>2, <2>1 DEF Told
<1>5. CASE LateTells(r)
  <2>1. PcTells(r)' \/ LateTells(r)'
    BY <1>5, LateTellsKept
  <2>2. QED
    BY <1>2, <2>1 DEF Told
<1>6. QED
  BY <1>1, <1>3, <1>4, <1>5

\* The logs after a step of both machines
LEMMA GoldLength ==
  ASSUME GoldInv, NEW i, NEW g, GoldStep(i, g)
  PROVE  /\ GoldRan' = IF i.op = "ecall" THEN GoldRan ELSE GoldRan + 1
         /\ Len(gold') = GoldRan' + 1 /\ Len(gold) = GoldRan + 1
         /\ \A k \in 1 .. Len(gold) : gold'[k] = gold[k]
         /\ i.op # "ecall" => gold'[GoldRan + 2] = Commit(hart[1].pc, GoldMods(g, i))
<1>1. Len(gold) \in Nat
  BY DEF GoldInv
<1>2. CASE i.op = "ecall" /\ gold' = gold
  BY <1>1, <1>2 DEF GoldRan
<1>3. CASE i.op # "ecall" /\ Grown(gold, gold', Commit(hart[1].pc, GoldMods(g, i)))
  <2>1. /\ Len(gold') = Len(gold) + 1 /\ gold'[Len(gold) + 1] = Commit(hart[1].pc, GoldMods(g, i))
        /\ \A k \in 1 .. Len(gold) : gold'[k] = gold[k]
    BY <1>3 DEF Grown
  <2>2. GoldRan' = Len(gold) /\ Len(gold) = GoldRan + 1 /\ Len(gold) + 1 = GoldRan + 2
    BY <1>1, <2>1 DEF GoldRan
  <2>3. QED
    BY <1>3, <2>1, <2>2
<1>4. QED
  BY <1>2, <1>3 DEF GoldStep

LEMMA StepGrows ==
  ASSUME Machines, NEW i, NEW j, NEW g, NEW d, Both(i, j, g, d),
         NEW G, NEW D, NEW G2, NEW D2, TracesAfter(G, D, G2, D2)
  PROVE  LogsGrow(G, D, G2, D2) /\ DutRan' = DutRan + 1 /\ DutRan' <= MaxInsts
<1>1. GoldInv /\ GoldStep(i, g) /\ DutStep(j, d) /\ ended = "no" /\ Len(dut) <= MaxInsts
  BY DEF Machines, Both
<1>2. GoldRan \in Nat
  BY <1>1 DEF Machines, GoldRan, GoldInv, HartShape
<1>3. /\ GoldRan' = IF i.op = "ecall" THEN GoldRan ELSE GoldRan + 1
      /\ Len(gold') = GoldRan' + 1 /\ Len(gold) = GoldRan + 1
      /\ \A k \in 1 .. Len(gold) : gold'[k] = gold[k]
  BY <1>1, GoldLength
<1>4. DutRan \in Nat /\ DutRan' = DutRan + 1 /\ \A k \in 1 .. DutRan + 1 : dut'[k] = dut[k]
  BY <1>1 DEF Machines, DutShape, DutStep
<1>5. DutRan' <= MaxInsts
  BY <1>1, <1>4, CosimAssumption DEF DutRan, Machines, DutShape
<1>6. /\ \A k \in 1 .. GoldRan + 1 : G2[k] = G[k]
      /\ \A k \in 1 .. DutRan + 1 : D2[k] = D[k]
  BY <1>3 DEF TracesAfter, Extends
<1>7. QED
  BY <1>2, <1>3, <1>4, <1>5, <1>6 DEF LogsGrow

\* A register or CSR that both machines have written now differs: the round
\* of this step compares it.
LEMMA NewDifference ==
  ASSUME Machines, NEW i, NEW j, NEW g, NEW d, Both(i, j, g, d),
         EffectOf(1, hart[1], g, i, GoldMods(g, i)), EffectOf(2, hart[2], d, j, DutWrites(d, j)),
         NEW G, NEW D, NEW G2, NEW D2, TracesAfter(G, D, G2, D2),
         i.op # "ecall", GoldRan = DutRan, Common,
         NEW name \in touched'[1] \cap touched'[2], ValueOf(g, name) # ValueOf(d, name),
         NEW n, n = DutRan
  PROVE  DataTells(G2, D2, n + 1)'
<1>2. n \in Nat /\ LogsGrow(G, D, G2, D2) /\ DutRan' = n + 1 /\ GoldInv
  BY StepGrows DEF LogsGrow, Machines
<1>3. GoldRan' = n + 1 /\ Len(gold') = n + 2 /\ gold'[n + 2] = Commit(hart[1].pc, GoldMods(g, i))
  BY <1>2, GoldLength DEF Both
<1>4. dut'[n + 2] = Entry("commit", hart[2].pc, DutWrites(d, j), 0)
  BY DEF Both, DutStep
<1>5. gold'[n + 2].mods = GoldMods(g, i) /\ dut'[n + 2].mods = DutWrites(d, j)
  BY <1>3, <1>4 DEF Commit, Entry
<1>6. Marks(GoldMods(g, i)) = Touches(i) \cap {X1, V1} /\ Marks(DutWrites(d, j)) = Touches(j) \cap {X1, V1}
  BY DEF EffectOf, Effect
<1>7. hart'[1] = g /\ hart'[2] = d /\ touched'[1] = touched[1] \cup Touches(i) /\ touched'[2] = touched[2] \cup Touches(j)
  BY DEF Both
<1>8. name \in {X1, V1, "fcsr", "mscratch"}
  <2>1. touched[1] \subseteq {X1, V1, "fcsr", "mscratch"}
    BY DEF Machines, HartShape, Sources
  <2>2. QED
    BY <1>7, <2>1, TouchesNames
<1>9. name \in Touches(i) \cup Touches(j)
  <2>1. SUFFICES ASSUME name \notin Touches(i), name \notin Touches(j) PROVE FALSE
    OBVIOUS
  <2>2. name \in touched[1] \cap touched[2]
    BY <1>7, <2>1
  <2>3. ValueOf(g, name) = ValueOf(hart[1], name) /\ ValueOf(d, name) = ValueOf(hart[2], name)
    BY <1>8, <2>1 DEF EffectOf
  <2>4. QED
    BY <2>2, <2>3 DEF Common
<1>10. G2[n + 2] = View(g, Known(1)') /\ D2[n + 2] = View(d, Known(2)')
  <2>1. (n + 1) + 1 = n + 2
    BY <1>2
  <2>2. QED
    BY <1>2, <1>3, <1>7, <2>1 DEF TracesAfter
<1>11. ~DataAgree(G2, D2, n + 1)'
  <2>1. SUFFICES ASSUME DataAgree(G2, D2, n + 1)' PROVE FALSE
    OBVIOUS
  <2>2. (n + 1) + 1 = n + 2
    BY <1>2
  <2>3. /\ G2[n + 2].csr = D2[n + 2].csr
        /\ \A x \in Marks(GoldMods(g, i)) \cup Marks(DutWrites(d, j)) : G2[n + 2].regs[x] = D2[n + 2].regs[x]
    BY <1>5, <2>1, <2>2 DEF DataAgree
  <2>4. CASE name = "fcsr"
    <3>1. ValueOf(g, "fcsr") = Fcsr(g) /\ ValueOf(d, "fcsr") = Fcsr(d)
      BY DEF ValueOf, X1, V1
    <3>2. "fcsr" \in Fields
      BY Names3
    <3>3. G2[n + 2].csr["fcsr"] = Fcsr(g) /\ D2[n + 2].csr["fcsr"] = Fcsr(d)
      BY <1>10, <3>2 DEF View, Shadow
    <3>4. QED
      BY <2>3, <2>4, <3>1, <3>3
  <2>5. CASE name = "mscratch"
    <3>1. ValueOf(g, "mscratch") = g.mscratch /\ ValueOf(d, "mscratch") = d.mscratch
      BY DEF ValueOf, X1, V1
    <3>2. "mscratch" \in Fields
      BY Names3
    <3>3. G2[n + 2].csr["mscratch"] = g.mscratch /\ D2[n + 2].csr["mscratch"] = d.mscratch
      BY <1>10, <3>2 DEF View, Shadow
    <3>4. QED
      BY <2>3, <2>5, <3>1, <3>3
  <2>6. CASE name = X1
    <3>1. ValueOf(g, X1) = g.x1 /\ ValueOf(d, X1) = d.x1
      BY DEF ValueOf, X1, V1
    <3>2. X1 \in Regs
      BY Names3 DEF X1
    <3>3. Known(1)' = g.x1 /\ Known(2)' = d.x1
      BY <1>7, <2>6 DEF Known
    <3>4. G2[n + 2].regs[X1] = g.x1 /\ D2[n + 2].regs[X1] = d.x1
      BY <1>10, <3>2, <3>3 DEF View, Shadow
    <3>5. X1 \in Marks(GoldMods(g, i)) \cup Marks(DutWrites(d, j))
      BY <1>6, <1>9, <2>6
    <3>6. QED
      BY <2>3, <2>6, <3>1, <3>4, <3>5
  <2>7. CASE name = V1
    <3>1. ValueOf(g, V1) = g.v1 /\ ValueOf(d, V1) = d.v1
      BY DEF ValueOf, X1, V1
    <3>2. V1 \in Regs /\ V1 # X1
      BY Names3 DEF X1, V1
    <3>3. G2[n + 2].regs[V1] = g.v1 /\ D2[n + 2].regs[V1] = d.v1
      BY <1>10, <3>2 DEF View, Shadow
    <3>4. V1 \in Marks(GoldMods(g, i)) \cup Marks(DutWrites(d, j))
      BY <1>6, <1>9, <2>7
    <3>5. QED
      BY <2>3, <2>7, <3>1, <3>3, <3>4
  <2>8. QED
    BY <1>8, <2>4, <2>5, <2>6, <2>7
<1>12. "fault" \in causes' \/ ended' = "no"
  <2>1. CASE i = j
    <3>1. i.op # "exit"
      BY <1>9, <2>1 DEF Touches
    <3>2. QED
      BY <2>1, <3>1 DEF Both
  <2>2. CASE i # j
    BY <2>2 DEF Both
  <2>3. QED
    BY <2>1, <2>2
<1>13. n + 1 <= GoldRan'
  BY <1>2, <1>3
<1>14. DataTells(G2, D2, n + 1)'
  BY <1>11, <1>12, <1>13 DEF DataTells
<1>15. QED
  BY <1>14

\* What a step of both machines that nothing has told apart leads to
LEMMA CalmStep ==
  ASSUME Machines, NEW i \in Program, NEW j \in AnyInst, NEW g, NEW d, Both(i, j, g, d),
         EffectOf(1, hart[1], g, i, GoldMods(g, i)), EffectOf(2, hart[2], d, j, DutWrites(d, j)),
         NEW G, NEW D, NEW G2, NEW D2, TracesAfter(G, D, G2, D2), Calm
  PROVE  RunTells(G2, D2)'
<1>1. PICK n : n = DutRan
  OBVIOUS
<1>2. n \in Nat /\ LogsGrow(G, D, G2, D2) /\ DutRan' = n + 1 /\ n + 1 <= MaxInsts /\ GoldInv
  BY <1>1, StepGrows DEF LogsGrow, Machines
<1>3. /\ hart'[1] = g /\ hart'[2] = d /\ touched'[1] = touched[1] \cup Touches(i) /\ touched'[2] = touched[2] \cup Touches(j)
      /\ GoldStep(i, g) /\ ended = "no" /\ Executed(hart[1], i, g) /\ Executed(hart[2], j, d)
  BY DEF Both
<1>4. ~differ /\ "trap" \notin causes /\ GoldRan = n /\ Common
  BY <1>1, <1>3 DEF Calm
<1>5. hart[1].pc \in Nat /\ hart[2].pc \in Nat
  BY DEF Machines, GoldInv, HartStates, Sources
<1>6. dut'[n + 2].pc = hart[2].pc
  BY <1>1 DEF Both, DutStep, Entry
<1>7. n + 1 \in 1 .. DutRan' /\ (n + 1) + 1 = n + 2
  BY <1>2
<1>8. causes' = causes \cup CausesOf(i) \cup (IF i = j THEN {} ELSE {"fault"})
                 \cup (IF j.op = "exit" /\ j.v # 0 THEN {"code"} ELSE {})
  BY DEF Both
<1>9. CASE i.op = "ecall"
  <2>1. g.pc = TrapPc /\ GoldRan' = n
    BY <1>2, <1>3, <1>4, <1>9, GoldLength DEF Executed
  <2>2. CASE hart[2].pc # TrapPc
    <3>1. LateTells(n + 1)'
      <4>1. n + 1 > GoldRan' /\ n + 1 = GoldRan' + 1 /\ hart'[1].pc = TrapPc
        BY <1>2, <1>3, <2>1
      <4>2. QED
        BY <1>6, <1>7, <2>2, <4>1 DEF LateTells
    <3>2. QED
      BY <1>7, <3>1 DEF RunTells, Told
  <2>3. CASE hart[2].pc = TrapPc
    <3>1. "fault" \in causes
      <4>1. SUFFICES ASSUME "fault" \notin causes PROVE FALSE
        OBVIOUS
      <4>2. hart[2].pc <= ResetPc + 8 * n
        BY <1>1, <1>3, <4>1 DEF Calm
      <4>3. TrapPc > ResetPc + 8 * MaxInsts /\ TrapPc \in Nat /\ MaxInsts \in Nat
        BY HandlerAssumption, CosimAssumption
      <4>4. QED
        BY <1>2, <2>3, <4>2, <4>3 DEF ResetPc
    <3>2. i = j
      BY <3>1 DEF Both, Faultless
    <3>3. d.pc = TrapPc /\ j.op # "exit"
      BY <1>3, <1>9, <3>2 DEF Executed
    <3>4. ended' = "no" /\ "fault" \in causes'
      BY <1>8, <3>1, <3>3 DEF Both
    <3>5. GoldRan' < DutRan'
      BY <1>2, <2>1
    <3>6. Ahead'
      BY <1>3, <2>1, <3>3, <3>4, <3>5 DEF Ahead
    <3>7. QED
      BY <3>6 DEF RunTells
  <2>4. QED
    BY <2>2, <2>3
<1>10. CASE i.op # "ecall"
  <2>1. GoldRan' = n + 1 /\ gold'[n + 2] = Commit(hart[1].pc, GoldMods(g, i))
    BY <1>2, <1>3, <1>4, <1>10, GoldLength
  <2>2. gold'[n + 2].pc = hart[1].pc
    BY <2>1 DEF Commit
  <2>3. CASE hart[1].pc # hart[2].pc
    <3>1. PcTells(n + 1)'
      BY <1>2, <1>6, <1>7, <2>1, <2>2, <2>3 DEF PcTells
    <3>2. QED
      BY <1>7, <3>1 DEF RunTells, Told
  <2>4. CASE \E name \in touched'[1] \cap touched'[2] : ValueOf(g, name) # ValueOf(d, name)
    <3>1. PICK name \in touched'[1] \cap touched'[2] : ValueOf(g, name) # ValueOf(d, name)
      BY <2>4
    <3>2. GoldRan = DutRan
      BY <1>1, <1>4
    <3>3. DataTells(G2, D2, n + 1)'
      BY <1>1, <1>4, <1>10, <3>1, <3>2, NewDifference
    <3>4. QED
      BY <1>7, <3>3 DEF RunTells, Told
  <2>5. CASE /\ hart[1].pc = hart[2].pc
             /\ \A name \in touched'[1] \cap touched'[2] : ValueOf(g, name) = ValueOf(d, name)
    <3>1. ~differ'
      BY <1>4, <2>5 DEF Both
    <3>2. "trap" \notin causes'
      BY <1>4, <1>8, <1>10 DEF CausesOf
    <3>3. Common'
      BY <1>3, <2>5 DEF Common
    <3>4. ASSUME "fault" \notin causes' PROVE g.pc = d.pc /\ g.pc <= ResetPc + 8 * (n + 1)
      <4>1. i = j /\ "fault" \notin causes
        BY <1>8, <3>4
      <4>2. hart[1].pc <= ResetPc + 8 * n
        BY <1>1, <1>3, <4>1 DEF Calm
      <4>3. g.pc = d.pc /\ g.pc \in {hart[1].pc, hart[1].pc + 4, hart[1].pc + 8}
        BY <1>3, <1>10, <2>5, <4>1 DEF Executed
      <4>4. QED
        BY <1>2, <1>5, <4>2, <4>3 DEF ResetPc
    <3>5. Calm'
      BY <1>2, <1>3, <2>1, <3>1, <3>2, <3>3, <3>4 DEF Calm
    <3>6. QED
      BY <3>5 DEF RunTells
  <2>6. QED
    BY <2>3, <2>4, <2>5
<1>11. QED
  BY <1>9, <1>10

\* And when Spike has logged less
LEMMA AheadStep ==
  ASSUME Machines, NEW i \in Program, NEW j \in AnyInst, NEW g, NEW d, Both(i, j, g, d),
         NEW G, NEW D, NEW G2, NEW D2, TracesAfter(G, D, G2, D2), Ahead
  PROVE  RunTells(G2, D2)'
<1>1. PICK n, m : n = DutRan /\ m = GoldRan
  OBVIOUS
<1>2. n \in Nat /\ m \in Nat /\ LogsGrow(G, D, G2, D2) /\ DutRan' = n + 1 /\ GoldInv
  BY <1>1, StepGrows DEF LogsGrow, Machines
<1>3. /\ hart'[1] = g /\ hart'[2] = d /\ GoldStep(i, g)
      /\ Executed(hart[1], i, g) /\ Executed(hart[2], j, d)
      /\ ended' = IF j.op = "exit" THEN "exit" ELSE "no"
  BY DEF Both
<1>4. "fault" \in causes /\ m < n /\ hart[1].pc = hart[2].pc
  BY <1>1 DEF Ahead
<1>5. i = j /\ "fault" \in causes'
  BY <1>4 DEF Both, Faultless
<1>6. g.pc = d.pc
  BY <1>3, <1>4, <1>5 DEF Executed
<1>7. GoldRan' < n + 1 /\ GoldRan' \in Nat
  BY <1>1, <1>2, <1>3, <1>4, GoldLength
<1>8. CASE ended' = "no"
  <2>1. Ahead'
    BY <1>2, <1>3, <1>5, <1>6, <1>7, <1>8 DEF Ahead
  <2>2. QED
    BY <2>1 DEF RunTells
<1>9. CASE ended' # "no"
  <2>1. j.op = "exit" /\ hart[1].pc \in Nat
    BY <1>3, <1>9 DEF Machines, GoldInv, HartStates, Sources
  <2>2. g.done /\ g.pc = hart[1].pc + 4
    BY <1>3, <1>5, <2>1 DEF Executed
  <2>3. dut'[n + 2].pc = hart[2].pc
    BY <1>1 DEF Both, DutStep, Entry
  <2>4. (n + 1) + 1 = n + 2 /\ n + 1 \in 1 .. DutRan' /\ n + 1 > GoldRan'
    BY <1>2, <1>7
  <2>5. g.pc # dut'[n + 2].pc
    BY <1>4, <2>1, <2>2, <2>3
  <2>6. LateTells(n + 1)'
    BY <1>3, <2>2, <2>4, <2>5 DEF LateTells
  <2>7. QED
    BY <2>4, <2>6 DEF RunTells, Told
<1>10. QED
  BY <1>8, <1>9

\* All three cases: a step of both machines keeps RunTells.
LEMMA TellsStep ==
  ASSUME Machines, NEW i \in Program, NEW j \in AnyInst, NEW g, NEW d, Both(i, j, g, d),
         EffectOf(1, hart[1], g, i, GoldMods(g, i)), EffectOf(2, hart[2], d, j, DutWrites(d, j)),
         NEW G, NEW D, NEW G2, NEW D2, TracesAfter(G, D, G2, D2), RunTells(G, D)
  PROVE  RunTells(G2, D2)'
<1>1. ended = "no"
  BY DEF Both
<1>2. CASE Told(G, D)
  <2>1. LogsGrow(G, D, G2, D2) /\ DutRan' = DutRan + 1
    BY StepGrows
  <2>2. /\ causes \subseteq causes' /\ GoldStep(i, g) /\ hart'[1] = g /\ Executed(hart[1], i, g)
    BY DEF Both
  <2>3. hart[1].done => i.op = "spin"
    <3>1. hart[1].done => i = Inst("spin", 0)
      BY DEF Program
    <3>2. QED
      BY <3>1 DEF Inst
  <2>4. Len(gold) \in Nat /\ Len(gold) >= 1 /\ (ended = "no" => DutRan < DutRan')
    BY <2>1 DEF LogsGrow, Machines, GoldInv, HartShape
  <2>5. Told(G2, D2)'
    BY <1>2, <2>1, <2>2, <2>3, <2>4, ToldKept
  <2>6. QED
    BY <2>5 DEF RunTells
<1>3. QED
  BY <1>1, <1>2, CalmStep, AheadStep DEF RunTells

\* An entry can be replayed on any shadow state.
LEMMA AppliesToAny ==
  ASSUME NEW a, NEW mods, NEW b, Applies(a, mods, b), NEW old
  PROVE  \E new : Applies(old, mods, new)
<1>1. CASE Idle(mods)
  BY <1>1 DEF Applies
<1>2. CASE \E e \in DOMAIN mods : Only(mods, e)
  BY <1>2 DEF Applies
<1>3. QED
  BY <1>1, <1>2 DEF Applies

\* Spike runs on after the end of Pokedex: its trace grows, and RunTells is
\* kept.
LEMMA RunOnFacts ==
  ASSUME Machines, LowRange["fcsr"] > 1, NEW i \in Program, RunOn(i)
  PROVE  \E g : /\ GoldStep(i, g) /\ i.op # "ecall" /\ EffectOf(1, hart[1], g, i, GoldMods(g, i))
                /\ hart'[1] = g /\ Executed(hart[1], i, g) /\ TwoValued(g)
<1>1. PICK g : g = Execute(hart[1], i)
  OBVIOUS
<1>2. i \in AnyInst /\ TwoValued(hart[1])
  BY SpinsWhenDone DEF Machines, HartShape, Sources
<1>3. TwoValued(g) /\ Executed(hart[1], i, g)
  BY <1>1, <1>2, TwoValuedStep
<1>4. hart' = [hart EXCEPT ![1] = g] /\ gold' = gold \o GoldLogs(g, i) /\ GoldLogs(g, i) # <<>>
  BY <1>1 DEF RunOn
<1>5. i.op # "ecall"
  BY <1>4 DEF GoldLogs
<1>6. GoldStep(i, g)
  BY <1>4, GoldGrows DEF Machines
<1>7. hart'[1] = g
  BY <1>4 DEF Machines, GoldInv, Sources
<1>8. LowRange["fcsr"] > 1 => EffectOf(1, hart[1], g, i, GoldMods(g, i))
  BY <1>1, <1>2, EffectOfStep DEF EffectOf
<1>9. QED
  BY <1>3, <1>5, <1>6, <1>7, <1>8

LEMMA RunOnTraces ==
  ASSUME Machines, LowRange["fcsr"] > 1, NEW i \in Program, RunOn(i), NEW G, NEW D, RunTraces(G, D)
  PROVE  \E G2 : RunTraces(G2, D)' /\ Extends(G2, G, Len(gold))
<1>1. PICK g : /\ GoldStep(i, g) /\ i.op # "ecall" /\ EffectOf(1, hart[1], g, i, GoldMods(g, i))
  BY RunOnFacts
<1>2. PICK n, t, c : n = Len(gold) /\ t = gold' /\ c = Commit(hart[1].pc, GoldMods(g, i))
  OBVIOUS
<1>3. n \in Nat /\ n >= 1 /\ Trace(gold, n, G)
  BY <1>2 DEF Machines, GoldInv, HartShape, RunTraces
<1>4. Len(t) = n + 1 /\ t[n + 1] = c /\ \A k \in 1 .. n : t[k] = gold[k]
  BY <1>1, <1>2 DEF GoldStep, Grown
<1>5. PICK new : Applies(G[n], c.mods, new)
  <2>1. \E new : Applies(G[n], GoldMods(g, i), new)
    BY <1>1, AppliesToAny DEF EffectOf, Effect
  <2>2. QED
    BY <1>2, <2>1 DEF Commit
<1>6. LongerTrace(t, n, new, G)
  BY <1>3, <1>4, <1>5, TraceMore
<1>7. PICK G2 : Trace(t, n + 1, G2) /\ Extends(G2, G, n)
  BY <1>6 DEF LongerTrace
<1>8. ended # "no" /\ UNCHANGED <<ended, dut>>
  BY DEF RunOn
<1>9. DutRan' = DutRan
  BY <1>8 DEF DutRan
<1>10. RunTraces(G2, D)'
  <2>1. Trace(gold', Len(gold'), G2)
    BY <1>2, <1>4, <1>7
  <2>2. ended # "crash" => Trace(dut', DutRan' + 1, D)
    BY <1>8, <1>9 DEF RunTraces
  <2>3. QED
    BY <1>8, <2>1, <2>2 DEF RunTraces
<1>11. QED
  BY <1>2, <1>7, <1>10

LEMMA RunOnTells ==
  ASSUME Machines, LowRange["fcsr"] > 1, NEW i \in Program, RunOn(i), NEW G, NEW D, RunTells(G, D),
         NEW G2, Extends(G2, G, Len(gold))
  PROVE  RunTells(G2, D)'
<1>1. ended # "no" /\ UNCHANGED <<ended, dut, causes, differ>>
  BY DEF RunOn
<1>2. CASE ended = "crash"
  BY <1>1, <1>2 DEF RunTells
<1>3. CASE ended # "crash" /\ Told(G, D)
  <2>1. PICK g : GoldStep(i, g) /\ i.op # "ecall" /\ hart'[1] = g /\ Executed(hart[1], i, g)
    BY RunOnFacts
  <2>2. DutRan \in Nat /\ DutRan' = DutRan
    BY <1>1, <1>3 DEF Machines, DutShape, DutRan
  <2>3. GoldRan \in Nat /\ Len(gold) \in Nat /\ Len(gold) >= 1
    BY DEF Machines, GoldRan, GoldInv, HartShape
  <2>4. /\ GoldRan' = GoldRan + 1 /\ Len(gold) = GoldRan + 1
        /\ \A k \in 1 .. Len(gold) : gold'[k] = gold[k]
    BY <2>1, GoldLength DEF Machines
  <2>5. LogsGrow(G, D, G2, D)
    BY <1>1, <2>2, <2>3, <2>4 DEF LogsGrow, Extends
  <2>6. hart[1].done => i.op = "spin"
    BY DEF Program, Inst
  <2>7. Told(G2, D)'
    BY <1>1, <1>3, <2>1, <2>3, <2>5, <2>6, ToldKept
  <2>8. QED
    BY <2>7 DEF RunTells
<1>4. CASE Calm
  BY <1>1, <1>4 DEF Calm, RunTells
<1>5. QED
  BY <1>1, <1>2, <1>3, <1>4 DEF RunTells, Ahead

-----------------------------------------------------------------------------
(* The steps that write neither log *)

\* The logs are not written any more.
LEMMA QuietTraces ==
  ASSUME UNCHANGED <<hart, gold, dut, ended, touched>>, NEW G, NEW D, RunTraces(G, D)
  PROVE  RunTraces(G, D)'
<1>1. DutRan' = DutRan /\ Known(1)' = Known(1) /\ Known(2)' = Known(2)
  BY DEF DutRan, Known
<1>2. QED
  BY <1>1 DEF RunTraces

LEMMA QuietTells ==
  ASSUME UNCHANGED <<hart, gold, dut, ended, touched, differ>>, NEW G, NEW D, RunTells(G, D),
         causes' = causes \/ (ended # "no" /\ causes' = causes \cup {"cut"})
  PROVE  RunTells(G, D)'
<1>1. DutRan' = DutRan /\ GoldRan' = GoldRan
  BY DEF DutRan, GoldRan
<1>2. CASE ended = "crash"
  BY <1>2 DEF RunTells
<1>3. CASE Told(G, D)
  <2>1. PICK r \in 1 .. DutRan : PcTells(r) \/ DataTells(G, D, r) \/ LateTells(r)
    BY <1>3 DEF Told
  <2>2. PcTells(r) => PcTells(r)'
    BY <1>1 DEF PcTells
  <2>3. LateTells(r) => LateTells(r)'
    BY <1>1 DEF LateTells
  <2>4. DataAgree(G, D, r)' = DataAgree(G, D, r)
    BY DEF DataAgree
  <2>5. DataTells(G, D, r) => DataTells(G, D, r)'
    BY <1>1, <2>4 DEF DataTells
  <2>6. Told(G, D)'
    BY <1>1, <2>1, <2>2, <2>3, <2>5 DEF Told
  <2>7. QED
    BY <2>6 DEF RunTells
<1>4. CASE Ahead
  BY <1>1, <1>4 DEF Ahead, RunTells
<1>5. CASE Calm
  BY <1>1, <1>5 DEF Calm, Common, RunTells
<1>6. QED
  BY <1>2, <1>3, <1>4, <1>5 DEF RunTells

\* After a crash nothing is claimed of the run.
LEMMA CrashTraces ==
  ASSUME Crash, NEW G, NEW D, RunTraces(G, D)
  PROVE  RunTraces(G, D)' /\ RunTells(G, D)'
BY DEF Crash, RunTraces, RunTells

\* At the start both traces are the shadow of the reset, and the machines are
\* calm.
LEMMA TracesInit ==
  ASSUME CosimInit
  PROVE  \E G, D : RunTraces(G, D) /\ RunTells(G, D)
<1>1. PICK G : G = [k \in {1} |-> Shadow(0, 0, 0, 0)]
  OBVIOUS
<1>2. G[1] = Shadow(0, 0, 0, 0)
  BY <1>1
<1>3. Len(gold) = 1 /\ Len(dut) = 1 /\ ended = "no"
  BY DEF CosimInit
<1>4. DutRan = 0 /\ GoldRan = 0
  BY <1>3 DEF DutRan, GoldRan
<1>5. Trace(gold, Len(gold), G) /\ Trace(dut, DutRan + 1, G)
  BY <1>2, <1>3, <1>4 DEF Trace
<1>6. \A m \in Sources : hart[m].pc = ResetPc /\ Known(m) = 0 /\ View(hart[m], 0) = Shadow(0, 0, 0, 0)
  <2>1. SUFFICES ASSUME NEW m \in Sources
                 PROVE  hart[m].pc = ResetPc /\ Known(m) = 0 /\ View(hart[m], 0) = Shadow(0, 0, 0, 0)
    OBVIOUS
  <2>2. hart = [k \in Sources |->
          [pc |-> ResetPc, x1 |-> IF k = 1 THEN 1 ELSE 0, v1 |-> 0,
           fflags |-> 0, frm |-> 0, mscratch |-> 0, done |-> FALSE]]
    BY DEF CosimInit
  <2>3. /\ hart[m].pc = ResetPc /\ hart[m].v1 = 0 /\ hart[m].fflags = 0
        /\ hart[m].frm = 0 /\ hart[m].mscratch = 0
    BY <2>2
  <2>4. Fcsr(hart[m]) = 0
    <3>1. LowRange["fcsr"] \in Nat
      BY CsrAssumption DEF Whole
    <3>2. QED
      BY <2>3, <3>1 DEF Fcsr
  <2>5. Known(m) = 0
    BY DEF Known, CosimInit
  <2>6. QED
    BY <2>3, <2>4, <2>5 DEF View
<1>7. RunTraces(G, G)
  BY <1>2, <1>3, <1>4, <1>5, <1>6 DEF RunTraces, Sources
<1>8. Calm
  <2>1. ~differ /\ "trap" \notin causes /\ touched[1] = {}
    BY DEF CosimInit, Sources
  <2>2. Common
    BY <2>1 DEF Common
  <2>3. hart[1].pc = hart[2].pc /\ hart[1].pc <= ResetPc + 8 * DutRan
    BY <1>4, <1>6 DEF Sources, ResetPc
  <2>4. QED
    BY <1>4, <2>1, <2>2, <2>3 DEF Calm
<1>9. QED
  BY <1>7, <1>8 DEF RunTells

\* fcsr is within its range.
LEMMA FcsrFits ==
  ASSUME LowRange["fcsr"] > 1, HighRange["fcsr"] > 1, NEW h, TwoValued(h)
  PROVE  Fcsr(h) < LowRange["fcsr"] * HighRange["fcsr"]
<1>1. PICK low, high : low = LowRange["fcsr"] /\ high = HighRange["fcsr"]
  OBVIOUS
<1>2. low \in Nat /\ high \in Nat /\ low > 1 /\ high > 1
  BY <1>1, CsrAssumption DEF Whole
<1>3. low * high >= low * 2
  BY <1>2
<1>4. h.frm * low <= low /\ h.frm * low \in Nat /\ h.fflags \in Nat /\ h.fflags <= 1
  BY <1>2 DEF TwoValued
<1>5. h.frm * low + h.fflags < low * 2
  BY <1>2, <1>4
<1>6. h.frm * low + h.fflags < low * high
  <2>1. PICK a, b, c : a = h.frm * low + h.fflags /\ b = low * 2 /\ c = low * high
    OBVIOUS
  <2>2. a \in Int /\ b \in Int /\ c \in Int
    BY <1>2, <1>4, <2>1
  <2>3. QED
    BY <1>3, <1>5, <2>1, <2>2
<1>7. QED
  BY <1>1, <1>6 DEF Fcsr

\* All that an instruction writes, but for mcause, is taken by the replay.
LEMMA WritesReplayable ==
  ASSUME LowRange["fcsr"] > 1, HighRange["fcsr"] > 1, NEW h, TwoValued(h)
  PROVE  /\ Replayable(XWrite(h)) /\ Replayable(VWrite(h))
         /\ \A n : Replayable(CsrWrite(n, "fflags", h.fflags)) /\ Replayable(CsrWrite(n, "frm", h.frm))
         /\ \A n : Replayable(CsrWrite(n, "fcsr", Fcsr(h))) /\ Replayable(CsrWrite(n, "mscratch", h.mscratch))
         /\ \A kind \in {"ctx", "load", "store"} : \A a, b : Replayable(Modification(kind, a, "", b))
<1>1. Replayable(XWrite(h)) /\ Replayable(VWrite(h))
  BY Names3 DEF Replayable, XWrite, VWrite, Modification
<1>2. FieldOf("fflags") = "fcsr" /\ FieldOf("frm") = "fcsr" /\ FieldOf("fcsr") = "fcsr" /\ FieldOf("mscratch") = "mscratch"
  BY DEF FieldOf
<1>3. h.fflags < LowRange["fcsr"] /\ h.frm < HighRange["fcsr"]
  <2>1. LowRange["fcsr"] \in Nat /\ HighRange["fcsr"] \in Nat
    BY CsrAssumption DEF Whole
  <2>2. QED
    BY <2>1 DEF TwoValued
<1>4. "fcsr" \in Fields /\ "mscratch" \in Fields
  BY Names3
<1>5. Accepted("fflags", h.fflags)
  BY <1>2, <1>3, <1>4 DEF Accepted, Low, High, Whole
<1>6. Accepted("frm", h.frm)
  BY <1>2, <1>3, <1>4 DEF Accepted, Low, High, Whole
<1>7. Accepted("fcsr", Fcsr(h))
  BY <1>2, <1>4, FcsrFits DEF Accepted, Low, High, Whole
<1>8. Accepted("mscratch", h.mscratch)
  BY <1>2, <1>4 DEF Accepted, Low, High, Whole
<1>9. \A n : Replayable(CsrWrite(n, "fflags", h.fflags)) /\ Replayable(CsrWrite(n, "frm", h.frm))
  BY <1>5, <1>6 DEF Replayable, CsrWrite, Modification
<1>10. \A n : Replayable(CsrWrite(n, "fcsr", Fcsr(h))) /\ Replayable(CsrWrite(n, "mscratch", h.mscratch))
  BY <1>7, <1>8 DEF Replayable, CsrWrite, Modification
<1>11. \A kind \in {"ctx", "load", "store"} : \A a, b : Replayable(Modification(kind, a, "", b))
  BY Names3 DEF Replayable, Modification
<1>12. QED
  BY <1>1, <1>9, <1>10, <1>11

\* So are the entries made of it, in both logs.
LEMMA HarmlessParts ==
  ASSUME NEW a, Replayable(a)
  PROVE  /\ Harmless(<<>>) /\ Harmless(<<a>>)
         /\ \A b : Replayable(b) => Harmless(<<a, b>>)
         /\ \A b, c : Replayable(b) /\ Replayable(c) => Harmless(<<a, b, c>>)
BY DEF Harmless

LEMMA ModsHarmless ==
  ASSUME LowRange["fcsr"] > 1, HighRange["fcsr"] > 1, NEW h, TwoValued(h), NEW i \in AnyInst,
         i.op \notin {"ecall", "mcause"}
  PROVE  Harmless(GoldMods(h, i)) /\ Harmless(DutWrites(h, i))
<1>1. /\ Replayable(XWrite(h)) /\ Replayable(VWrite(h))
      /\ Replayable(CsrWrite(1, "fflags", h.fflags)) /\ Replayable(CsrWrite(2, "frm", h.frm))
      /\ Replayable(CsrWrite(3, "fcsr", Fcsr(h))) /\ Replayable(CsrWrite(832, "mscratch", h.mscratch))
      /\ Replayable(Modification("ctx", 0, "", 8)) /\ Replayable(Modification("load", 64, "", 0))
      /\ Replayable(Modification("store", 64, "", 1)) /\ Replayable(Modification("store", 128, "", i.v))
  <2>1. Replayable(XWrite(h)) /\ Replayable(VWrite(h))
    BY WritesReplayable
  <2>2. \A n : Replayable(CsrWrite(n, "fflags", h.fflags)) /\ Replayable(CsrWrite(n, "frm", h.frm))
    BY WritesReplayable
  <2>3. \A n : Replayable(CsrWrite(n, "fcsr", Fcsr(h))) /\ Replayable(CsrWrite(n, "mscratch", h.mscratch))
    BY WritesReplayable
  <2>4. \A kind \in {"ctx", "load", "store"} : \A a, b : Replayable(Modification(kind, a, "", b))
    BY WritesReplayable
  <2>5. /\ Replayable(Modification("ctx", 0, "", 8)) /\ Replayable(Modification("load", 64, "", 0))
        /\ Replayable(Modification("store", 64, "", 1)) /\ Replayable(Modification("store", 128, "", i.v))
    BY <2>4
  <2>6. Replayable(CsrWrite(1, "fflags", h.fflags)) /\ Replayable(CsrWrite(2, "frm", h.frm))
    BY <2>2
  <2>7. Replayable(CsrWrite(3, "fcsr", Fcsr(h))) /\ Replayable(CsrWrite(832, "mscratch", h.mscratch))
    BY <2>3
  <2>8. QED
    BY <2>1, <2>5, <2>6, <2>7
<1>2. Harmless(<<>>)
  BY DEF Harmless
<1>3. /\ Harmless(<<XWrite(h)>>) /\ Harmless(<<VWrite(h)>>)
      /\ Harmless(<<CsrWrite(1, "fflags", h.fflags)>>) /\ Harmless(<<CsrWrite(2, "frm", h.frm)>>)
      /\ Harmless(<<CsrWrite(3, "fcsr", Fcsr(h))>>) /\ Harmless(<<CsrWrite(832, "mscratch", h.mscratch)>>)
      /\ Harmless(<<Modification("store", 128, "", i.v)>>)
  <2>1. \A a : Replayable(a) => Harmless(<<a>>)
    BY HarmlessParts
  <2>2. Harmless(<<XWrite(h)>>)
    BY <1>1, <2>1
  <2>3. Harmless(<<VWrite(h)>>)
    BY <1>1, <2>1
  <2>4. Harmless(<<CsrWrite(1, "fflags", h.fflags)>>)
    BY <1>1, <2>1
  <2>5. Harmless(<<CsrWrite(2, "frm", h.frm)>>)
    BY <1>1, <2>1
  <2>6. Harmless(<<CsrWrite(3, "fcsr", Fcsr(h))>>)
    <3>1. Replayable(CsrWrite(3, "fcsr", Fcsr(h)))
      BY <1>1
    <3>2. QED
      BY <2>1, <3>1
  <2>7. Harmless(<<CsrWrite(832, "mscratch", h.mscratch)>>)
    <3>1. Replayable(CsrWrite(832, "mscratch", h.mscratch))
      BY <1>1
    <3>2. QED
      BY <2>1, <3>1
  <2>8. Harmless(<<Modification("store", 128, "", i.v)>>)
    <3>1. Replayable(Modification("store", 128, "", i.v))
      BY <1>1
    <3>2. QED
      BY <2>1, <3>1
  <2>9. QED
    BY <2>2, <2>3, <2>4, <2>5, <2>6, <2>7, <2>8
<1>4. /\ Harmless(<<Modification("ctx", 0, "", 8), VWrite(h)>>)
      /\ Harmless(<<XWrite(h), Modification("load", 64, "", 0)>>)
      /\ Harmless(<<XWrite(h), Modification("load", 64, "", 0), Modification("store", 64, "", 1)>>)
  BY <1>1, HarmlessParts
<1>5. Harmless(DutWrites(h, i))
  BY <1>2, <1>3, ZenonT(60) DEF DutWrites
<1>6. Harmless(GoldMods(h, i))
  BY <1>2, <1>3, <1>4, <1>5, ZenonT(60) DEF GoldMods
<1>7. QED
  BY <1>5, <1>6

\* Two machines in step, but for what the boot ROM has left in x1
Paired(a, b, s, t) ==
  /\ a.pc = b.pc /\ a.v1 = b.v1 /\ a.fflags = b.fflags /\ a.frm = b.frm /\ a.mscratch = b.mscratch
  /\ s = t
  /\ X1 \in s => a.x1 = b.x1

\* The machines of the state
InStep == Paired(hart[1], hart[2], touched[1], touched[2])

\* What both have written is equal then.
LEMMA PairedValues ==
  ASSUME NEW a, NEW b, NEW s, NEW t, Paired(a, b, s, t), s \subseteq {X1, V1, "fcsr", "mscratch"}
  PROVE  \A name \in s \cap t : ValueOf(a, name) = ValueOf(b, name)
<1>1. \A h : ValueOf(h, X1) = h.x1 /\ ValueOf(h, V1) = h.v1
             /\ ValueOf(h, "fcsr") = Fcsr(h) /\ ValueOf(h, "mscratch") = h.mscratch
  BY DEF ValueOf, X1, V1
<1>2. Fcsr(a) = Fcsr(b)
  BY DEF Paired, Fcsr
<1>3. QED
  BY <1>1, <1>2 DEF Paired

LEMMA CommonX ==
  ASSUME touched[1] = touched[2], Common, X1 \in touched[1]
  PROVE  hart[1].x1 = hart[2].x1
<1>1. \A h : ValueOf(h, X1) = h.x1
  BY DEF ValueOf, X1, V1
<1>2. QED
  BY <1>1 DEF Common

\* The same instruction keeps them in step.
LEMMA StaysInStep ==
  ASSUME InStep, NEW i, NEW g, NEW d, Executed(hart[1], i, g), Executed(hart[2], i, d),
         i.op = "vmv" => X1 \in touched[1],
         hart'[1] = g, hart'[2] = d,
         touched'[1] = touched[1] \cup Touches(i), touched'[2] = touched[2] \cup Touches(i)
  PROVE  InStep'
<1>1. /\ hart[1].pc = hart[2].pc /\ hart[1].v1 = hart[2].v1
      /\ hart[1].fflags = hart[2].fflags /\ hart[1].frm = hart[2].frm
      /\ hart[1].mscratch = hart[2].mscratch
      /\ touched[1] = touched[2]
      /\ X1 \in touched[1] => hart[1].x1 = hart[2].x1
  BY DEF InStep, Paired
<1>2. g.pc = d.pc
  BY <1>1 DEF Executed
<1>3. g.v1 = d.v1
  BY <1>1 DEF Executed
<1>4. g.fflags = d.fflags /\ g.frm = d.frm /\ g.mscratch = d.mscratch
  BY <1>1 DEF Executed
<1>5. X1 \in touched[1] \cup Touches(i) => g.x1 = d.x1
  <2>1. CASE i.op \in {"li", "load", "amo"}
    BY <2>1 DEF Executed
  <2>2. CASE i.op \notin {"li", "load", "amo"}
    <3>1. X1 \notin Touches(i)
      BY <2>2 DEF Touches, X1, V1
    <3>2. g.x1 = hart[1].x1 /\ d.x1 = hart[2].x1
      BY <2>2 DEF Executed
    <3>3. QED
      BY <1>1, <3>1, <3>2
  <2>3. QED
    BY <2>1, <2>2
<1>6. QED
  BY <1>1, <1>2, <1>3, <1>4, <1>5 DEF InStep, Paired

\* A step without a cause, and Spike running on, keep Clean.
LEMMA CleanStep ==
  ASSUME Machines, LowRange["fcsr"] > 1, HighRange["fcsr"] > 1,
         NEW i \in Program, NEW j \in AnyInst, NEW g, NEW d, Both(i, j, g, d),
         NEW G, NEW D, NEW G2, NEW D2, TracesAfter(G, D, G2, D2), Clean(G, D)
  PROVE  Clean(G2, D2)'
<1>1. SUFFICES ASSUME causes' = {} PROVE Clean(G2, D2)'
  BY DEF Clean
<1>2. PICK n : n = DutRan
  OBVIOUS
<1>3. /\ hart'[1] = g /\ hart'[2] = d /\ touched'[1] = touched[1] \cup Touches(i) /\ touched'[2] = touched[2] \cup Touches(j)
      /\ GoldStep(i, g) /\ DutStep(j, d) /\ ended = "no" /\ Executed(hart[1], i, g) /\ Executed(hart[2], j, d)
      /\ TwoValued(g) /\ TwoValued(d) /\ ended' = IF j.op = "exit" THEN "exit" ELSE "no"
      /\ causes' = causes \cup CausesOf(i) \cup (IF i = j THEN {} ELSE {"fault"})
                 \cup (IF j.op = "exit" /\ j.v # 0 THEN {"code"} ELSE {})
  BY DEF Both
<1>4. causes = {} /\ CausesOf(i) = {} /\ i = j /\ (j.op = "exit" => j.v = 0)
  BY <1>1, <1>3
<1>5. i.op \notin {"ecall", "mcause"} /\ (i.op = "vmv" => X1 \in touched[1])
  BY <1>4 DEF CausesOf
<1>6. /\ GoldRan = n /\ touched[1] = touched[2] /\ Common
      /\ hart[1].pc = hart[2].pc /\ hart[1].v1 = hart[2].v1
      /\ hart[1].fflags = hart[2].fflags /\ hart[1].frm = hart[2].frm
      /\ hart[1].mscratch = hart[2].mscratch /\ ~hart[1].done
      /\ \A r \in 1 .. n : gold[r + 1].pc = dut[r + 1].pc /\ G[r + 1] = D[r + 1]
      /\ \A k \in 2 .. Len(gold) : Harmless(gold[k].mods)
      /\ \A k \in 2 .. n + 1 : Harmless(dut[k].mods)
  BY <1>2, <1>3, <1>4 DEF Clean
<1>7. touched[1] \subseteq {X1, V1, "fcsr", "mscratch"} /\ touched'[1] \subseteq {X1, V1, "fcsr", "mscratch"}
  BY <1>3, TouchesNames DEF Machines, HartShape, Sources
<1>8. InStep
  BY <1>6, CommonX DEF InStep, Paired
<1>9. InStep'
  BY <1>3, <1>4, <1>5, <1>8, StaysInStep
<1>10. Common'
  <2>1. Paired(g, d, touched'[1], touched'[2])
    BY <1>3, <1>9 DEF InStep
  <2>2. QED
    BY <1>3, <1>7, <2>1, PairedValues DEF Common
<1>11. View(g, Known(1)') = View(d, Known(2)')
  <2>1. Known(1)' = Known(2)' /\ Fcsr(g) = Fcsr(d)
    BY <1>3, <1>9 DEF InStep, Paired, Known, Fcsr
  <2>2. QED
    BY <1>3, <1>9, <2>1 DEF InStep, Paired, View
<1>12. n \in Nat /\ LogsGrow(G, D, G2, D2) /\ DutRan' = n + 1 /\ GoldInv
  BY <1>2, StepGrows DEF LogsGrow, Machines
<1>13. GoldRan' = n + 1 /\ Len(gold') = n + 2 /\ Len(gold) = n + 1 /\ gold'[n + 2] = Commit(hart[1].pc, GoldMods(g, i))
  BY <1>3, <1>5, <1>6, <1>12, GoldLength
<1>14. dut'[n + 2] = Entry("commit", hart[2].pc, DutWrites(d, j), 0)
  BY <1>2, <1>3 DEF DutStep
<1>15. G2[n + 2] = D2[n + 2]
  <2>1. (n + 1) + 1 = n + 2
    BY <1>12
  <2>2. QED
    BY <1>3, <1>11, <1>12, <1>13, <2>1 DEF TracesAfter
<1>16. /\ \A k \in 1 .. n + 1 : gold'[k] = gold[k] /\ G2[k] = G[k]
       /\ \A k \in 1 .. n + 1 : dut'[k] = dut[k] /\ D2[k] = D[k]
  BY <1>2, <1>6, <1>12 DEF LogsGrow
<1>17. ASSUME NEW r \in 1 .. n + 1
       PROVE  gold'[r + 1].pc = dut'[r + 1].pc /\ G2[r + 1] = D2[r + 1]
  <2>1. CASE r \in 1 .. n
    <3>1. r + 1 \in 1 .. n + 1
      BY <1>12, <2>1
    <3>2. QED
      BY <1>6, <1>16, <2>1, <3>1
  <2>2. CASE r = n + 1
    <3>1. r + 1 = n + 2
      BY <1>12, <2>2
    <3>2. gold'[n + 2].pc = hart[1].pc /\ dut'[n + 2].pc = hart[2].pc
      BY <1>13, <1>14 DEF Commit, Entry
    <3>3. QED
      BY <1>6, <1>15, <3>1, <3>2
  <2>3. QED
    BY <1>12, <2>1, <2>2
<1>18. Harmless(gold'[n + 2].mods) /\ Harmless(dut'[n + 2].mods)
  <2>1. Harmless(GoldMods(g, i)) /\ Harmless(DutWrites(d, j))
    BY <1>3, <1>4, <1>5, ModsHarmless
  <2>2. QED
    BY <1>13, <1>14, <2>1 DEF Commit, Entry
<1>19. ASSUME NEW k \in 2 .. n + 2 PROVE Harmless(gold'[k].mods) /\ Harmless(dut'[k].mods)
  <2>1. CASE k \in 2 .. n + 1
    BY <1>6, <1>13, <1>16, <2>1
  <2>2. CASE k = n + 2
    BY <1>18, <2>2
  <2>3. QED
    BY <1>12, <2>1, <2>2
<1>20. ended' = "exit" => g.done /\ dut'[(n + 1) + 2].code = 0
  <2>1. SUFFICES ASSUME ended' = "exit" PROVE g.done /\ dut'[(n + 1) + 2].code = 0
    OBVIOUS
  <2>2. j.op = "exit" /\ dut'[n + 3] = Entry("exit", 0, <<>>, j.v)
    BY <1>2, <1>3, <2>1 DEF DutStep
  <2>3. (n + 1) + 2 = n + 3 /\ j.v = 0
    BY <1>4, <1>12, <2>2
  <2>4. PICK e : e = dut'[n + 3]
    OBVIOUS
  <2>5. e.code = 0
    BY <2>2, <2>3, <2>4 DEF Entry
  <2>6. dut'[(n + 1) + 2].code = 0
    BY <2>3, <2>4, <2>5
  <2>7. g.done
    BY <1>3, <1>4, <2>2 DEF Executed
  <2>8. QED
    BY <2>6, <2>7
<1>21. ended' = "no" => ~g.done
  <2>1. ended' = "no" => j.op # "exit"
    BY <1>3
  <2>2. i.op # "spin"
    BY <1>6, SpinsWhenDone
  <2>3. QED
    BY <1>3, <1>4, <2>1, <2>2 DEF Executed
<1>22. (n + 1) + 1 = n + 2
  BY <1>12
<1>23. QED
  BY <1>3, <1>9, <1>10, <1>12, <1>13, <1>17, <1>19, <1>20, <1>21, <1>22 DEF Clean, InStep, Paired

LEMMA CleanRunOn ==
  ASSUME Machines, LowRange["fcsr"] > 1, HighRange["fcsr"] > 1, NEW i \in Program, RunOn(i),
         NEW G, NEW D, Clean(G, D), NEW G2, Extends(G2, G, Len(gold))
  PROVE  Clean(G2, D)'
<1>1. SUFFICES ASSUME causes' = {} PROVE Clean(G2, D)'
  BY DEF Clean
<1>2. ended # "no" /\ UNCHANGED <<ended, dut, causes>>
  BY DEF RunOn
<1>3. /\ ended = "exit" /\ GoldRan >= DutRan
      /\ \A r \in 1 .. DutRan : gold[r + 1].pc = dut[r + 1].pc /\ G[r + 1] = D[r + 1]
      /\ \A k \in 2 .. Len(gold) : Harmless(gold[k].mods)
      /\ \A k \in 2 .. DutRan + 1 : Harmless(dut[k].mods)
      /\ hart[1].done /\ dut[DutRan + 2].code = 0
  BY <1>1, <1>2 DEF Clean, Machines, Stages
<1>4. PICK g : GoldStep(i, g) /\ i.op # "ecall" /\ hart'[1] = g /\ Executed(hart[1], i, g) /\ TwoValued(g)
  BY RunOnFacts
<1>5. i.op = "spin" /\ i \in AnyInst
  BY <1>3, SpinsWhenDone
<1>6. g.done
  BY <1>4, <1>5 DEF Executed
<1>7. GoldRan \in Nat /\ DutRan \in Nat /\ DutRan' = DutRan
  BY <1>2, <1>3 DEF Machines, GoldRan, DutRan, GoldInv, HartShape, DutShape
<1>8. /\ GoldRan' = GoldRan + 1 /\ Len(gold') = GoldRan + 2 /\ Len(gold) = GoldRan + 1
      /\ \A k \in 1 .. Len(gold) : gold'[k] = gold[k]
      /\ gold'[GoldRan + 2] = Commit(hart[1].pc, GoldMods(g, i))
  BY <1>4, <1>7, GoldLength DEF Machines
<1>9. Harmless(gold'[GoldRan + 2].mods)
  <2>1. Harmless(GoldMods(g, i))
    BY <1>4, <1>5, ModsHarmless
  <2>2. QED
    BY <1>8, <2>1 DEF Commit
<1>10. ASSUME NEW k \in 2 .. Len(gold') PROVE Harmless(gold'[k].mods)
  <2>1. k \in 2 .. Len(gold) \/ k = GoldRan + 2
    BY <1>7, <1>8
  <2>2. k \in 2 .. Len(gold) => k \in 1 .. Len(gold)
    BY <1>7, <1>8
  <2>3. QED
    BY <1>3, <1>8, <1>9, <2>1, <2>2
<1>11. ASSUME NEW r \in 1 .. DutRan
       PROVE  gold'[r + 1].pc = dut'[r + 1].pc /\ G2[r + 1] = D[r + 1]
  <2>1. r + 1 \in 1 .. Len(gold)
    BY <1>3, <1>7, <1>8
  <2>2. QED
    BY <1>2, <1>3, <1>8, <2>1 DEF Extends
<1>12. QED
  BY <1>2, <1>3, <1>4, <1>6, <1>7, <1>8, <1>10, <1>11 DEF Clean

\* Nothing else touches it, and it holds at the start.
LEMMA QuietClean ==
  ASSUME UNCHANGED <<hart, gold, dut, ended, touched>>, NEW G, NEW D, Clean(G, D),
         causes' = causes \/ causes' # {}
  PROVE  Clean(G, D)'
<1>1. DutRan' = DutRan /\ GoldRan' = GoldRan /\ Common' = Common
  BY DEF DutRan, GoldRan, Common
<1>2. QED
  BY <1>1 DEF Clean

LEMMA CleanInit ==
  ASSUME CosimInit, NEW G, NEW D
  PROVE  Clean(G, D)
<1>1. Len(gold) = 1 /\ Len(dut) = 1 /\ ended = "no"
  BY DEF CosimInit
<1>2. DutRan = 0 /\ GoldRan = 0
  BY <1>1 DEF DutRan, GoldRan
<1>3. hart = [k \in Sources |->
          [pc |-> ResetPc, x1 |-> IF k = 1 THEN 1 ELSE 0, v1 |-> 0,
           fflags |-> 0, frm |-> 0, mscratch |-> 0, done |-> FALSE]]
  BY DEF CosimInit
<1>4. /\ hart[1].pc = hart[2].pc /\ hart[1].v1 = hart[2].v1
      /\ hart[1].fflags = hart[2].fflags /\ hart[1].frm = hart[2].frm
      /\ hart[1].mscratch = hart[2].mscratch /\ ~hart[1].done
  BY <1>3 DEF Sources
<1>5. touched[1] = {} /\ touched[2] = {}
  BY DEF CosimInit, Sources
<1>6. Common
  BY <1>5 DEF Common
<1>7. (\A r \in 1 .. DutRan : FALSE) /\ (\A k \in 2 .. Len(gold) : FALSE) /\ (\A k \in 2 .. DutRan + 1 : FALSE)
  BY <1>1, <1>2
<1>8. QED
  BY <1>1, <1>2, <1>4, <1>5, <1>6, <1>7 DEF Clean

\* The words that the tokenizer knows; all that Spike prints are.
KnownWords == {w \in Words : Kind(w) # "Unknown"}

LEMMA HexKnown == \A n \in Nat : Hex(n, 8) \in KnownWords /\ Hex(n, 16) \in KnownWords
BY KindOfWords, IsWord DEF KnownWords

LEMMA RegKnown == \A n \in Nat : \A lead \in {"x", "f", "v", "e", "l", "mf"} : Reg(lead, n) \in KnownWords
<1> TAKE n \in Nat
<1>1. \A lead \in {"x", "f", "v", "e", "l"} : Kind(Reg(lead, n)) \in {"x", "f", "v", "e", "l"}
  BY KindOfWords
<1>2. Kind(Reg("mf", n)) = "Lmul"
  BY KindOfWords
<1>3. \A lead \in {"x", "f", "v", "e", "l", "mf"} : Reg(lead, n) \in Words
  BY IsWord
<1>4. QED
  BY <1>1, <1>2, <1>3 DEF KnownWords

LEMMA CsrKnown == \A n \in Nat : \A name \in CsrNames : Word("c", n, 2, name) \in KnownWords
BY KindOfWords, IsWord DEF KnownWords

LEMMA HeaderKnown ==
  /\ Plain("core") \in KnownWords /\ Kind(Plain("core")) = "CoreLiteral"
  /\ Plain("mem") \in KnownWords
  /\ Word("", 0, 1, ":") \in KnownWords /\ Kind(Word("", 0, 1, ":")) = "CoreId"
  /\ Word("", 3, 1, "") \in KnownWords /\ Kind(Word("", 3, 1, "")) = "NumberLiteral"
  /\ \A n \in Nat : Word("(0x", n, 8, ")") \in KnownWords
<1>1. 0 # NoNumber /\ 3 # NoNumber
  BY IsANumber
<1>2. Kind(Plain("core")) = "CoreLiteral"
  BY DEF Kind
<1>3. Kind(Word("", 0, 1, ":")) = "CoreId"
  BY <1>1 DEF Kind, Plain, Word
<1>4. Kind(Word("", 3, 1, "")) = "NumberLiteral"
  BY <1>1 DEF Kind, Plain, Word
<1>5. Kind(Plain("mem")) = "MemLiteral" /\ \A n \in Nat : Kind(Word("(0x", n, 8, ")")) = "Instruction"
  BY KindOfWords
<1>6. /\ Plain("core") \in Words /\ Plain("mem") \in Words
      /\ Word("", 0, 1, ":") \in Words /\ Word("", 3, 1, "") \in Words
      /\ \A n \in Nat : Word("(0x", n, 8, ")") \in Words
  BY IsWord
<1>7. QED
  BY <1>2, <1>3, <1>4, <1>5, <1>6 DEF KnownWords

LEMMA OfTwoKnown ==
  ASSUME NEW S, NEW a \in S, NEW b \in S
  PROVE  <<a, b>> \in Seq(S) /\ \A c \in S : <<a, b, c>> \in Seq(S)
OBVIOUS

LEMMA PrintKnown ==
  ASSUME NEW m \in PrintedMods
  PROVE  PrintMod(m) \in Seq(KnownWords)
<1> DEFINE K == KnownWords
<1>1. m.idx \in Nat /\ m.bits \in Nat
  BY PrintShape DEF Shape
<1>2. \A n \in Nat : Hex(n, 8) \in K /\ Hex(n, 16) \in K
  BY HexKnown
<1>3. \A n \in Nat : \A lead \in {"x", "f", "v", "e", "l", "mf"} : Reg(lead, n) \in K
  BY RegKnown
<1>4. Plain("mem") \in K
  BY HeaderKnown
<1>5. \A n \in Nat : \A name \in CsrNames : Word("c", n, 2, name) \in K
  BY CsrKnown
<1> HIDE DEF K
<1>6. CASE m \in RegMods
  <2>1. m.kind \in {"x", "f"}
    BY <1>6 DEF RegMods
  <2>2. PrintMod(m) = <<Reg(m.kind, m.idx), Hex(m.bits, 8)>>
    BY <2>1 DEF PrintMod, XlenDigits
  <2>3. Reg(m.kind, m.idx) \in K /\ Hex(m.bits, 8) \in K
    BY <1>1, <1>2, <1>3, <2>1
  <2>4. QED
    BY <2>2, <2>3, OfTwoKnown DEF K
<1>7. CASE m \in VRegMods
  <2>1. m.kind = "v"
    BY <1>7 DEF VRegMods
  <2>2. PrintMod(m) = <<Reg("v", m.idx), Hex(m.bits, 16)>>
    BY <2>1 DEF PrintMod, VlenDigits
  <2>3. Reg("v", m.idx) \in K /\ Hex(m.bits, 16) \in K
    BY <1>1, <1>2, <1>3
  <2>4. QED
    BY <2>2, <2>3, OfTwoKnown DEF K
<1>8. CASE m \in CsrMods
  <2>1. m.kind = "csr" /\ m.name \in CsrNames
    BY <1>8 DEF CsrMods
  <2>2. PrintMod(m) = <<Word("c", m.idx, 2, m.name), Hex(m.bits, 8)>>
    BY <2>1 DEF PrintMod, XlenDigits
  <2>3. Word("c", m.idx, 2, m.name) \in K /\ Hex(m.bits, 8) \in K
    BY <1>1, <1>2, <1>5, <2>1
  <2>4. QED
    BY <2>2, <2>3, OfTwoKnown DEF K
<1>9. CASE m \in CtxMods
  <2>1. m.kind = "ctx"
    BY <1>9 DEF CtxMods
  <2>2. PrintMod(m) = <<Reg("e", 32), Reg("mf", 2), Reg("l", m.bits)>>
    BY <2>1 DEF PrintMod
  <2>3. Reg("e", 32) \in K /\ Reg("mf", 2) \in K /\ Reg("l", m.bits) \in K
    BY <1>1, <1>3
  <2>4. QED
    BY <2>2, <2>3, OfTwoKnown DEF K
<1>10. CASE m \in LoadMods
  <2>1. m.kind = "load"
    BY <1>10 DEF LoadMods
  <2>2. PrintMod(m) = <<Plain("mem"), Hex(m.idx, 8)>>
    BY <2>1 DEF PrintMod, XlenDigits
  <2>3. Hex(m.idx, 8) \in K
    BY <1>1, <1>2
  <2>4. QED
    BY <1>4, <2>2, <2>3, OfTwoKnown DEF K
<1>11. CASE m \in StoreMods
  <2>1. m.kind = "store"
    BY <1>11 DEF StoreMods
  <2>2. PrintMod(m) = <<Plain("mem"), Hex(m.idx, 8), Hex(m.bits, 8)>>
    BY <2>1 DEF PrintMod, XlenDigits
  <2>3. Hex(m.idx, 8) \in K /\ Hex(m.bits, 8) \in K
    BY <1>1, <1>2
  <2>4. QED
    BY <1>4, <2>2, <2>3, OfTwoKnown DEF K
<1>12. QED
  BY <1>6, <1>7, <1>8, <1>9, <1>10, <1>11 DEF PrintedMods

\* The five first words of a line are known and of the kinds that the parser
\* asks for, and the rest of the words are known.
LEMMA LineKnown ==
  ASSUME NEW c, Printable(c)
  PROVE  /\ PrintLine(c) \in Seq(KnownWords)
         /\ \A i \in DOMAIN Header : IsKind(PrintLine(c), i, Header[i])
<1>0. PICK K : K = KnownWords
  OBVIOUS
<1>1. PICK a4, a5 : a4 = Hex(c.pc, 8) /\ a5 = Word("(0x", c.inst, 8, ")")
  OBVIOUS
<1>2. PICK a1, a2, a3 : a1 = Plain("core") /\ a2 = Word("", 0, 1, ":") /\ a3 = Word("", 3, 1, "")
  OBVIOUS
<1>3. c.pc \in Nat /\ c.inst \in Nat /\ c.mods \in Seq(PrintedMods)
  BY DEF Printable
<1>4. a1 \in K /\ a2 \in K /\ a3 \in K /\ a4 \in K /\ a5 \in K
  BY <1>0, <1>1, <1>2, <1>3, HeaderKnown, HexKnown
<1>5. /\ Kind(a1) = "CoreLiteral" /\ Kind(a2) = "CoreId" /\ Kind(a3) = "NumberLiteral"
      /\ Kind(a4) = "Hexadecimal" /\ Kind(a5) = "Instruction"
  BY <1>1, <1>2, <1>3, HeaderKnown, KindOfWords
<1>6. PICK header : header = <<a1, a2, a3, a4, a5>>
  OBVIOUS
<1>7. /\ header \in Seq(K) /\ Len(header) = 5 /\ header[1] = a1 /\ header[2] = a2
      /\ header[3] = a3 /\ header[4] = a4 /\ header[5] = a5
  BY <1>4, <1>6
<1>8. PICK s : s = [i \in DOMAIN c.mods |-> PrintMod(c.mods[i])]
  OBVIOUS
<1>9. s \in Seq(Seq(K))
  <2>1. PICK n : n = Len(c.mods)
    OBVIOUS
  <2>2. n \in Nat /\ DOMAIN c.mods = 1 .. n /\ \A i \in 1 .. n : c.mods[i] \in PrintedMods
    BY <1>3, <2>1
  <2>3. \A i \in 1 .. n : PrintMod(c.mods[i]) \in Seq(K)
    BY <1>0, <2>2, PrintKnown
  <2>4. s = [i \in 1 .. n |-> PrintMod(c.mods[i])]
    BY <1>8, <2>2
  <2>5. s \in [1 .. n -> Seq(K)]
    BY <2>3, <2>4
  <2>6. QED
    BY <2>2, <2>5
<1>10. PICK flat : flat = Ext!FlattenSeq(s)
  OBVIOUS
<1>11. flat \in Seq(K)
  BY <1>9, <1>10, FlattenPieces
<1>12. PICK line : line = PrintLine(c)
  OBVIOUS
<1>13. line = header \o flat
  BY <1>1, <1>2, <1>6, <1>8, <1>10, <1>12 DEF PrintLine, XlenDigits
<1>14. /\ line \in Seq(K) /\ Len(line) = 5 + Len(flat) /\ Len(flat) \in Nat
       /\ \A i \in 1 .. 5 : line[i] = header[i]
  <2>1. header \in Seq(K) /\ flat \in Seq(K) /\ line = header \o flat
    BY <1>7, <1>11, <1>13
  <2>2. /\ line \in Seq(K) /\ Len(line) = Len(header) + Len(flat)
        /\ \A i \in 1 .. Len(header) : line[i] = header[i]
        /\ \A i \in 1 .. Len(flat) : line[Len(header) + i] = flat[i]
    BY <2>1, SeqConcat
  <2>3. QED
    BY <1>7, <1>11, <2>2
<1>15. ASSUME NEW i \in 1 .. 5 PROVE i \in DOMAIN line /\ Kind(line[i]) = Header[i]
  <2>1. i \in DOMAIN line
    BY <1>14
  <2>2. Header[1] = "CoreLiteral" /\ Header[2] = "CoreId" /\ Header[3] = "NumberLiteral"
        /\ Header[4] = "Hexadecimal" /\ Header[5] = "Instruction"
    BY DEF Header
  <2>3. i = 1 \/ i = 2 \/ i = 3 \/ i = 4 \/ i = 5
    OBVIOUS
  <2>4. line[i] = header[i]
    BY <1>14
  <2>5. Kind(header[i]) = Header[i]
    BY <1>5, <1>7, <2>2, <2>3
  <2>6. QED
    BY <2>1, <2>4, <2>5
<1>16. DOMAIN Header = 1 .. 5
  BY DEF Header
<1>17. QED
  BY <1>0, <1>12, <1>14, <1>15, <1>16 DEF IsKind

\* A whole line is not refused, and is read as it was printed.
LEMMA WholeRead ==
  ASSUME NEW c, Printable(c), NEW line, line = PrintLine(c)
  PROVE  /\ ~Refused(line)
         /\ Parse(line).pc = c.pc /\ Parse(line).mods = c.mods
<1>1. line \in Seq(KnownWords) /\ \A i \in DOMAIN Header : IsKind(line, i, Header[i])
  BY LineKnown
<1>2. line \in Seq(Words) /\ Len(line) >= 5
  BY Layout
<1>3. PICK mods : mods = c.mods
  OBVIOUS
<1>4. mods \in Seq(PrintedMods)
  BY <1>3 DEF Printable
<1>5. \E b : Laid(mods, line, b)
  BY <1>3, Layout
<1>6. PICK b : Laid(mods, line, b)
  BY <1>5
<1>7. IsCut(line, line)
  BY <1>2, WholeIsCut
<1>8. /\ ParseMods(line).ok => Prefixed(ParseMods(line).mods, mods, 1, line, line)
      /\ ParseMods(line).ok /\ Len(ParseMods(line).mods) = Len(mods)
  BY <1>2, <1>4, <1>6, <1>7, ModsPrefixed
<1>9. ~Refused(line)
  <2>1. \A i \in DOMAIN line : Kind(line[i]) # "Unknown"
    BY <1>1 DEF KnownWords
  <2>2. QED
    BY <1>1, <1>8, <2>1 DEF Refused
<1>10. PICK read : read = ParseMods(line).mods
  OBVIOUS
<1>11. PICK T : read \in Seq(T)
  BY <1>8, <1>10 DEF Prefixed
<1>12. Len(read) = Len(mods) /\ \A j \in DOMAIN read : read[j] = mods[1 + j - 1]
  BY <1>8, <1>10 DEF Prefixed
<1>13. PICK n : n = Len(read)
  OBVIOUS
<1>14. n \in Nat /\ DOMAIN read = 1 .. n /\ DOMAIN mods = 1 .. n
  BY <1>4, <1>11, <1>12, <1>13
<1>15. \A j \in 1 .. n : read[j] = mods[j]
  <2>1. \A j \in 1 .. n : 1 + j - 1 = j
    BY <1>14
  <2>2. QED
    BY <1>12, <1>14, <2>1
<1>16. read = [j \in 1 .. n |-> read[j]] /\ mods = [j \in 1 .. n |-> mods[j]]
  BY <1>4, <1>11, <1>14
<1>17. read = mods
  BY <1>15, <1>16
<1>18. Parse(line).pc = c.pc
  BY <1>7, <1>9, CutLineRead
<1>19. QED
  BY <1>3, <1>9, <1>10, <1>17, <1>18 DEF Parse

-----------------------------------------------------------------------------
(* The shape of the replay *)

\* The report is written once.
Decision ==
  /\ report \in {"none", "same", "different"}
  /\ phase = "report" <=> report # "none"

\* The variables of the replay are functions of the two sources.
ReplayShape ==
  /\ DOMAIN pc = Sources /\ DOMAIN regs = Sources /\ DOMAIN csr = Sources
  /\ DOMAIN mask = Sources /\ DOMAIN exit = Sources /\ DOMAIN at = Sources
  /\ Decision

\* It holds at the start, and every step keeps it.
LEMMA ReplayShapeInit == CosimInit => ReplayShape
BY DEF CosimInit, Init, ReplayShape, Decision

\* The replay steps in these phases; nothing follows the report.
LEMMA ReplayPhase ==
  ASSUME Replay
  PROVE  phase \in {"reset1", "reset2", "step1", "write1", "step2", "write2", "judge"}
<1>1. CASE ReplayReset
  BY <1>1 DEF ReplayReset, SkipBootRom, ResetSpike, SpikeEndsInReset, ResetPokedex
<1>2. CASE \E s \in Sources : ReplayCommit(s)
  BY <1>2 DEF ReplayCommit, BeginCommit, Stepping, Writing, Sources
<1>3. CASE ReplayEnd
  BY <1>3 DEF ReplayEnd, SpikeEnds, PokedexExits, PokedexLogBroken
<1>4. CASE Judge
  BY <1>4 DEF Judge, JudgeRunning, JudgeExit
<1>5. QED
  BY <1>1, <1>2, <1>3, <1>4 DEF Replay

LEMMA NotYet ==
  ASSUME Stages, Load \/ Replay
  PROVE  phase # "report"
<1>1. CASE Load
  BY <1>1 DEF Load, Stages, Init
<1>2. CASE Replay
  BY <1>2, ReplayPhase
<1>3. QED
  BY <1>1, <1>2

LEMMA DecisionNext ==
  ASSUME Stages, Decision, Load \/ Replay
  PROVE  Decision'
<1>0. report = "none" /\ phase # "report"
  BY NotYet DEF Decision
<1>1. CASE Fail
  BY <1>0, <1>1 DEF Fail, Decision
<1>2. CASE UNCHANGED vars
  BY <1>2 DEF vars, Decision
<1>3. CASE GetResetPc \/ SkipBootRom \/ ResetSpike \/ ResetPokedex
  BY <1>0, <1>1, <1>3 DEF GetResetPc, SkipBootRom, ResetSpike, ResetPokedex, states, Decision
<1>4. CASE \E s \in Sources : \E p : BeginCommit(s, p)
  BY <1>0, <1>4 DEF BeginCommit, Stepping, Writing, Decision, Sources
<1>5. CASE \E s \in Sources, r \in Regs : \E v : WriteReg(s, r, v)
  BY <1>0, <1>5 DEF WriteReg, Writing, Decision, Sources
<1>6. CASE \E s \in Sources : \E name, v : WriteCsr(s, name, v)
  BY <1>0, <1>1, <1>6 DEF WriteCsr, Writing, Decision, Sources
<1>7. CASE \E s \in Sources : EndCommit(s)
  BY <1>0, <1>7 DEF EndCommit, Writing, After, Decision, Sources
<1>8. CASE SpikeEnds \/ PokedexExits(dut[at[2]].code)
  BY <1>0, <1>8 DEF SpikeEnds, PokedexExits, Decision
<1>9. CASE JudgeRunning \/ JudgeExit
  BY <1>0, <1>9 DEF JudgeRunning, JudgeExit, Decision
<1>10. QED
  BY <1>1, <1>2, <1>3, <1>4, <1>5, <1>6, <1>7, <1>8, <1>9, ReplayCases

LEMMA DomainsNext ==
  ASSUME ReplayShape, Load \/ Replay
  PROVE  /\ DOMAIN pc' = Sources /\ DOMAIN regs' = Sources /\ DOMAIN csr' = Sources
         /\ DOMAIN mask' = Sources /\ DOMAIN exit' = Sources
<1>1. CASE Fail
  BY <1>1 DEF Fail, states, ReplayShape
<1>2. CASE UNCHANGED vars
  BY <1>2 DEF vars, ReplayShape
<1>3. CASE GetResetPc \/ SkipBootRom \/ ResetSpike \/ ResetPokedex
  BY <1>1, <1>3 DEF GetResetPc, SkipBootRom, ResetSpike, ResetPokedex, states, ReplayShape
<1>4. CASE \E s \in Sources : \E p : BeginCommit(s, p)
  BY <1>4 DEF BeginCommit, ReplayShape
<1>5. CASE \E s \in Sources, r \in Regs : \E v : WriteReg(s, r, v)
  BY <1>5 DEF WriteReg, ReplayShape
<1>6. CASE \E s \in Sources : \E name, v : WriteCsr(s, name, v)
  BY <1>1, <1>6 DEF WriteCsr, ReplayShape
<1>7. CASE \E s \in Sources : EndCommit(s)
  BY <1>7 DEF EndCommit, states, ReplayShape
<1>8. CASE SpikeEnds \/ PokedexExits(dut[at[2]].code)
  BY <1>8 DEF SpikeEnds, PokedexExits, states, ReplayShape
<1>9. CASE JudgeRunning \/ JudgeExit
  BY <1>9 DEF JudgeRunning, JudgeExit, states, ReplayShape
<1>10. QED
  BY <1>1, <1>2, <1>3, <1>4, <1>5, <1>6, <1>7, <1>8, <1>9, ReplayCases

LEMMA AtDomain ==
  ASSUME DOMAIN at = Sources, Load \/ Replay
  PROVE  DOMAIN at' = Sources
<1>1. at' = at \/ \E s \in Sources : Move(s)
  BY DEF Load, Replay, ReplayReset, ReplayCommit, ReplayEnd, Judge, Sources
<1>2. CASE \E s \in Sources : Move(s)
  BY <1>2 DEF Move
<1>3. QED
  BY <1>1, <1>2

LEMMA ReplayShapeNext ==
  ASSUME Stages, ReplayShape, [CosimNext]_cosimVars
  PROVE  ReplayShape'
<1>1. CASE UNCHANGED <<vars, at>>
  BY <1>1 DEF vars, ReplayShape, Decision
<1>2. CASE Load \/ Replay
  BY <1>2, DecisionNext, DomainsNext, AtDomain DEF ReplayShape
<1>3. CASE \/ \E i \in Program, j \in Insts \cup {Inst("spin", 0)} : Step(i, j)
           \/ \E i \in Program : RunOn(i)
           \/ Crash \/ StopSpike \/ UNCHANGED cosimVars
  BY <1>1, <1>3 DEF Step, RunOn, Crash, StopSpike, cosimVars
<1>4. QED
  BY <1>2, <1>3 DEF CosimNext

-----------------------------------------------------------------------------
(* The first instruction *)

\* Booted holds at the start, and every step keeps it.
LEMMA BootedInit == CosimInit => Booted
<1> SUFFICES ASSUME CosimInit PROVE Booted
  OBVIOUS
<1>1. Len(gold) = 1
  BY DEF CosimInit
<1>2. hart = [k \in Sources |->
          [pc |-> ResetPc, x1 |-> IF k = 1 THEN 1 ELSE 0, v1 |-> 0,
           fflags |-> 0, frm |-> 0, mscratch |-> 0, done |-> FALSE]]
  BY DEF CosimInit
<1>3. hart[1].pc = ResetPc
  BY <1>2 DEF Sources
<1>4. QED
  BY <1>1, <1>3 DEF Booted

LEMMA BootedGrows ==
  ASSUME Machines, Booted, NEW i, NEW g, GoldStep(i, g), i.op # "ecall", "trap" \notin causes
  PROVE  Booted'
<1>1. PICK c, t, n : c = Commit(hart[1].pc, GoldMods(g, i)) /\ t = gold' /\ n = Len(gold)
  OBVIOUS
<1>2. n \in Nat /\ n >= 1 /\ c.pc = hart[1].pc
  BY <1>1 DEF Commit, Machines, GoldInv, HartShape
<1>3. Len(t) = n + 1 /\ t[n + 1] = c /\ \A k \in 1 .. n : t[k] = gold[k]
  BY <1>1 DEF GoldStep, Grown
<1>4. t[2].pc = ResetPc
  <2>1. CASE n = 1
    <3>1. n + 1 = 2
      BY <2>1
    <3>2. QED
      BY <1>1, <1>2, <1>3, <2>1, <3>1 DEF Booted
  <2>2. CASE n # 1
    <3>1. n >= 2 /\ 2 \in 1 .. n
      BY <1>2, <2>2
    <3>2. QED
      BY <1>1, <1>3, <3>1 DEF Booted
  <2>3. QED
    BY <2>1, <2>2
<1>5. QED
  BY <1>1, <1>2, <1>3, <1>4 DEF Booted

LEMMA BootedNext ==
  ASSUME Machines, LowRange["fcsr"] > 1, Booted, [CosimNext]_cosimVars
  PROVE  Booted'
<1>1. CASE \E i \in Program, j \in Insts \cup {Inst("spin", 0)} : Step(i, j)
  <2>1. PICK i \in Program, j \in AnyInst : Step(i, j)
    BY <1>1 DEF AnyInst
  <2>2. PICK g, d : Both(i, j, g, d)
    BY <2>1, StepOfBoth
  <2>3. GoldStep(i, g) /\ causes \subseteq causes' /\ CausesOf(i) \subseteq causes'
    BY <2>2 DEF Both
  <2>4. i.op = "ecall" => "trap" \in CausesOf(i)
    BY DEF CausesOf
  <2>5. QED
    BY <2>3, <2>4, BootedGrows DEF Booted
<1>2. CASE \E i \in Program : RunOn(i)
  <2>1. PICK i \in Program : RunOn(i)
    BY <1>2
  <2>2. PICK g : GoldStep(i, g) /\ i.op # "ecall"
    BY <2>1, RunOnFacts
  <2>3. causes' = causes
    BY <2>1 DEF RunOn
  <2>4. QED
    BY <2>2, <2>3, BootedGrows DEF Booted
<1>3. CASE Crash \/ StopSpike \/ Load \/ Replay \/ UNCHANGED cosimVars
  <2>1. UNCHANGED <<hart, gold>> /\ causes \subseteq causes'
    BY <1>3 DEF Crash, StopSpike, Load, Replay, cosimVars, runVars
  <2>2. QED
    BY <2>1 DEF Booted
<1>4. QED
  BY <1>1, <1>2, <1>3 DEF CosimNext

-----------------------------------------------------------------------------
(* What the replay reads *)

\* While both logs stay, so does all that is said of them.
LEMMA LogsStay ==
  ASSUME UNCHANGED <<gold, dut, ended, text, parsed>>, NEW G, NEW D
  PROVE  /\ DutRan' = DutRan /\ (Parsed => Parsed')
         /\ \A k : Intact(k) = Intact(k)'
         /\ \A n : Rounds(G, D, n) => Rounds(G, D, n)'
<1>1. DutRan' = DutRan
  BY DEF DutRan
<1>2. Parsed => Parsed'
  BY DEF Parsed
<1>3. \A k : Intact(k) = Intact(k)'
  BY DEF Intact
<1>4. \A n : Rounds(G, D, n) => Rounds(G, D, n)'
  BY DEF Rounds, Passed, Intact, DataAgree
<1>5. QED
  BY <1>1, <1>2, <1>3, <1>4

\* All lines but the last are whole, and a line that is whole is read as its
\* commit.
LEMMA TextFacts ==
  ASSUME Machines
  PROVE  /\ Len(text) \in Nat /\ Len(gold) \in Nat /\ Len(text) <= Len(gold)
         /\ DOMAIN text = 1 .. Len(text)
         /\ \A k \in 1 .. Len(text) - 1 : Intact(k)
BY DEF Machines, TextInv, GoldInv, Intact

LEMMA EntryRead ==
  ASSUME Machines, Parsed, NEW k \in DOMAIN parsed
  PROVE  /\ k \in 1 .. Len(text)
         /\ parsed[k].pc = gold[k].pc
         /\ Intact(k) => parsed[k].mods = gold[k].mods
<1>1. k \in 1 .. Len(text) /\ k \in 1 .. Len(gold) /\ k \in Nat
  BY TextFacts DEF Parsed
<1>2. PICK c, line : c = gold[k] /\ line = text[k]
  OBVIOUS
<1>3. Printable(c)
  <2>1. c \in Commits
    BY <1>1, <1>2 DEF Machines, GoldInv
  <2>2. QED
    BY <2>1, CommitPrintable
<1>4. ~Refused(line) /\ parsed[k] = Parse(line)
  BY <1>1, <1>2, TextFacts DEF Parsed
<1>5. line = PrintLine(c) => Parse(line).pc = c.pc /\ Parse(line).mods = c.mods
  BY <1>3, WholeRead
<1>6. CASE k < Len(text)
  <2>1. k \in 1 .. Len(text) - 1
    BY <1>1, <1>6, TextFacts
  <2>2. line = PrintLine(c)
    BY <1>2, <2>1, TextFacts DEF Intact
  <2>3. QED
    BY <1>1, <1>2, <1>4, <1>5, <2>2
<1>7. CASE k = Len(text)
  <2>1. IsCut(PrintLine(c), line)
    BY <1>1, <1>2, <1>7 DEF Machines, TextInv
  <2>2. Parse(line).pc = c.pc
    BY <1>3, <1>4, <2>1, CutLineRead
  <2>3. QED
    BY <1>1, <1>2, <1>4, <1>5, <2>2 DEF Intact
<1>8. QED
  BY <1>1, <1>6, <1>7, TextFacts

-----------------------------------------------------------------------------
(* One write of an entry *)

\* A write to a register, to a CSR, and one that is not replayed
LEMMA RegWrite ==
  ASSUME ReplayShape, NEW s \in Sources, NEW m, m.kind \in Regs,
         phase = Writing(s), ReplayWrite(s, m), phase' # "failed"
  PROVE  /\ phase' = phase /\ UNCHANGED <<pc, csr, exit>>
         /\ regs'[s] = [regs[s] EXCEPT ![m.kind] = m.bits]
         /\ mask'[s] = mask[s] \cup {m.kind}
         /\ \A t \in Sources : t # s => regs'[t] = regs[t] /\ mask'[t] = mask[t]
<1>1. m.kind \in {"x", "f", "v"}
  BY Names3
<1>2. WriteReg(s, m.kind, m.bits)
  BY <1>1 DEF ReplayWrite, Fail
<1>3. QED
  BY <1>2 DEF WriteReg, ReplayShape

LEMMA CsrWritten ==
  ASSUME ReplayShape, NEW s \in Sources, NEW m, m.kind = "csr", FieldOf(m.name) \in Fields,
         phase = Writing(s), ReplayWrite(s, m), phase' # "failed"
  PROVE  /\ phase' = phase /\ UNCHANGED <<pc, regs, mask, exit>>
         /\ csr'[s] = [csr[s] EXCEPT ![FieldOf(m.name)] = Merged(m.name, @, m.bits)]
         /\ \A t \in Sources : t # s => csr'[t] = csr[t]
<1>1. WriteCsr(s, m.name, m.bits)
  BY DEF ReplayWrite
<1>2. Accepted(m.name, m.bits)
  BY <1>1 DEF WriteCsr, Fail
<1>3. PICK f, b : f = FieldOf(m.name) /\ b = Merged(m.name, csr[s][f], m.bits)
  OBVIOUS
<1>4. csr' = [csr EXCEPT ![s][f] = b] /\ UNCHANGED <<phase, pc, regs, mask, exit>>
  BY <1>1, <1>2, <1>3 DEF WriteCsr
<1>5. QED
  BY <1>3, <1>4 DEF ReplayShape

LEMMA NoWrite ==
  ASSUME NEW s \in Sources, NEW m, ~Effective(m),
         phase = Writing(s), ReplayWrite(s, m), phase' # "failed"
  PROVE  UNCHANGED <<phase, pc, regs, csr, mask, exit>> /\ m.kind \notin Regs
<1>1. m.kind \notin {"x", "f", "v"} /\ m.kind \notin Regs
  BY Names3 DEF Effective
<1>2. CASE m.kind = "csr"
  <2>1. FieldOf(m.name) \notin Fields
    BY <1>2 DEF Effective
  <2>2. WriteCsr(s, m.name, m.bits) /\ ~Accepted(m.name, m.bits)
    BY <1>2, <2>1 DEF ReplayWrite, Accepted
  <2>3. QED
    BY <2>2 DEF WriteCsr, Fail
<1>3. CASE m.kind # "csr"
  BY <1>1, <1>3 DEF ReplayWrite, vars
<1>4. QED
  BY <1>1, <1>2, <1>3

\* What a write leaves alone, and what it does to the shadow state
OneWritten(s, m) ==
  /\ phase' = phase /\ UNCHANGED <<pc, exit>>
  /\ mask'[s] = IF m.kind \in Regs THEN mask[s] \cup {m.kind} ELSE mask[s]
  /\ \A old : regs[s] = old.regs /\ csr[s] = old.csr =>
       IF Effective(m) THEN regs'[s] = Written(old, m).regs /\ csr'[s] = Written(old, m).csr
       ELSE regs'[s] = old.regs /\ csr'[s] = old.csr
  /\ \A t \in Sources : t # s => regs'[t] = regs[t] /\ csr'[t] = csr[t] /\ mask'[t] = mask[t]

\* Every write that does not fail
LEMMA WriteOne ==
  ASSUME ReplayShape, NEW s \in Sources, NEW m,
         phase = Writing(s), ReplayWrite(s, m), phase' # "failed"
  PROVE  OneWritten(s, m)
<1>1. CASE m.kind \in Regs
  <2>1. /\ phase' = phase /\ UNCHANGED <<pc, csr, exit>>
        /\ regs'[s] = [regs[s] EXCEPT ![m.kind] = m.bits]
        /\ mask'[s] = mask[s] \cup {m.kind}
        /\ \A t \in Sources : t # s => regs'[t] = regs[t] /\ mask'[t] = mask[t]
    BY <1>1, RegWrite
  <2>2. QED
    BY <1>1, <2>1 DEF OneWritten, Effective, Written
<1>2. CASE m.kind \notin Regs /\ Effective(m)
  <2>1. m.kind = "csr" /\ FieldOf(m.name) \in Fields
    BY <1>2 DEF Effective
  <2>2. /\ phase' = phase /\ UNCHANGED <<pc, regs, mask, exit>>
        /\ csr'[s] = [csr[s] EXCEPT ![FieldOf(m.name)] = Merged(m.name, @, m.bits)]
        /\ \A t \in Sources : t # s => csr'[t] = csr[t]
    BY <2>1, CsrWritten
  <2>3. QED
    BY <1>2, <2>2 DEF OneWritten, Written
<1>3. CASE ~Effective(m)
  BY <1>3, NoWrite DEF OneWritten
<1>4. QED
  BY <1>1, <1>2, <1>3

\* The next write of an entry
LEMMA BetweenWrites ==
  ASSUME NEW s \in Sources, NEW shadows, NEW k, NEW mods, Between(s, shadows, k, mods),
         Applies(shadows[k - 1], mods, shadows[k]), Len(mods) \in Nat, DOMAIN mods = 1 .. Len(mods),
         next \in DOMAIN mods, next' = next + 1, OneWritten(s, mods[next])
  PROVE  Between(s, shadows, k, mods)'
<1>1. PICK n, m : n = next /\ m = mods[n]
  OBVIOUS
<1>2. n \in Nat /\ n \in 1 .. Len(mods) /\ n + 1 \in 1 .. Len(mods) + 1 /\ (n + 1) - 1 = n
  BY <1>1
<1>3. \A l : l \in 1 .. n <=> (l \in 1 .. n - 1 \/ l = n)
  BY <1>2
<1>4. mask'[s] = {mods[l].kind : l \in {j \in 1 .. n : mods[j].kind \in Regs}}
  <2>1. mask[s] = {mods[l].kind : l \in {j \in 1 .. n - 1 : mods[j].kind \in Regs}}
    BY <1>1 DEF Between
  <2>2. mask'[s] = IF m.kind \in Regs THEN mask[s] \cup {m.kind} ELSE mask[s]
    BY <1>1 DEF OneWritten
  <2>3. QED
    BY <1>1, <1>3, <2>1, <2>2
<1>5. CASE ~Effective(m)
  <2>1. (\A l \in 1 .. n - 1 : ~Effective(mods[l])) => (\A l \in 1 .. n : ~Effective(mods[l]))
    BY <1>1, <1>3, <1>5
  <2>2. (\E l \in 1 .. n - 1 : Effective(mods[l])) => (\E l \in 1 .. n : Effective(mods[l]))
    BY <1>3
  <2>3. \A j : IsShadow(s, shadows, j) => IsShadow(s, shadows, j)'
    BY <1>1, <1>5 DEF OneWritten, IsShadow
  <2>4. QED
    BY <1>1, <1>2, <1>4, <2>1, <2>2, <2>3 DEF Between
<1>6. CASE Effective(m)
  <2>1. PICK e \in DOMAIN mods : Only(mods, e) /\ shadows[k] = Written(shadows[k - 1], mods[e])
    BY <1>1, <1>6 DEF Applies, Idle
  <2>2. e = n
    BY <1>1, <1>6, <2>1 DEF Only
  <2>3. \A l \in 1 .. n - 1 : ~Effective(mods[l])
    BY <1>2, <2>1, <2>2 DEF Only
  <2>4. IsShadow(s, shadows, k - 1)
    BY <1>1, <2>3 DEF Between
  <2>5. IsShadow(s, shadows, k)'
    BY <1>1, <1>6, <2>1, <2>2, <2>4 DEF OneWritten, IsShadow
  <2>6. n \in 1 .. n /\ Effective(mods[n])
    BY <1>1, <1>2, <1>6
  <2>7. QED
    BY <1>1, <1>2, <1>4, <2>5, <2>6 DEF Between
<1>7. QED
  BY <1>5, <1>6

\* An entry is begun, and an entry is done.
LEMMA BetweenFirst ==
  ASSUME NEW s \in Sources, NEW shadows, NEW k, NEW mods, Len(mods) \in Nat,
         next' = 1, mask'[s] = {}, regs'[s] = regs[s], csr'[s] = csr[s], IsShadow(s, shadows, k - 1)
  PROVE  Between(s, shadows, k, mods)'
BY DEF Between, IsShadow

LEMMA BetweenLast ==
  ASSUME NEW s \in Sources, NEW shadows, NEW k, NEW mods, Between(s, shadows, k, mods),
         Applies(shadows[k - 1], mods, shadows[k]), Len(mods) \in Nat, DOMAIN mods = 1 .. Len(mods),
         next \notin DOMAIN mods
  PROVE  mask[s] = Marks(mods) /\ IsShadow(s, shadows, k)
<1>1. next = Len(mods) + 1 /\ next - 1 = Len(mods)
  BY DEF Between
<1>2. mask[s] = Marks(mods)
  BY <1>1 DEF Between, Marks
<1>3. CASE Idle(mods)
  <2>1. IsShadow(s, shadows, k - 1)
    BY <1>1, <1>3 DEF Between, Idle
  <2>2. shadows[k] = shadows[k - 1]
    BY <1>3 DEF Applies, Only, Idle
  <2>3. QED
    BY <1>2, <2>1, <2>2 DEF IsShadow
<1>4. CASE ~Idle(mods)
  BY <1>1, <1>2, <1>4 DEF Between, Idle
<1>5. QED
  BY <1>3, <1>4

-----------------------------------------------------------------------------
(* The steps of the replay, by its phases *)

\* Which action a step is, by the phase
LEMMA InResets ==
  ASSUME Replay, phase \in {"reset1", "reset2"}
  PROVE  ReplayReset
<1>1. ~\E s \in Sources : ReplayCommit(s)
  BY DEF ReplayCommit, BeginCommit, Stepping, Writing, Sources
<1>2. ~ReplayEnd /\ ~Judge
  BY DEF ReplayEnd, SpikeEnds, PokedexExits, PokedexLogBroken, Judge, JudgeRunning, JudgeExit
<1>3. QED
  BY <1>1, <1>2 DEF Replay

LEMMA InSteps ==
  ASSUME Replay, NEW s \in Sources, phase = Stepping(s)
  PROVE  (ReplayCommit(s) /\ BeginCommit(s, Current(s).pc)) \/ ReplayEnd
<1>1. ~ReplayReset
  BY DEF ReplayReset, SkipBootRom, ResetSpike, SpikeEndsInReset, ResetPokedex, Stepping
<1>2. ~Judge
  BY DEF Judge, JudgeRunning, JudgeExit, Stepping
<1>3. \A t \in Sources : phase # Writing(t) /\ (phase = Stepping(t) => t = s)
  BY DEF Stepping, Writing, Sources
<1>4. \A t \in Sources : ReplayCommit(t) => BeginCommit(t, Current(t).pc)
  BY <1>3 DEF ReplayCommit
<1>5. \A t \in Sources : ReplayCommit(t) => t = s
  BY <1>3, <1>4 DEF BeginCommit
<1>6. QED
  BY <1>1, <1>2, <1>4, <1>5 DEF Replay

LEMMA InWrites ==
  ASSUME Replay, NEW s \in Sources, phase = Writing(s)
  PROVE  \/ /\ next \in DOMAIN Current(s).mods /\ ReplayWrite(s, Current(s).mods[next])
            /\ next' = next + 1 /\ at' = at
         \/ /\ next \notin DOMAIN Current(s).mods /\ EndCommit(s) /\ Move(s)
<1>1. ~ReplayReset
  BY DEF ReplayReset, SkipBootRom, ResetSpike, SpikeEndsInReset, ResetPokedex, Writing
<1>2. ~Judge /\ ~ReplayEnd
  BY DEF Judge, JudgeRunning, JudgeExit, ReplayEnd, SpikeEnds, PokedexExits, PokedexLogBroken, Writing
<1>3. \A t \in Sources : phase # Stepping(t) /\ (phase = Writing(t) => t = s)
  BY DEF Stepping, Writing, Sources
<1>4. PICK t \in Sources : ReplayCommit(t)
  BY <1>1, <1>2 DEF Replay
<1>5. t = s
  BY <1>3, <1>4 DEF ReplayCommit, BeginCommit
<1>6. QED
  BY <1>3, <1>4, <1>5 DEF ReplayCommit, BeginCommit

LEMMA InTheJudge ==
  ASSUME Replay, phase = "judge"
  PROVE  Judge
<1>1. ~ReplayReset
  BY DEF ReplayReset, SkipBootRom, ResetSpike, SpikeEndsInReset, ResetPokedex
<1>2. ~\E s \in Sources : ReplayCommit(s)
  BY DEF ReplayCommit, BeginCommit, Stepping, Writing, Sources
<1>3. ~ReplayEnd
  BY DEF ReplayEnd, SpikeEnds, PokedexExits, PokedexLogBroken
<1>4. QED
  BY <1>1, <1>2, <1>3 DEF Replay

-----------------------------------------------------------------------------
(* Where the replay is, phase by phase *)

\* Both logs are whole entries, and the replay has not stopped.
Replaying(G, D) ==
  /\ Machines /\ ReplayShape /\ RunTraces(G, D)
  /\ stage = "replay" /\ ended = "exit" /\ phase # "failed"
  /\ phase # "start" /\ Parsed /\ ReplayAt(G, D)

\* The lengths and the parts of both logs
LEMMA LogFacts ==
  ASSUME Machines, ended = "exit", NEW G, NEW D, RunTraces(G, D)
  PROVE  /\ DutRan \in Nat /\ DutRan >= 1 /\ Len(dut) = DutRan + 2 /\ DOMAIN dut = 1 .. DutRan + 2
         /\ \A k \in 2 .. DutRan + 1 : dut[k].kind = "commit"
         /\ dut[DutRan + 2].kind = "exit"
         /\ \A k \in 2 .. DutRan + 1 : /\ Applies(D[k - 1], dut[k].mods, D[k])
                                       /\ Len(dut[k].mods) \in Nat
                                       /\ DOMAIN dut[k].mods = 1 .. Len(dut[k].mods)
         /\ \A k \in 2 .. Len(gold) : /\ Applies(G[k - 1], gold[k].mods, G[k])
                                      /\ Len(gold[k].mods) \in Nat
                                      /\ DOMAIN gold[k].mods = 1 .. Len(gold[k].mods)
         /\ G[1] = Shadow(0, 0, 0, 0) /\ D[1] = Shadow(0, 0, 0, 0)
<1>1. PICK n : n = DutRan
  OBVIOUS
<1>2. /\ n \in Nat /\ n >= 1 /\ n = Len(dut) - 2 /\ dut \in Seq(Entries)
      /\ \A k \in 2 .. n + 1 : dut[k].kind = "commit"
      /\ dut[n + 2].kind = "exit"
  BY <1>1 DEF Machines, DutShape, DutRan
<1>3. Len(dut) = n + 2 /\ DOMAIN dut = 1 .. n + 2
  <2>1. Len(dut) \in Nat /\ DOMAIN dut = 1 .. Len(dut)
    BY <1>2
  <2>2. QED
    BY <1>2, <2>1
<1>4. Trace(gold, Len(gold), G) /\ Trace(dut, n + 1, D)
  BY <1>1 DEF RunTraces
<1>5. ASSUME NEW k \in 2 .. n + 1
      PROVE  Applies(D[k - 1], dut[k].mods, D[k]) /\ Len(dut[k].mods) \in Nat
             /\ DOMAIN dut[k].mods = 1 .. Len(dut[k].mods)
  <2>1. k \in DOMAIN dut
    BY <1>2, <1>3
  <2>2. PICK e : e = dut[k]
    OBVIOUS
  <2>3. e \in Entries
    BY <1>2, <2>1, <2>2
  <2>4. e.mods \in Seq(PrintedMods)
    BY <2>3 DEF Entries
  <2>5. PICK w : w = e.mods
    OBVIOUS
  <2>6. Len(w) \in Nat /\ DOMAIN w = 1 .. Len(w)
    BY <2>4, <2>5
  <2>7. QED
    BY <1>4, <2>2, <2>5, <2>6 DEF Trace
<1>6. ASSUME NEW k \in 2 .. Len(gold)
      PROVE  Applies(G[k - 1], gold[k].mods, G[k]) /\ Len(gold[k].mods) \in Nat
             /\ DOMAIN gold[k].mods = 1 .. Len(gold[k].mods)
  <2>1. k \in DOMAIN gold
    BY TextFacts DEF Machines, GoldInv
  <2>2. PICK e : e = gold[k]
    OBVIOUS
  <2>3. e \in Commits
    BY <2>1, <2>2 DEF Machines, GoldInv
  <2>4. e.mods \in Seq(PrintedMods)
    BY <2>3, CommitPrintable DEF Printable
  <2>5. PICK w : w = e.mods
    OBVIOUS
  <2>6. Len(w) \in Nat /\ DOMAIN w = 1 .. Len(w)
    BY <2>4, <2>5
  <2>7. QED
    BY <1>4, <2>2, <2>5, <2>6 DEF Trace
<1>7. QED
  BY <1>1, <1>2, <1>3, <1>4, <1>5, <1>6 DEF Trace

\* The replay changes neither the machines nor the logs.
LEMMA ReplayStill ==
  ASSUME Replay
  PROVE  UNCHANGED <<stage, hart, ended, gold, dut, touched, differ, text, parsed, torn, causes>>
BY DEF Replay, runVars, logVars

\* A step of the replay: what is left to show of ReplayFacts
LEMMA ReplayFactsFrom ==
  ASSUME NEW G, NEW D, Replaying(G, D), Replay,
         phase' # "failed" => phase' # "start" /\ ReplayAt(G, D)'
  PROVE  ReplayFacts(G, D)'
BY ReplayStill, LogsStay DEF Replaying, ReplayFacts

\* A source goes on to its next entry; the shadows stay while nothing writes
\* them.
LEMMA MoveAt ==
  ASSUME ReplayShape, NEW s \in Sources, Move(s)
  PROVE  at'[s] = at[s] + 1 /\ \A t \in Sources : t # s => at'[t] = at[t]
BY DEF Move, ReplayShape

LEMMA ShadowStays ==
  ASSUME UNCHANGED <<regs, csr>>, NEW shadows, NEW k, NEW s
  PROVE  IsShadow(s, shadows, k) <=> IsShadow(s, shadows, k)'
BY DEF IsShadow

\* The boot ROM is skipped until the reset vector, and both sources are reset.
LEMMA InReset1Next ==
  ASSUME NEW G, NEW D, Replaying(G, D), Replay, phase = "reset1", phase' # "failed"
  PROVE  phase' # "start" /\ ReplayAt(G, D)'
<1>1. InReset1(G, D)
  BY DEF Replaying, ReplayAt
<1>2. gold' = gold
  BY ReplayStill
<1>3. PICK k : k = at[1]
  OBVIOUS
<1>4. k \in DOMAIN parsed => /\ k \in 1 .. Len(text)
                             /\ parsed[k].pc = gold[k].pc
  BY EntryRead DEF Replaying
<1>5. CASE Has(1) /\ Current(1).pc # resetPc /\ SkipBootRom /\ Move(1)
  <2>1. phase' = "reset1" /\ skipped' = skipped + 1 /\ UNCHANGED <<resetPc, regs, csr, exit>>
    BY <1>5 DEF SkipBootRom, states
  <2>2. at'[1] = k + 1 /\ at'[2] = at[2]
    BY <1>3, <1>5, MoveAt DEF Replaying, Sources
  <2>3. gold[k].pc # ResetPc
    BY <1>1, <1>3, <1>4, <1>5 DEF Has, Current, InReset1
  <2>4. k \in Nat /\ k = skipped + 1 /\ \A j \in 1 .. k - 1 : gold[j].pc # ResetPc
    BY <1>1, <1>3 DEF InReset1
  <2>5. \A j \in 1 .. (k + 1) - 1 : gold[j].pc # ResetPc
    <3>1. \A j \in 1 .. (k + 1) - 1 : j \in 1 .. k - 1 \/ j = k
      BY <2>4
    <3>2. QED
      BY <2>3, <2>4, <3>1
  <2>6. InReset1(G, D)'
    BY <1>1, <1>2, <2>1, <2>2, <2>4, <2>5 DEF InReset1, IsShadow, Ended
  <2>7. QED
    BY <2>1, <2>6 DEF ReplayAt
<1>6. CASE Has(1) /\ Current(1).pc = resetPc /\ ResetSpike /\ at' = at
  <2>1. phase' = "reset2" /\ UNCHANGED <<regs, csr, exit>>
    BY <1>6 DEF ResetSpike, states
  <2>2. k \in 1 .. Len(text) /\ gold[k].pc = ResetPc
    BY <1>1, <1>3, <1>4, <1>6 DEF Has, Current, InReset1
  <2>3. k = 2
    <3>1. k # 1
      BY <2>2 DEF Replaying, Machines, HartShape, BootPc, ResetPc
    <3>2. k \notin 3 .. Len(gold)
      BY <2>2 DEF Replaying, Machines, HartShape, ResetPc
    <3>3. k \in 1 .. Len(gold) /\ Len(gold) \in Nat
      BY <2>2, TextFacts DEF Replaying
    <3>4. QED
      BY <3>1, <3>2, <3>3
  <2>4. InReset2(G, D)'
    BY <1>1, <1>3, <1>6, <2>1, <2>3 DEF InReset1, InReset2, IsShadow, Ended
  <2>5. QED
    BY <2>1, <2>4 DEF ReplayAt
<1>7. ~SpikeEndsInReset /\ ~ResetPokedex
  BY DEF SpikeEndsInReset, Fail, ResetPokedex
<1>8. QED
  BY <1>5, <1>6, <1>7, InResets DEF ReplayReset

LEMMA InReset2Next ==
  ASSUME NEW G, NEW D, Replaying(G, D), Replay, phase = "reset2", phase' # "failed"
  PROVE  phase' # "start" /\ ReplayAt(G, D)'
<1>1. InReset2(G, D)
  BY DEF Replaying, ReplayAt
<1>2. ResetPokedex /\ Move(2)
  BY InResets DEF ReplayReset, SkipBootRom, ResetSpike, SpikeEndsInReset
<1>3. phase' = "step1" /\ UNCHANGED <<regs, csr, exit>>
  BY <1>2 DEF ResetPokedex, states
<1>4. at'[1] = 2 /\ at'[2] = 2
  BY <1>1, <1>2, MoveAt DEF Replaying, Sources, InReset2
<1>5. UNCHANGED <<gold, dut, ended, text, parsed>>
  BY ReplayStill
<1>6. DutRan' = DutRan /\ DutRan \in Nat
  BY <1>5, LogsStay, LogFacts DEF Replaying
<1>7. PICK k : k = 2
  OBVIOUS
<1>8. k - 1 = 1 /\ k - 2 = 0 /\ k \in 2 .. DutRan' + 2
  BY <1>6, <1>7
<1>9. Rounds(G, D, k - 2)'
  BY <1>8 DEF Rounds
<1>10. InRound(G, D, k)'
  BY <1>1, <1>3, <1>4, <1>7, <1>8, <1>9 DEF InReset2, InRound, Ended
<1>11. OneAt(G, k)' /\ TwoAt(D, k)'
  BY <1>1, <1>3, <1>4, <1>7, <1>8 DEF OneAt, TwoAt, InReset2, IsShadow
<1>12. InStep1(G, D, k)'
  BY <1>1, <1>3, <1>10, <1>11 DEF InStep1, InReset2, Ended
<1>13. InStep1(G, D, at[2])'
  BY <1>4, <1>7, <1>12
<1>14. QED
  BY <1>3, <1>13 DEF ReplayAt

\* The round goes on.
LEMMA RoundStays ==
  ASSUME NEW G, NEW D, Replay, NEW k, InRound(G, D, k), at'[2] = k, exit'[2] = exit[2]
  PROVE  InRound(G, D, k)'
<1>1. UNCHANGED <<gold, dut, ended, text, parsed>>
  BY ReplayStill
<1>2. DutRan' = DutRan /\ (Rounds(G, D, k - 2) => Rounds(G, D, k - 2)')
  BY <1>1, LogsStay
<1>3. QED
  BY <1>2 DEF InRound, Ended

\* Source 1 begins its entry, or has none left.
LEMMA InStep1Next ==
  ASSUME NEW G, NEW D, Replaying(G, D), Replay, phase = "step1", phase' # "failed"
  PROVE  phase' # "start" /\ ReplayAt(G, D)'
<1>1. PICK k : k = at[2]
  OBVIOUS
<1>2. InStep1(G, D, k)
  BY <1>1 DEF Replaying, ReplayAt
<1>3. /\ k \in Nat /\ k >= 2 /\ k - 1 \in 1 .. k - 1 /\ at[1] = k /\ ~Ended(1)
      /\ InRound(G, D, k) /\ TwoAt(D, k) /\ (Intact(k - 1) => IsShadow(1, G, k - 1))
  BY <1>2, LogFacts DEF InStep1, InRound, OneAt, Replaying
<1>4. UNCHANGED <<gold, dut, ended, text, parsed>>
  BY ReplayStill
<1>5. CASE BeginCommit(1, Current(1).pc) /\ ReplayCommit(1)
  <2>1. phase' = "write1" /\ UNCHANGED <<regs, csr, exit>> /\ pc'[1] = Current(1).pc /\ mask'[1] = {}
    BY <1>5 DEF BeginCommit, Stepping, Writing, Replaying, ReplayShape, Sources
  <2>2. Has(1) /\ next' = 1 /\ at' = at
    BY <1>5 DEF ReplayCommit, Stepping, Writing, Sources
  <2>3. k \in DOMAIN parsed /\ Current(1).pc = parsed[k].pc
    BY <1>3, <2>2 DEF Has, Current
  <2>4. k \in 1 .. Len(text) /\ pc'[1] = gold[k].pc
    BY <2>1, <2>3, EntryRead DEF Replaying
  <2>5. k - 1 \in 1 .. Len(text) - 1 /\ k \in 2 .. Len(gold)
    BY <1>3, <2>4, TextFacts DEF Replaying
  <2>6. IsShadow(1, G, k - 1)
    BY <1>3, <2>5, TextFacts DEF Replaying
  <2>7. PICK mods : mods = gold[k].mods
    OBVIOUS
  <2>8. Len(mods) \in Nat
    BY <2>5, <2>7, LogFacts DEF Replaying
  <2>9. Between(1, G, k, mods)'
    BY <2>1, <2>2, <2>6, <2>8, BetweenFirst DEF Sources
  <2>10. InRound(G, D, k)'
    BY <1>1, <1>3, <2>1, <2>2, RoundStays
  <2>11. TwoAt(D, k)'
    BY <1>3, <2>1, <2>2 DEF TwoAt, IsShadow
  <2>12. InWrite1(G, D, k)'
    BY <1>3, <1>4, <2>1, <2>2, <2>4, <2>7, <2>9, <2>10, <2>11 DEF InWrite1, Ended
  <2>13. InWrite1(G, D, at[2])'
    BY <1>1, <2>2, <2>12
  <2>14. QED
    BY <2>1, <2>13 DEF ReplayAt
<1>6. CASE ReplayEnd
  <2>1. ~Has(1) /\ SpikeEnds /\ at' = at
    BY <1>6 DEF ReplayEnd, PokedexExits, PokedexLogBroken
  <2>2. phase' = "step2" /\ UNCHANGED <<regs, csr>> /\ exit' = [exit EXCEPT ![1] = MaxCode]
    BY <2>1 DEF SpikeEnds, states
  <2>3. exit'[1] = MaxCode /\ exit'[2] = exit[2] /\ MaxCode # None
    BY <2>2, ValueAssumption DEF Replaying, ReplayShape, Sources, None
  <2>4. k > Len(text)
    BY <1>3, <2>1, TextFacts DEF Has, Replaying, Parsed
  <2>5. InRound(G, D, k)'
    BY <1>1, <1>3, <2>1, <2>3, RoundStays
  <2>6. TwoAt(D, k)'
    BY <1>3, <2>1, <2>2 DEF TwoAt, IsShadow
  <2>7. InStep2(G, D, k)'
    BY <1>4, <2>3, <2>4, <2>5, <2>6 DEF InStep2, OneDone, Ended
  <2>8. InStep2(G, D, at[2])'
    BY <1>1, <2>1, <2>7
  <2>9. QED
    BY <2>2, <2>8 DEF ReplayAt
<1>7. QED
  <2>1. (ReplayCommit(1) /\ BeginCommit(1, Current(1).pc)) \/ ReplayEnd
    BY InSteps DEF Stepping, Sources
  <2>2. QED
    BY <1>5, <1>6, <2>1

\* It writes, or the entry is done.
LEMMA InWrite1Next ==
  ASSUME NEW G, NEW D, Replaying(G, D), Replay, phase = "write1", phase' # "failed"
  PROVE  phase' # "start" /\ ReplayAt(G, D)'
<1>1. PICK k, mods : k = at[2] /\ mods = gold[k].mods
  OBVIOUS
<1>2. InWrite1(G, D, k)
  BY <1>1 DEF Replaying, ReplayAt
<1>3. /\ InRound(G, D, k) /\ ~Ended(1) /\ TwoAt(D, k) /\ at[1] = k /\ k <= Len(text)
      /\ pc[1] = gold[k].pc /\ (Intact(k) => Between(1, G, k, mods))
  BY <1>1, <1>2 DEF InWrite1
<1>4. k \in Nat /\ k >= 2 /\ k \in 1 .. Len(text) /\ k \in 2 .. Len(gold)
  <2>1. k \in Nat /\ k >= 2
    BY <1>3, LogFacts DEF InRound, Replaying
  <2>2. QED
    BY <1>3, <2>1, TextFacts DEF Replaying
<1>5. /\ Applies(G[k - 1], mods, G[k]) /\ Len(mods) \in Nat /\ DOMAIN mods = 1 .. Len(mods)
  BY <1>1, <1>4, LogFacts DEF Replaying
<1>6. k \in DOMAIN parsed /\ Current(1) = parsed[k]
  BY <1>3, <1>4, TextFacts DEF Replaying, Parsed, Current
<1>7. Intact(k) => Current(1).mods = mods
  BY <1>1, <1>6, EntryRead DEF Replaying
<1>8. UNCHANGED <<gold, dut, ended, text, parsed>>
  BY ReplayStill
<1>9. phase = Writing(1) /\ 1 \in Sources /\ 2 \in Sources /\ 2 # 1
  BY DEF Writing, Sources
<1>10. CASE /\ next \in DOMAIN Current(1).mods /\ ReplayWrite(1, Current(1).mods[next])
            /\ next' = next + 1 /\ at' = at
  <2>1. PICK m : m = Current(1).mods[next]
    OBVIOUS
  <2>2. OneWritten(1, m)
    BY <1>9, <1>10, <2>1, WriteOne DEF Replaying
  <2>3. phase' = "write1" /\ UNCHANGED <<pc, exit>> /\ regs'[2] = regs[2] /\ csr'[2] = csr[2]
    BY <1>9, <2>2 DEF OneWritten
  <2>4. Intact(k) => Between(1, G, k, mods)'
    <3> SUFFICES ASSUME Intact(k) PROVE Between(1, G, k, mods)'
      OBVIOUS
    <3>1. next \in DOMAIN mods /\ m = mods[next]
      BY <1>7, <1>10, <2>1
    <3>2. OneWritten(1, mods[next])
      BY <2>2, <3>1
    <3>3. QED
      BY <1>3, <1>5, <1>9, <1>10, <3>1, <3>2, BetweenWrites
  <2>5. InRound(G, D, k)'
    BY <1>1, <1>3, <1>10, <2>3, RoundStays
  <2>6. TwoAt(D, k)'
    BY <1>3, <1>10, <2>3 DEF TwoAt, IsShadow
  <2>7. InWrite1(G, D, k)'
    BY <1>1, <1>3, <1>8, <1>10, <2>3, <2>4, <2>5, <2>6 DEF InWrite1, Ended, Intact
  <2>8. InWrite1(G, D, at[2])'
    BY <1>1, <1>10, <2>7
  <2>9. QED
    BY <2>3, <2>8 DEF ReplayAt
<1>11. CASE next \notin DOMAIN Current(1).mods /\ EndCommit(1) /\ Move(1)
  <2>1. phase' = "step2" /\ UNCHANGED <<pc, regs, csr, mask, exit>>
    BY <1>11 DEF EndCommit, After, states
  <2>2. at'[1] = k + 1 /\ at'[2] = k /\ (k + 1) - 1 = k
    BY <1>1, <1>3, <1>4, <1>9, <1>11, MoveAt DEF Replaying
  <2>3. Intact(k) => mask[1] = Marks(mods) /\ IsShadow(1, G, k)
    <3> SUFFICES ASSUME Intact(k) PROVE mask[1] = Marks(mods) /\ IsShadow(1, G, k)
      OBVIOUS
    <3>1. next \notin DOMAIN mods
      BY <1>7, <1>11
    <3>2. QED
      BY <1>3, <1>5, <1>9, <3>1, BetweenLast
  <2>4. OneRead(G, k)'
    BY <1>1, <1>3, <1>8, <2>1, <2>2, <2>3 DEF OneRead, OneAt, IsShadow, Intact
  <2>5. InRound(G, D, k)'
    BY <1>3, <2>1, <2>2, RoundStays
  <2>6. TwoAt(D, k)'
    BY <1>3, <2>1, <2>2 DEF TwoAt, IsShadow
  <2>7. InStep2(G, D, k)'
    BY <1>3, <1>8, <2>1, <2>4, <2>5, <2>6 DEF InStep2, OneDone, Ended
  <2>8. InStep2(G, D, at[2])'
    BY <2>2, <2>7
  <2>9. QED
    BY <2>1, <2>8 DEF ReplayAt
<1>12. QED
  BY <1>9, <1>10, <1>11, InWrites

\* Source 1 waits.
LEMMA OneWaits ==
  ASSUME NEW G, NEW k, OneDone(G, k), UNCHANGED <<gold, text>>,
         at'[1] = at[1], pc'[1] = pc[1], regs'[1] = regs[1], csr'[1] = csr[1], mask'[1] = mask[1],
         exit'[1] = exit[1]
  PROVE  OneDone(G, k)'
<1>1. OneRead(G, k) => OneRead(G, k)'
  BY DEF OneRead, OneAt, IsShadow, Intact
<1>2. QED
  BY <1>1 DEF OneDone, Ended

\* Source 2 begins its entry, or has read its exit.
LEMMA InStep2Next ==
  ASSUME NEW G, NEW D, Replaying(G, D), Replay, phase = "step2", phase' # "failed"
  PROVE  phase' # "start" /\ ReplayAt(G, D)'
<1>1. PICK k : k = at[2]
  OBVIOUS
<1>2. InStep2(G, D, k)
  BY <1>1 DEF Replaying, ReplayAt
<1>3. InRound(G, D, k) /\ TwoAt(D, k) /\ OneDone(G, k) /\ IsShadow(2, D, k - 1)
  BY <1>2 DEF InStep2, TwoAt
<1>4. PICK n : n = DutRan
  OBVIOUS
<1>5. /\ n \in Nat /\ k \in 2 .. n + 2 /\ DOMAIN dut = 1 .. n + 2
      /\ \A j \in 2 .. n + 1 : dut[j].kind = "commit"
      /\ dut[n + 2].kind = "exit"
  BY <1>3, <1>4, LogFacts DEF InRound, Replaying
<1>6. UNCHANGED <<gold, dut, ended, text, parsed>>
  BY ReplayStill
<1>7. DutRan' = n
  BY <1>4, <1>6, LogsStay
<1>8. CASE BeginCommit(2, Current(2).pc) /\ ReplayCommit(2)
  <2>1. /\ phase' = "write2" /\ UNCHANGED <<regs, csr, exit>> /\ pc'[2] = Current(2).pc /\ mask'[2] = {}
        /\ pc'[1] = pc[1] /\ mask'[1] = mask[1]
    BY <1>8 DEF BeginCommit, Stepping, Writing, Replaying, ReplayShape, Sources
  <2>2. Has(2) /\ Current(2).kind = "commit" /\ next' = 1 /\ at' = at
    BY <1>8 DEF ReplayCommit, Stepping, Writing, Sources
  <2>3. dut[k].kind = "commit" /\ pc'[2] = dut[k].pc
    BY <1>1, <2>1, <2>2 DEF Current
  <2>4. k # n + 2
    BY <1>5, <2>3
  <2>5. k \in 2 .. n + 1 /\ k <= n + 1
    BY <1>5, <2>4
  <2>6. PICK mods : mods = dut[k].mods
    OBVIOUS
  <2>7. Len(mods) \in Nat
    BY <1>4, <2>5, <2>6, LogFacts DEF Replaying
  <2>8. Between(2, D, k, mods)'
    BY <1>3, <2>1, <2>2, <2>7, BetweenFirst DEF Sources
  <2>9. InRound(G, D, k)'
    BY <1>1, <1>3, <2>1, <2>2, RoundStays
  <2>10. OneDone(G, k)'
    BY <1>3, <1>6, <2>1, <2>2, OneWaits
  <2>11. InWrite2(G, D, k)'
    BY <1>6, <1>7, <2>3, <2>5, <2>6, <2>8, <2>9, <2>10 DEF InWrite2
  <2>12. InWrite2(G, D, at[2])'
    BY <1>1, <2>2, <2>11
  <2>13. QED
    BY <2>1, <2>12 DEF ReplayAt
<1>9. CASE ReplayEnd
  <2>1. /\ Current(2).kind = "exit" /\ PokedexExits(Current(2).code) /\ at' = at
    BY <1>9 DEF ReplayEnd, SpikeEnds, PokedexLogBroken, Fail
  <2>2. k = n + 2
    BY <1>1, <1>5, <2>1 DEF Current
  <2>3. phase' = "judge" /\ exit' = [exit EXCEPT ![2] = dut[k].code]
    BY <1>1, <2>1 DEF PokedexExits, Current
  <2>4. exit'[2] = dut[n + 2].code
    BY <2>2, <2>3 DEF Replaying, ReplayShape, Sources
  <2>5. Rounds(G, D, n)'
    <3>1. k - 2 = n
      BY <1>5, <2>2
    <3>2. Rounds(G, D, n)
      BY <1>3, <3>1 DEF InRound
    <3>3. QED
      BY <1>6, <3>2, LogsStay
  <2>6. dut[n + 2].code # None
    <3>1. PICK e : e = dut[n + 2]
      OBVIOUS
    <3>2. n + 2 \in DOMAIN dut
      BY <1>5
    <3>3. e \in Entries
      BY <3>1, <3>2 DEF Replaying, Machines, DutShape
    <3>4. QED
      BY <3>1, <3>3 DEF Entries, None
  <2>7. \A j : InJudge(G, D, j)'
    BY <1>6, <1>7, <2>4, <2>5, <2>6 DEF InJudge, Ended
  <2>8. InJudge(G, D, at[2] - 1)'
    BY <2>7
  <2>9. QED
    BY <2>3, <2>8 DEF ReplayAt
<1>10. QED
  <2>1. (ReplayCommit(2) /\ BeginCommit(2, Current(2).pc)) \/ ReplayEnd
    BY InSteps DEF Stepping, Sources
  <2>2. QED
    BY <1>8, <1>9, <2>1

\* It writes, or both have replayed their entries.
LEMMA InWrite2Next ==
  ASSUME NEW G, NEW D, Replaying(G, D), Replay, phase = "write2", phase' # "failed"
  PROVE  phase' # "start" /\ ReplayAt(G, D)'
<1>1. PICK k, mods, n : k = at[2] /\ mods = dut[k].mods /\ n = DutRan
  OBVIOUS
<1>2. InWrite2(G, D, k)
  BY <1>1 DEF Replaying, ReplayAt
<1>3. InRound(G, D, k) /\ OneDone(G, k) /\ k <= n + 1 /\ pc[2] = dut[k].pc /\ Between(2, D, k, mods)
  BY <1>1, <1>2 DEF InWrite2
<1>4. n \in Nat /\ k \in 2 .. n + 1
  BY <1>1, <1>3, LogFacts DEF InRound, Replaying
<1>5. Applies(D[k - 1], mods, D[k]) /\ Len(mods) \in Nat /\ DOMAIN mods = 1 .. Len(mods)
  BY <1>1, <1>4, LogFacts DEF Replaying
<1>6. Current(2).mods = mods
  BY <1>1 DEF Current
<1>7. UNCHANGED <<gold, dut, ended, text, parsed>>
  BY ReplayStill
<1>8. phase = Writing(2) /\ 1 \in Sources /\ 2 \in Sources /\ 2 # 1
  BY DEF Writing, Sources
<1>9. DutRan' = n
  BY <1>1, <1>7, LogsStay
<1>10. CASE /\ next \in DOMAIN Current(2).mods /\ ReplayWrite(2, Current(2).mods[next])
            /\ next' = next + 1 /\ at' = at
  <2>1. next \in DOMAIN mods /\ ReplayWrite(2, mods[next])
    BY <1>6, <1>10
  <2>2. PICK m : m = mods[next]
    OBVIOUS
  <2>3. OneWritten(2, m)
    BY <1>8, <2>1, <2>2, WriteOne DEF Replaying
  <2>4. /\ phase' = "write2" /\ UNCHANGED <<pc, exit>>
        /\ regs'[1] = regs[1] /\ csr'[1] = csr[1] /\ mask'[1] = mask[1]
    BY <1>8, <2>3 DEF OneWritten
  <2>5. OneWritten(2, mods[next])
    BY <2>2, <2>3
  <2>6. Between(2, D, k, mods)'
    BY <1>3, <1>5, <1>8, <1>10, <2>1, <2>5, BetweenWrites
  <2>7. InRound(G, D, k)'
    BY <1>1, <1>3, <1>10, <2>4, RoundStays
  <2>8. OneDone(G, k)'
    BY <1>3, <1>7, <1>10, <2>4, OneWaits
  <2>9. InWrite2(G, D, k)'
    BY <1>1, <1>3, <1>7, <1>9, <2>4, <2>6, <2>7, <2>8 DEF InWrite2
  <2>10. InWrite2(G, D, at[2])'
    BY <1>1, <1>10, <2>9
  <2>11. QED
    BY <2>4, <2>10 DEF ReplayAt
<1>11. CASE next \notin DOMAIN Current(2).mods /\ EndCommit(2) /\ Move(2)
  <2>1. phase' = "judge" /\ UNCHANGED <<pc, regs, csr, mask, exit>>
    BY <1>11 DEF EndCommit, After, states
  <2>2. at'[1] = at[1] /\ at'[2] = k + 1 /\ (k + 1) - 1 = k
    BY <1>1, <1>4, <1>8, <1>11, MoveAt DEF Replaying
  <2>3. mask[2] = Marks(mods) /\ IsShadow(2, D, k)
    BY <1>3, <1>5, <1>6, <1>8, <1>11, BetweenLast
  <2>4. OneDone(G, k)'
    BY <1>3, <1>7, <2>1, <2>2, OneWaits
  <2>5. TwoAt(D, k + 1)'
    BY <2>1, <2>2, <2>3 DEF TwoAt, IsShadow
  <2>6. ~Ended(2)' /\ Rounds(G, D, k - 2)'
    BY <1>3, <1>7, <2>1, LogsStay DEF InRound, Ended
  <2>7. InJudge(G, D, k)'
    BY <1>1, <1>3, <1>4, <1>7, <1>9, <2>1, <2>3, <2>4, <2>5, <2>6 DEF InJudge
  <2>8. InJudge(G, D, at[2] - 1)'
    BY <2>2, <2>7
  <2>9. QED
    BY <2>1, <2>8 DEF ReplayAt
<1>12. QED
  BY <1>8, <1>10, <1>11, InWrites

\* The judge finds nothing, and the round has passed; or it decides.
LEMMA InJudgeNext ==
  ASSUME Policy = "SuccessSource2", NEW G, NEW D, Replaying(G, D), Replay, phase = "judge"
  PROVE  phase' # "start" /\ ReplayAt(G, D)'
<1>1. PICK k : k = at[2] - 1
  OBVIOUS
<1>2. InJudge(G, D, k)
  BY <1>1 DEF Replaying, ReplayAt
<1>3. UNCHANGED <<gold, dut, ended, text, parsed>>
  BY ReplayStill
<1>4. PICK n : n = DutRan
  OBVIOUS
<1>5. n \in Nat /\ DutRan' = n
  BY <1>3, <1>4, LogsStay, LogFacts DEF Replaying
<1>6. CASE JudgeRunning /\ at' = at
  <2>1. ~Ended(1) /\ ~Ended(2)
    BY <1>6 DEF JudgeRunning, Ended, Sources
  <2>2. /\ k \in 2 .. n + 1 /\ TwoAt(D, k + 1) /\ pc[2] = dut[k].pc /\ mask[2] = Marks(dut[k].mods)
        /\ k <= Len(text) /\ OneRead(G, k) /\ Rounds(G, D, k - 2)
    BY <1>2, <1>4, <2>1 DEF InJudge, OneDone
  <2>3. UNCHANGED <<pc, regs, csr, exit>>
    BY <1>6 DEF JudgeRunning, states
  <2>4. k \in Nat /\ (k + 1) - 1 = k /\ (k + 1) - 2 = k - 1 /\ (k - 1) + 1 = k /\ at[2] = k + 1 /\ at[1] = k + 1
    BY <1>5, <2>2 DEF TwoAt, OneRead, OneAt
  <2>5. CASE compare(combine(mask[1], mask[2]))
    <3>1. phase' = "step1"
      BY <1>6, <2>5 DEF JudgeRunning
    <3>2. /\ pc[1] = pc[2] /\ csr[1] = csr[2]
          /\ \A name \in mask[1] \cup mask[2] : regs[1][name] = regs[2][name]
      BY <2>5 DEF compare, combine
    <3>3. Passed(G, D, k - 1)
      <4>1. gold[k].pc = dut[k].pc
        BY <2>2, <3>2 DEF OneRead
      <4>2. ASSUME Intact(k) PROVE DataAgree(G, D, k - 1)
        <5>1. IsShadow(1, G, k) /\ IsShadow(2, D, k) /\ mask[1] = Marks(gold[k].mods)
          BY <2>2, <2>4, <4>2 DEF OneRead, OneAt, TwoAt
        <5>2. G[k].csr = D[k].csr
          BY <3>2, <5>1 DEF IsShadow
        <5>3. \A name \in Marks(gold[k].mods) \cup Marks(dut[k].mods) : G[k].regs[name] = D[k].regs[name]
          BY <2>2, <3>2, <5>1 DEF IsShadow
        <5>4. QED
          BY <2>4, <5>2, <5>3 DEF DataAgree
      <4>3. QED
        BY <2>2, <2>4, <4>1, <4>2 DEF Passed
    <3>4. Rounds(G, D, k - 1)
      <4>1. \A r \in 1 .. k - 1 : r \in 1 .. k - 2 \/ r = k - 1
        BY <2>4
      <4>2. QED
        BY <2>2, <3>3, <4>1 DEF Rounds
    <3>5. PICK j : j = k + 1
      OBVIOUS
    <3>6. j \in 2 .. n + 2 /\ at'[2] = j /\ at'[1] = j /\ j - 1 = k /\ j - 2 = k - 1
      BY <1>5, <1>6, <2>2, <2>4, <3>5
    <3>7. Rounds(G, D, j - 2)'
      BY <1>3, <3>4, <3>6, LogsStay
    <3>8. InRound(G, D, j)'
      BY <1>5, <2>1, <2>3, <3>6, <3>7 DEF InRound, Ended
    <3>9. OneAt(G, j)'
      BY <1>3, <2>2, <2>3, <2>4, <3>6 DEF OneRead, OneAt, IsShadow, Intact
    <3>10. TwoAt(D, j)'
      BY <2>2, <2>3, <2>4, <3>6 DEF TwoAt, IsShadow
    <3>11. InStep1(G, D, j)'
      BY <2>1, <2>3, <3>8, <3>9, <3>10 DEF InStep1, Ended
    <3>12. InStep1(G, D, at[2])'
      BY <3>6, <3>11
    <3>13. QED
      BY <3>1, <3>12 DEF ReplayAt
  <2>6. CASE ~compare(combine(mask[1], mask[2]))
    BY <1>6, <2>6 DEF JudgeRunning, ReplayAt
  <2>7. QED
    BY <2>5, <2>6
<1>7. CASE JudgeExit
  <2>1. phase' = "report" /\ (report' = "same" => is_same(exit[1], exit[2]))
    BY <1>7 DEF JudgeExit
  <2>2. is_same(exit[1], exit[2]) => Rounds(G, D, n)
    <3>1. CASE Ended(2)
      BY <1>2, <1>4, <3>1 DEF InJudge
    <3>2. CASE ~Ended(2)
      <4>1. Ended(1) /\ exit[2] = None
        BY <1>7, <3>2 DEF JudgeExit, Ended, Sources
      <4>2. ~is_same(exit[1], exit[2])
        BY <4>1 DEF is_same, Ended, None
      <4>3. QED
        BY <4>2
    <3>3. QED
      BY <3>1, <3>2
  <2>3. Rounds(G, D, n) => Rounds(G, D, n)'
    BY <1>3, LogsStay
  <2>4. report' = "same" => Rounds(G, D, DutRan)'
    <3>1. report' = "same" => Rounds(G, D, n)'
      BY <2>1, <2>2, <2>3
    <3>2. QED
      BY <1>5, <3>1
  <2>5. QED
    BY <2>1, <2>4 DEF ReplayAt
<1>8. QED
  BY <1>6, <1>7, InTheJudge DEF Judge

\* What Load leaves is where the replay begins.
LEMMA LoadReads ==
  ASSUME Machines, Load, ended = "exit", NEW G, NEW D, RunTraces(G, D), phase' # "failed"
  PROVE  Parsed' /\ phase' = "reset1" /\ InReset1(G, D)'
<1>1. stage # "replay"
  BY DEF Load
<1>2. Init /\ at = [m \in Sources |-> 1]
  BY <1>1 DEF Machines, Stages
<1>3. UNCHANGED <<gold, dut, ended, text, at>>
  BY DEF Load, runVars
<1>4. ~Fail
  BY DEF Fail
<1>5. /\ \A k \in DOMAIN text : ~Refused(text[k])
      /\ parsed' = [k \in DOMAIN text |-> Parse(text[k])]
      /\ GetResetPc /\ resetPc' = dut[1].pc
  BY <1>4 DEF Load
<1>6. Parsed'
  BY <1>3, <1>5 DEF Parsed
<1>7. phase' = "reset1" /\ UNCHANGED <<skipped, head, states, mask, exit, report>>
  BY <1>4, <1>5 DEF GetResetPc
<1>8. dut[1].pc = ResetPc
  BY DEF Machines, DutShape, Entry
<1>9. at'[1] = 1 /\ at'[2] = 1
  BY <1>2, <1>3 DEF Sources
<1>10. skipped' = 0 /\ ~Ended(1)' /\ ~Ended(2)'
  BY <1>2, <1>7 DEF Init, Ended, Sources
<1>11. G[1] = Shadow(0, 0, 0, 0) /\ D[1] = Shadow(0, 0, 0, 0)
  BY LogFacts
<1>12. \A s \in Sources : regs'[s] = Shadow(0, 0, 0, 0).regs /\ csr'[s] = Shadow(0, 0, 0, 0).csr
  BY <1>2, <1>7 DEF Init, states, Shadow
<1>13. IsShadow(1, G, 1)' /\ IsShadow(2, D, 1)'
  BY <1>11, <1>12 DEF IsShadow, Sources
<1>14. \A j \in 1 .. at'[1] - 1 : FALSE
  BY <1>9
<1>15. InReset1(G, D)'
  BY <1>5, <1>8, <1>9, <1>10, <1>13, <1>14 DEF InReset1
<1>16. QED
  BY <1>6, <1>7, <1>15

\* Every step of it keeps ReplayFacts.
LEMMA ReplayFactsNext ==
  ASSUME Policy = "SuccessSource2", Machines, ReplayShape, NEW G, NEW D, RunTraces(G, D), ReplayFacts(G, D),
         Load \/ Replay
  PROVE  ReplayFacts(G, D)'
<1>1. CASE Load
  <2>1. ended' = ended
    BY <1>1 DEF Load, runVars
  <2>2. CASE ended = "exit" /\ phase' # "failed"
    <3>1. Parsed' /\ phase' = "reset1" /\ InReset1(G, D)'
      BY <1>1, <2>2, LoadReads
    <3>2. ReplayAt(G, D)'
      BY <3>1 DEF ReplayAt
    <3>3. QED
      BY <3>1, <3>2 DEF ReplayFacts
  <2>3. QED
    BY <2>1, <2>2 DEF ReplayFacts
<1>2. CASE Replay
  <2>1. CASE ended = "exit"
    <3>1. stage = "replay"
      BY <1>2 DEF Replay
    <3>2. phase \in {"reset1", "reset2", "step1", "write1", "step2", "write2", "judge"}
      BY <1>2, ReplayPhase
    <3>3. Replaying(G, D)
      BY <2>1, <3>1, <3>2 DEF Replaying, ReplayFacts
    <3>4. phase' # "failed" => phase' # "start" /\ ReplayAt(G, D)'
      BY <1>2, <3>2, <3>3, InReset1Next, InReset2Next, InStep1Next, InWrite1Next, InStep2Next, InWrite2Next,
         InJudgeNext
    <3>5. QED
      BY <1>2, <3>3, <3>4, ReplayFactsFrom
  <2>2. CASE ended # "exit"
    BY <1>2, <2>2, ReplayStill DEF ReplayFacts
  <2>3. QED
    BY <2>1, <2>2
<1>3. QED
  BY <1>1, <1>2

-----------------------------------------------------------------------------
(* Nothing has happened *)

\* The log of Spike is whole then, and no line of it is refused.
LEMMA CleanLogs ==
  ASSUME Machines, ended = "exit", stage # "run", causes = {},
         NEW G, NEW D, RunTraces(G, D), Clean(G, D)
  PROVE  /\ Len(text) = Len(gold) /\ Len(gold) >= DutRan + 1
         /\ \A k \in 1 .. Len(text) : Intact(k) /\ ~Refused(text[k])
<1>1. text = Lines
  BY DEF Machines, Stages
<1>2. Len(gold) \in Nat /\ DOMAIN gold = 1 .. Len(gold) /\ gold \in Seq(Commits)
  BY DEF Machines, GoldInv
<1>3. DOMAIN text = 1 .. Len(gold) /\ DOMAIN text = 1 .. Len(text) /\ Len(text) \in Nat
  BY <1>1, <1>2, TextFacts DEF Lines
<1>4. Len(text) = Len(gold)
  BY <1>1, <1>2 DEF Lines
<1>5. ASSUME NEW k \in 1 .. Len(text) PROVE Intact(k) /\ ~Refused(text[k])
  <2>1. k \in DOMAIN gold /\ text[k] = PrintLine(gold[k])
    BY <1>1, <1>2, <1>4 DEF Lines
  <2>2. PICK c, line : c = gold[k] /\ line = text[k]
    OBVIOUS
  <2>3. c \in Commits
    BY <1>2, <2>1, <2>2
  <2>4. Printable(c)
    BY <2>3, CommitPrintable
  <2>5. line = PrintLine(c)
    BY <2>1, <2>2
  <2>6. ~Refused(line)
    BY <2>4, <2>5, WholeRead
  <2>7. QED
    BY <2>1, <2>2, <2>6 DEF Intact
<1>6. Len(gold) >= DutRan + 1
  <2>1. DutRan \in Nat /\ GoldRan >= DutRan
    BY LogFacts DEF Clean
  <2>2. QED
    BY <1>2, <2>1 DEF GoldRan
<1>7. QED
  BY <1>4, <1>5, <1>6

\* A write that the replay takes does not fail.
LEMMA HarmlessWrite ==
  ASSUME NEW s \in Sources, NEW m, Replayable(m), phase = Writing(s), ReplayWrite(s, m)
  PROVE  phase' = phase /\ report' = report
<1>1. CASE m.kind \in Regs
  <2>1. m.kind \in {"x", "f", "v"} /\ m.idx = 1 /\ m.name = ""
    BY <1>1, Names3 DEF Replayable
  <2>2. WriteReg(s, m.kind, m.bits)
    BY <2>1 DEF ReplayWrite
  <2>3. QED
    BY <2>2 DEF WriteReg
<1>2. CASE m.kind = "csr"
  <2>1. Accepted(m.name, m.bits)
    BY <1>2, Names3 DEF Replayable
  <2>2. WriteCsr(s, m.name, m.bits)
    BY <1>2 DEF ReplayWrite
  <2>3. QED
    BY <2>1, <2>2 DEF WriteCsr
<1>3. CASE m.kind \notin Regs \cup {"csr"}
  <2>1. m.kind \notin {"x", "f", "v"} /\ m.kind # "csr"
    BY <1>3, Names3
  <2>2. QED
    BY <2>1 DEF ReplayWrite, vars
<1>4. QED
  BY <1>1, <1>2, <1>3

\* Nor does Load,
LEMMA LoadClean ==
  ASSUME Machines, Load, causes = {}, NEW G, NEW D, RunTraces(G, D), Clean(G, D)
  PROVE  phase' # "failed" /\ report' # "different"
<1>1. stage # "run" /\ stage # "replay"
  BY DEF Load
<1>2. ended = "exit" /\ ~torn /\ Init
  BY <1>1 DEF Machines, Stages, Clean
<1>3. \A k \in 1 .. Len(text) : ~Refused(text[k])
  BY <1>1, <1>2, CleanLogs
<1>4. \A k \in DOMAIN text : ~Refused(text[k])
  BY <1>3, TextFacts
<1>5. dut # <<>>
  <2>1. Len(dut) = DutRan + 2 /\ DutRan \in Nat
    BY <1>2, LogFacts
  <2>2. Len(dut) # 0
    BY <2>1
  <2>3. QED
    BY <2>2
<1>6. GetResetPc /\ resetPc' = dut[1].pc
  BY <1>2, <1>4, <1>5 DEF Load
<1>7. dut[1].pc = ResetPc
  BY <1>2 DEF Machines, DutShape, Entry
<1>8. resetPc = None /\ phase = "start" /\ report = "none"
  BY <1>2 DEF Init
<1>9. ~Fail
  BY <1>6, <1>7, <1>8 DEF Fail, None, ResetPc
<1>10. QED
  BY <1>6, <1>8, <1>9 DEF GetResetPc

\* Logs of a run in which nothing has happened
CleanReplay(G, D) ==
  /\ Replaying(G, D) /\ Clean(G, D) /\ Booted /\ causes = {} /\ Decision

\* nor the reset: the boot ROM is shorter than what it may skip,
LEMMA Reset1Clean ==
  ASSUME MaxSkip > 1, NEW G, NEW D, CleanReplay(G, D), Replay, phase = "reset1"
  PROVE  phase' # "failed" /\ report' = report
<1>1. InReset1(G, D)
  BY DEF CleanReplay, Replaying, ReplayAt
<1>2. PICK k : k = at[1]
  OBVIOUS
<1>3. k \in Nat /\ k = skipped + 1 /\ \A j \in 1 .. k - 1 : gold[j].pc # ResetPc
  BY <1>1, <1>2 DEF InReset1
<1>4. Len(text) = Len(gold) /\ Len(gold) >= DutRan + 1 /\ DutRan >= 1 /\ DutRan \in Nat
  BY CleanLogs, LogFacts DEF CleanReplay, Replaying
<1>5. Len(gold) \in Nat /\ Len(gold) >= 2 /\ DOMAIN parsed = 1 .. Len(text)
  BY <1>4, TextFacts DEF CleanReplay, Replaying, Parsed
<1>6. gold[2].pc = ResetPc
  BY <1>5 DEF CleanReplay, Booted
<1>7. k <= 2
  <2>1. k > 2 => 2 \in 1 .. k - 1
    BY <1>3
  <2>2. QED
    BY <1>3, <1>6, <2>1
<1>8. skipped \in Nat /\ k >= 1 /\ k \in 1 .. Len(text)
  <2>1. skipped \in Nat
    BY <1>1 DEF InReset1
  <2>2. QED
    BY <1>3, <1>4, <1>5, <1>7, <2>1
<1>9. Has(1) /\ Current(1).pc = gold[k].pc
  <2>1. k \in DOMAIN parsed
    BY <1>5, <1>8
  <2>2. parsed[k].pc = gold[k].pc
    BY <2>1, EntryRead DEF CleanReplay, Replaying
  <2>3. QED
    BY <1>2, <2>1, <2>2 DEF Has, Current
<1>10. CASE Current(1).pc # resetPc /\ SkipBootRom
  <2>1. k # 2
    BY <1>1, <1>6, <1>9, <1>10 DEF InReset1
  <2>2. k = 1 /\ skipped = 0
    BY <1>3, <1>7, <1>8, <2>1
  <2>3. skipped + 1 # MaxSkip
    BY <2>2, ValueAssumption
  <2>4. QED
    BY <1>10, <2>3 DEF SkipBootRom
<1>11. CASE ResetSpike
  BY <1>11 DEF ResetSpike
<1>12. QED
  BY <1>9, <1>10, <1>11, InResets DEF ReplayReset, ResetPokedex

LEMMA Reset2Clean ==
  ASSUME Replay, phase = "reset2"
  PROVE  phase' # "failed" /\ report' = report
<1>1. ResetPokedex
  BY InResets DEF ReplayReset, SkipBootRom, ResetSpike, SpikeEndsInReset
<1>2. QED
  BY <1>1 DEF ResetPokedex

\* nor the begin of an entry of either source: Pokedex has one in every round
\* until its exit,
LEMMA Step1Clean ==
  ASSUME Replay, phase = "step1"
  PROVE  phase' # "failed" /\ report' = report
<1>1. BeginCommit(1, Current(1).pc) \/ ReplayEnd
  BY InSteps DEF Stepping, Sources
<1>2. ReplayEnd => SpikeEnds
  BY DEF ReplayEnd, PokedexExits, PokedexLogBroken
<1>3. QED
  BY <1>1, <1>2 DEF BeginCommit, Writing, SpikeEnds

LEMMA Step2Clean ==
  ASSUME NEW G, NEW D, CleanReplay(G, D), Replay, phase = "step2"
  PROVE  phase' # "failed" /\ report' = report
<1>1. InStep2(G, D, at[2])
  BY DEF CleanReplay, Replaying, ReplayAt
<1>2. at[2] \in DOMAIN dut
  <2>1. PICK k, n : k = at[2] /\ n = DutRan
    OBVIOUS
  <2>2. k \in 2 .. n + 2 /\ n \in Nat /\ DOMAIN dut = 1 .. n + 2
    BY <1>1, <2>1, LogFacts DEF InStep2, InRound, CleanReplay, Replaying
  <2>3. QED
    BY <2>1, <2>2
<1>3. BeginCommit(2, Current(2).pc) \/ ReplayEnd
  BY InSteps DEF Stepping, Sources
<1>4. ReplayEnd => PokedexExits(Current(2).code)
  BY <1>2 DEF ReplayEnd, SpikeEnds, PokedexLogBroken, Has
<1>5. QED
  BY <1>3, <1>4 DEF BeginCommit, Writing, PokedexExits

\* nor the writes of an entry,
LEMMA WriteClean ==
  ASSUME NEW s \in Sources, Replay, phase = Writing(s),
         NEW mods, Harmless(mods), Current(s).mods = mods
  PROVE  phase' # "failed" /\ report' = report
<1>1. CASE next \in DOMAIN mods /\ ReplayWrite(s, mods[next])
  <2>1. Replayable(mods[next])
    BY <1>1 DEF Harmless
  <2>2. PICK m : m = mods[next]
    OBVIOUS
  <2>3. phase' = phase /\ report' = report
    BY <1>1, <2>1, <2>2, HarmlessWrite
  <2>4. QED
    BY <2>3 DEF Writing
<1>2. CASE EndCommit(s)
  BY <1>2 DEF EndCommit, After
<1>3. QED
  BY <1>1, <1>2, InWrites

LEMMA Write1Clean ==
  ASSUME NEW G, NEW D, CleanReplay(G, D), Replay, phase = "write1"
  PROVE  phase' # "failed" /\ report' = report
<1>1. PICK k : k = at[1]
  OBVIOUS
<1>2. at[1] = at[2] /\ InWrite1(G, D, at[2])
  BY DEF CleanReplay, Replaying, ReplayAt, InWrite1
<1>3. k \in 2 .. DutRan + 2 /\ k <= Len(text)
  BY <1>1, <1>2 DEF InWrite1, InRound
<1>4. /\ DutRan \in Nat /\ Len(text) = Len(gold) /\ Len(text) \in Nat
      /\ \A j \in 1 .. Len(text) : Intact(j)
  BY CleanLogs, LogFacts, TextFacts DEF CleanReplay, Replaying
<1>5. k \in DOMAIN parsed /\ k \in 2 .. Len(gold) /\ Intact(k)
  BY <1>3, <1>4, TextFacts DEF CleanReplay, Replaying, Parsed
<1>6. PICK mods : mods = gold[k].mods
  OBVIOUS
<1>7. Harmless(mods)
  BY <1>5, <1>6 DEF CleanReplay, Clean
<1>8. Current(1).mods = mods
  BY <1>1, <1>5, <1>6, EntryRead DEF CleanReplay, Replaying, Current
<1>9. QED
  BY <1>7, <1>8, WriteClean DEF Writing, Sources

LEMMA Write2Clean ==
  ASSUME NEW G, NEW D, CleanReplay(G, D), Replay, phase = "write2"
  PROVE  phase' # "failed" /\ report' = report
<1>1. PICK k, mods : k = at[2] /\ mods = dut[k].mods
  OBVIOUS
<1>2. InWrite2(G, D, k)
  BY <1>1 DEF CleanReplay, Replaying, ReplayAt
<1>3. k \in 2 .. DutRan + 1
  BY <1>2, LogFacts DEF InWrite2, InRound, CleanReplay, Replaying
<1>4. Harmless(mods)
  BY <1>1, <1>3 DEF CleanReplay, Clean
<1>5. Current(2).mods = mods
  BY <1>1 DEF Current
<1>6. QED
  BY <1>4, <1>5, WriteClean DEF Writing, Sources

\* and the judge finds no difference: the traces are equal, and so is what the
\* marks name.
LEMMA JudgeClean ==
  ASSUME Policy = "SuccessSource2", NEW G, NEW D, CleanReplay(G, D), Replay, phase = "judge", report = "none"
  PROVE  phase' # "failed" /\ report' # "different"
<1>1. PICK k, n : k = at[2] - 1 /\ n = DutRan
  OBVIOUS
<1>2. InJudge(G, D, k)
  BY <1>1 DEF CleanReplay, Replaying, ReplayAt
<1>3. /\ n \in Nat /\ Len(text) = Len(gold) /\ Len(gold) >= n + 1 /\ Len(text) \in Nat
      /\ \A j \in 1 .. Len(text) : Intact(j)
  BY <1>1, CleanLogs, LogFacts, TextFacts DEF CleanReplay, Replaying
<1>4. CASE JudgeRunning
  <2>1. ~Ended(1) /\ ~Ended(2)
    BY <1>4 DEF JudgeRunning, Ended, Sources
  <2>2. /\ k \in 2 .. n + 1 /\ TwoAt(D, k + 1) /\ pc[2] = dut[k].pc /\ mask[2] = Marks(dut[k].mods)
        /\ k <= Len(text) /\ OneRead(G, k)
    BY <1>1, <1>2, <2>1 DEF InJudge, OneDone
  <2>3. k \in Nat /\ (k + 1) - 1 = k /\ k \in 1 .. Len(text)
    BY <1>3, <2>2
  <2>4. IsShadow(1, G, k) /\ IsShadow(2, D, k) /\ pc[1] = gold[k].pc
    BY <1>3, <2>2, <2>3 DEF OneRead, OneAt, TwoAt
  <2>5. gold[k].pc = dut[k].pc /\ G[k] = D[k]
    <3>1. PICK r : r = k - 1
      OBVIOUS
    <3>2. r \in 1 .. n /\ r + 1 = k
      BY <1>3, <2>2, <3>1
    <3>3. gold[r + 1].pc = dut[r + 1].pc /\ G[r + 1] = D[r + 1]
      BY <1>1, <3>2 DEF CleanReplay, Clean
    <3>4. QED
      BY <3>2, <3>3
  <2>6. compare(combine(mask[1], mask[2]))
    BY <2>2, <2>4, <2>5 DEF compare, IsShadow
  <2>7. QED
    BY <1>4, <2>6 DEF JudgeRunning
<1>5. CASE JudgeExit
  <2>1. CASE Ended(2)
    <3>1. exit[2] = dut[n + 2].code
      BY <1>1, <1>2, <2>1 DEF InJudge
    <3>2. dut[n + 2].code = 0
      BY <1>1 DEF CleanReplay, Clean, Replaying
    <3>3. is_same(exit[1], exit[2])
      BY <3>1, <3>2 DEF is_same
    <3>4. QED
      BY <1>5, <3>3 DEF JudgeExit
  <2>2. CASE ~Ended(2)
    <3>1. Ended(1)
      BY <1>5, <2>2 DEF JudgeExit, Ended, Sources
    <3>2. k > Len(text) /\ k \in 2 .. n + 1
      BY <1>1, <1>2, <2>2, <3>1 DEF InJudge, OneDone
    <3>3. FALSE
      BY <1>3, <3>2
    <3>4. QED
      BY <3>3
  <2>3. QED
    BY <2>1, <2>2
<1>6. QED
  BY <1>4, <1>5, InTheJudge DEF Judge

\* So no step of the replay fails or finds a difference.
LEMMA ReplayClean ==
  ASSUME Policy = "SuccessSource2", MaxSkip > 1, NEW G, NEW D, CleanReplay(G, D), Replay
  PROVE  phase' # "failed" /\ report' # "different"
<1>1. phase \in {"reset1", "reset2", "step1", "write1", "step2", "write2", "judge"}
  BY ReplayPhase
<1>2. report = "none"
  BY <1>1 DEF CleanReplay, Decision
<1>3. QED
  BY <1>1, <1>2, Reset1Clean, Reset2Clean, Step1Clean, Write1Clean, Step2Clean, Write2Clean, JudgeClean

-----------------------------------------------------------------------------
(* The inductive invariant *)

\* What the traces say of the run, and the replay of the traces
Story(G, D) == RunTraces(G, D) /\ RunTells(G, D) /\ Clean(G, D) /\ ReplayFacts(G, D)

\* VerdictTrue speaks of the machines at the end of a replay that sees the logs
\* only.  The traces G and D connect them: they are what the replay makes of
\* each entry, and what the machines had at that time.
VerdictInv ==
  /\ Machines /\ SameInv /\ ReplayShape /\ Booted /\ NotWrong
  /\ \E G, D : Story(G, D)

\* It holds at the start.
LEMMA VerdictInit == CosimInit => VerdictInv
<1> SUFFICES ASSUME CosimInit PROVE VerdictInv
  OBVIOUS
<1>1. PICK G, D : RunTraces(G, D) /\ RunTells(G, D)
  BY TracesInit
<1>2. stage = "run" /\ phase = "start" /\ report = "none"
  BY DEF CosimInit, Init
<1>3. Story(G, D)
  BY <1>1, <1>2, CleanInit DEF Story, ReplayFacts
<1>4. NotWrong
  BY <1>2 DEF NotWrong
<1>5. QED
  BY <1>3, <1>4, MachinesInit, SameInit, ReplayShapeInit, BootedInit DEF VerdictInv

\* A step keeps each of its parts.
LEMMA NotWrongNext ==
  ASSUME Policy = "SuccessSource2", MaxSkip > 1, Machines, ReplayShape, Booted, NotWrong,
         NEW G, NEW D, RunTraces(G, D), Clean(G, D), ReplayFacts(G, D), [CosimNext]_cosimVars
  PROVE  NotWrong'
<1>1. SUFFICES ASSUME causes' = {} PROVE phase' # "failed" /\ report' # "different"
  BY DEF NotWrong
<1>2. causes = {}
  BY <1>1 DEF CosimNext, Step, RunOn, Crash, StopSpike, Load, Replay, cosimVars
<1>3. CASE UNCHANGED vars
  BY <1>2, <1>3 DEF NotWrong, vars
<1>4. CASE Load
  BY <1>2, <1>4, LoadClean
<1>5. CASE Replay
  <2>1. stage = "replay"
    BY <1>5 DEF Replay
  <2>2. ended = "exit"
    BY <1>2, <2>1 DEF Machines, Stages, Clean
  <2>3. CleanReplay(G, D)
    BY <1>2, <2>1, <2>2 DEF CleanReplay, Replaying, ReplayFacts, NotWrong, ReplayShape
  <2>4. QED
    BY <1>5, <2>3, ReplayClean
<1>6. QED
  BY <1>3, <1>4, <1>5, CosimCases

LEMMA StoryQuiet ==
  ASSUME NEW G, NEW D, Story(G, D), UNCHANGED <<hart, gold, dut, ended, touched, differ>>,
         causes' = causes \/ (ended # "no" /\ causes' = causes \cup {"cut"}),
         ReplayFacts(G, D)'
  PROVE  Story(G, D)'
<1>1. RunTraces(G, D)'
  BY QuietTraces DEF Story
<1>2. RunTells(G, D)'
  BY QuietTells DEF Story
<1>3. Clean(G, D)'
  BY QuietClean DEF Story
<1>4. QED
  BY <1>1, <1>2, <1>3 DEF Story

LEMMA ReplayIdle ==
  ASSUME UNCHANGED <<gold, dut, ended, text, parsed, stage, at, next,
                     phase, resetPc, skipped, pc, regs, csr, mask, exit, report>>,
         NEW G, NEW D, ReplayFacts(G, D)
  PROVE  ReplayFacts(G, D)'
<1>1. SUFFICES ASSUME stage = "replay" /\ ended = "exit" /\ phase # "failed" PROVE Parsed' /\ ReplayAt(G, D)'
  BY DEF ReplayFacts
<1>2. Parsed /\ ReplayAt(G, D)
  BY <1>1 DEF ReplayFacts
<1>3. /\ DutRan' = DutRan /\ Parsed'
      /\ \A k : Intact(k) = Intact(k)'
      /\ \A n : Rounds(G, D, n) => Rounds(G, D, n)'
  BY <1>2, LogsStay
<1>4. PICK k : k = at[2]
  OBVIOUS
<1>5. phase = "reset1" => InReset1(G, D)'
  BY <1>2 DEF ReplayAt, InReset1, IsShadow, Ended
<1>6. phase = "reset2" => InReset2(G, D)'
  BY <1>2 DEF ReplayAt, InReset2, IsShadow, Ended
<1>7. InRound(G, D, k) => InRound(G, D, k)'
  BY <1>3 DEF InRound, Ended
<1>8. TwoAt(D, k) => TwoAt(D, k)'
  BY DEF TwoAt, IsShadow
<1>9. phase = "step1" => InStep1(G, D, k)'
  BY <1>2, <1>3, <1>4, <1>7, <1>8 DEF ReplayAt, InStep1, OneAt, IsShadow, Ended
<1>10. phase = "write1" => InWrite1(G, D, k)'
  <2>1. \A mods : Between(1, G, k, mods) => Between(1, G, k, mods)'
    BY DEF Between, IsShadow
  <2>2. QED
    BY <1>2, <1>3, <1>4, <1>7, <1>8, <2>1 DEF ReplayAt, InWrite1, Ended
<1>11. \A j : OneDone(G, j) => OneDone(G, j)'
  BY OneWaits
<1>12. phase = "step2" => InStep2(G, D, k)'
  BY <1>2, <1>4, <1>7, <1>8, <1>11 DEF ReplayAt, InStep2
<1>13. phase = "write2" => InWrite2(G, D, k)'
  <2>1. \A mods : Between(2, D, k, mods) => Between(2, D, k, mods)'
    BY DEF Between, IsShadow
  <2>2. QED
    BY <1>2, <1>3, <1>4, <1>7, <1>11, <2>1 DEF ReplayAt, InWrite2
<1>14. phase = "judge" => InJudge(G, D, k - 1)'
  <2>1. PICK j : j = k - 1
    OBVIOUS
  <2>2. TwoAt(D, j + 1) => TwoAt(D, j + 1)'
    BY DEF TwoAt, IsShadow
  <2>3. InJudge(G, D, j) => InJudge(G, D, j)'
    BY <1>3, <1>11, <2>2 DEF InJudge, Ended
  <2>4. QED
    BY <1>2, <1>4, <2>1, <2>3 DEF ReplayAt
<1>15. phase = "report" /\ report = "same" => Rounds(G, D, DutRan)'
  <2>1. PICK n : n = DutRan
    OBVIOUS
  <2>2. phase = "report" /\ report = "same" => Rounds(G, D, n)'
    BY <1>2, <1>3, <2>1 DEF ReplayAt
  <2>3. QED
    BY <1>3, <2>1, <2>2
<1>16. at'[2] = k /\ phase' = phase /\ report' = report
  BY <1>4
<1>17. ReplayAt(G, D)'
  BY <1>5, <1>6, <1>9, <1>10, <1>12, <1>13, <1>14, <1>15, <1>16 DEF ReplayAt
<1>18. QED
  BY <1>3, <1>17

LEMMA StoryNext ==
  ASSUME Policy = "SuccessSource2", LowRange["fcsr"] > 1, HighRange["fcsr"] > 1,
         Machines, ReplayShape, NEW G, NEW D, Story(G, D), [CosimNext]_cosimVars
  PROVE  \E G2, D2 : Story(G2, D2)'
<1>1. CASE \E i \in Program, j \in Insts \cup {Inst("spin", 0)} : Step(i, j)
  <2>1. PICK i \in Program, j \in AnyInst : Step(i, j)
    BY <1>1 DEF AnyInst
  <2>2. PICK g, d : /\ Both(i, j, g, d)
                    /\ EffectOf(1, hart[1], g, i, GoldMods(g, i))
                    /\ EffectOf(2, hart[2], d, j, DutWrites(d, j))
    BY <2>1, StepOfBoth
  <2>3. PICK G2, D2 : TracesAfter(G, D, G2, D2)
    BY <2>2, TracesStep DEF Story
  <2>4. RunTraces(G2, D2)'
    BY <2>2, <2>3 DEF RunTraces, TracesAfter, Both
  <2>5. RunTells(G2, D2)'
    BY <2>2, <2>3, TellsStep DEF Story
  <2>6. Clean(G2, D2)'
    BY <2>2, <2>3, CleanStep DEF Story
  <2>7. stage' = "run"
    BY <2>1 DEF Step
  <2>8. QED
    BY <2>4, <2>5, <2>6, <2>7 DEF Story, ReplayFacts
<1>2. CASE \E i \in Program : RunOn(i)
  <2>1. PICK i \in Program : RunOn(i)
    BY <1>2
  <2>2. PICK G2 : RunTraces(G2, D)' /\ Extends(G2, G, Len(gold))
    BY <2>1, RunOnTraces DEF Story
  <2>3. RunTells(G2, D)'
    BY <2>1, <2>2, RunOnTells DEF Story
  <2>4. Clean(G2, D)'
    BY <2>1, <2>2, CleanRunOn DEF Story
  <2>5. stage' = "run"
    BY <2>1 DEF RunOn
  <2>6. QED
    BY <2>2, <2>3, <2>4, <2>5 DEF Story, ReplayFacts
<1>3. CASE Crash
  <2>1. RunTraces(G, D)' /\ RunTells(G, D)'
    BY <1>3, CrashTraces DEF Story
  <2>2. causes' # {} /\ stage' = "run"
    BY <1>3 DEF Crash
  <2>3. QED
    BY <2>1, <2>2 DEF Story, Clean, ReplayFacts
<1>4. CASE StopSpike
  <2>1. /\ UNCHANGED <<hart, gold, dut, ended, touched, differ>> /\ ended # "no" /\ stage' = "parse"
        /\ causes' = causes \/ causes' = causes \cup {"cut"}
    BY <1>4 DEF StopSpike, runVars
  <2>2. ReplayFacts(G, D)'
    BY <2>1 DEF ReplayFacts
  <2>3. QED
    BY <2>1, <2>2, StoryQuiet
<1>5. CASE Load \/ Replay
  <2>1. UNCHANGED <<hart, gold, dut, ended, touched, differ, causes>>
    BY <1>5 DEF Load, Replay, runVars
  <2>2. ReplayFacts(G, D)'
    BY <1>5, ReplayFactsNext DEF Story
  <2>3. QED
    BY <2>1, <2>2, StoryQuiet
<1>6. CASE UNCHANGED cosimVars
  <2>1. UNCHANGED <<hart, gold, dut, ended, touched, differ, causes, text, parsed, stage, at, next,
                    phase, resetPc, skipped, pc, regs, csr, mask, exit, report>>
    BY <1>6 DEF cosimVars, runVars, logVars, vars
  <2>2. ReplayFacts(G, D)'
    BY <2>1, ReplayIdle DEF Story
  <2>3. QED
    BY <2>1, <2>2, StoryQuiet
<1>7. QED
  BY <1>1, <1>2, <1>3, <1>4, <1>5, <1>6 DEF CosimNext

\* So every step keeps it.
LEMMA VerdictNext ==
  ASSUME Policy = "SuccessSource2", MaxCode \notin {0, 1}, MaxSkip > 1,
         LowRange["fcsr"] > 1, HighRange["fcsr"] > 1, VerdictInv, [CosimNext]_cosimVars
  PROVE  VerdictInv'
<1>1. PICK G, D : Story(G, D)
  BY DEF VerdictInv
<1>2. \E G2, D2 : Story(G2, D2)'
  BY <1>1, StoryNext DEF VerdictInv
<1>3. NotWrong'
  BY <1>1, NotWrongNext DEF VerdictInv, Story
<1>4. Machines' /\ SameInv'
  BY MachinesNext, SameNext DEF VerdictInv
<1>5. ReplayShape' /\ Booted'
  BY ReplayShapeNext, BootedNext DEF VerdictInv, Machines
<1>6. QED
  BY <1>2, <1>3, <1>4, <1>5 DEF VerdictInv

\* A round that has passed tells nothing.
LEMMA PassedTellsNothing ==
  ASSUME Machines, NEW G, NEW D, ended = "exit", stage # "run", RunTraces(G, D), Rounds(G, D, DutRan)
  PROVE  ~Told(G, D)
<1>1. SUFFICES ASSUME NEW r \in 1 .. DutRan, PcTells(r) \/ DataTells(G, D, r) \/ LateTells(r) PROVE FALSE
  BY DEF Told
<1>2. PICK n : n = DutRan
  OBVIOUS
<1>3. n \in Nat /\ r \in 1 .. n /\ Rounds(G, D, n)
  BY <1>2, LogFacts
<1>4. r + 1 <= Len(text) /\ gold[r + 1].pc = dut[r + 1].pc /\ (Intact(r + 1) => DataAgree(G, D, r))
  BY <1>3 DEF Rounds, Passed
<1>5. Len(text) \in Nat /\ Len(gold) \in Nat /\ Len(text) <= Len(gold) /\ DOMAIN text = 1 .. Len(text)
  BY TextFacts
<1>6. ~PcTells(r)
  BY <1>4 DEF PcTells
<1>7. ~LateTells(r)
  BY <1>3, <1>4, <1>5 DEF LateTells, GoldRan
<1>8. ASSUME DataTells(G, D, r) PROVE FALSE
  <2>1. ~DataAgree(G, D, r) /\ (r < n \/ "fault" \in causes)
    BY <1>2, <1>8 DEF DataTells
  <2>2. CASE r < n
    <3>1. PICK q : q = r + 1
      OBVIOUS
    <3>2. q \in 1 .. n
      BY <1>3, <2>2, <3>1
    <3>3. q + 1 <= Len(text)
      BY <1>3, <3>2 DEF Rounds, Passed
    <3>4. q \in 1 .. Len(text) - 1
      BY <1>5, <3>2, <3>3
    <3>5. Intact(q)
      BY <3>4, TextFacts
    <3>6. QED
      BY <1>4, <2>1, <3>1, <3>5
  <2>3. CASE "fault" \in causes
    <3>1. text = Lines
      BY <2>3 DEF Machines, Stages
    <3>2. r + 1 \in DOMAIN gold
      BY <1>3, <1>4, <1>5 DEF Machines, GoldInv
    <3>3. Intact(r + 1)
      BY <3>1, <3>2 DEF Intact, Lines
    <3>4. QED
      BY <1>4, <2>1, <3>3
  <2>4. QED
    BY <2>1, <2>2, <2>3
<1>9. QED
  BY <1>1, <1>6, <1>7, <1>8

\* "same" comes after all rounds have passed, so no round tells; what is left
\* of RunTells is Calm.  Anything else contradicts NotWrong.
LEMMA VerdictHolds == VerdictInv => VerdictTrue
<1> SUFFICES ASSUME VerdictInv PROVE VerdictTrue
  OBVIOUS
<1>1. PICK G, D : Story(G, D)
  BY DEF VerdictInv
<1>2. Machines /\ SameMeansExited /\ Decision /\ NotWrong
  BY DEF VerdictInv, SameInv, ReplayShape
<1>3. ASSUME report = "same"
      PROVE  ended = "exit" /\ exit[2] = 0 /\ ~differ /\ "trap" \notin causes
  <2>1. ended = "exit" /\ exit[2] = 0
    BY <1>2, <1>3 DEF SameMeansExited
  <2>2. phase = "report"
    BY <1>2, <1>3 DEF Decision
  <2>3. stage = "replay"
    BY <1>2, <2>2 DEF Machines, Stages, Init
  <2>4. Rounds(G, D, DutRan)
    BY <1>1, <1>3, <2>1, <2>2, <2>3 DEF Story, ReplayFacts, ReplayAt
  <2>5. RunTraces(G, D) /\ (Told(G, D) \/ Ahead \/ Calm)
    BY <1>1, <2>1 DEF Story, RunTells
  <2>6. ~Told(G, D)
    BY <1>2, <2>1, <2>3, <2>4, <2>5, PassedTellsNothing
  <2>7. ~Ahead
    BY <2>1 DEF Ahead
  <2>8. Calm
    BY <2>5, <2>6, <2>7
  <2>9. QED
    BY <2>1, <2>8 DEF Calm
<1>4. ASSUME phase \in {"report", "failed"}, report # "same" PROVE causes # {}
  BY <1>2, <1>4 DEF NotWrong, Decision
<1>5. QED
  BY <1>3, <1>4 DEF VerdictTrue

\* The verdict of `pokedex difftest` against the machines, for programs of any
\* length, with one fault or none: "same" is only said when Pokedex has exited
\* with code 0, no instruction trapped, the pcs never parted, and no register or
\* CSR that both machines had written ever had two values, wherever Spike was
\* stopped; any other end has a cause.  The hypotheses are what the code has: its
\* policy is SuccessSource2 (mod.rs), MaxCode is u32::MAX, 16 entries may be
\* skipped, and fcsr has a 5-bit and a 3-bit part.
THEOREM VerdictIsTrue ==
  ASSUME Policy = "SuccessSource2", MaxCode \notin {0, 1}, MaxSkip > 1,
         LowRange["fcsr"] > 1, HighRange["fcsr"] > 1
  PROVE  CosimSpec => []VerdictTrue
<1>1. CosimInit => VerdictInv
  BY VerdictInit
<1>2. VerdictInv /\ [CosimNext]_cosimVars => VerdictInv'
  BY VerdictNext
<1>3. VerdictInv => VerdictTrue
  BY VerdictHolds
<1>4. QED
  BY <1>1, <1>2, <1>3, PTL DEF CosimSpec
=============================================================================
