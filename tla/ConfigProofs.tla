---------------------------- MODULE ConfigProofs ----------------------------
(***************************************************************************)
(* What a config is read as is what ssh makes of it, for files of any      *)
(* length that include one another in any way.                             *)
(*                                                                         *)
(* The reading keeps a stack of files that are being read and a list of    *)
(* blocks; ssh, line by line and file by file, keeps a state.  The         *)
(* invariant ties the two: for every file that is being read, the blocks   *)
(* opened since it was begun say what ssh has made of its lines so far,    *)
(* those of the files it includes taken in.  ssh is defined by folds over  *)
(* lines and by levels of nesting, so that what a fold does with one more  *)
(* line, and what a level makes of the level below, come first.            *)
(*                                                                         *)
(* An edit of the hosts file is a fold over its lines too.  What has been  *)
(* kept of the lines so far means to every other host what those lines do: *)
(* Walk says so, and holds from line to line, whether a line is kept,      *)
(* loses a name or goes with its block.                                    *)
(*                                                                         *)
(* What the form does to a text is a fold over its characters; a field     *)
(* that passes the check has no space and comes through each fold whole.   *)
(***************************************************************************)
EXTENDS Config, SequencesExt, FiniteSetsExt, NaturalsInduction, WellFoundedInduction, TLAPS

-----------------------------------------------------------------------------
(* Folds.                                                                  *)

\* A set with 0 and the successor of each of its numbers has all of them.
LEMMA AllNumbers ==
    ASSUME NEW T, 0 \in T, \A n \in Nat : n \in T => n + 1 \in T
    PROVE  Nat \subseteq T
<1> DEFINE Less == OpToRel(<, Nat)
           Out == Nat \ T
<1>1. SUFFICES ASSUME Out # {} PROVE FALSE
  OBVIOUS
<1>2. PICK x \in Out : \A y \in Out : <<y, x>> \notin Less
  <2>1. IsWellFoundedOn(Less, Nat) /\ Out \in SUBSET Nat
    BY NatLessThanWellFounded
  <2> HIDE DEF Less, Out
  <2>2. QED
    BY <1>1, <2>1, WFMin
<1>3. \A y \in Out : ~(y < x)
  BY <1>2 DEF OpToRel
<1>4. x \in Nat /\ x \notin T /\ x # 0 /\ x - 1 \in Nat
  OBVIOUS
<1>5. x - 1 \in T
  BY <1>3, <1>4
<1>6. QED
  BY <1>4, <1>5

\* A set of places of a sequence has a last one, and a least one.
LEMMA MaxIn ==
    ASSUME NEW n \in Nat, NEW s \in SUBSET (1 .. n), s # {}
    PROVE  Max(s) \in s /\ \A y \in s : Max(s) >= y
<1> DEFINE T == {m \in Nat : \A t \in SUBSET (1 .. m) : t # {} => \E x \in t : \A y \in t : x >= y}
<1>1. 0 \in T
  <2>1. 1 .. 0 = {}
    OBVIOUS
  <2>2. QED
    BY <2>1
<1>2. ASSUME NEW m \in Nat, m \in T PROVE m + 1 \in T
  <2> SUFFICES ASSUME NEW t \in SUBSET (1 .. m + 1), t # {}
               PROVE  \E x \in t : \A y \in t : x >= y
    OBVIOUS
  <2>1. CASE m + 1 \in t
    BY <2>1
  <2>2. CASE m + 1 \notin t
    <3>1. t \in SUBSET (1 .. m)
      BY <2>2
    <3>2. QED
      BY <1>2, <3>1
  <2>3. QED
    BY <2>1, <2>2
<1> HIDE DEF T
<1>3. Nat \subseteq T
  BY <1>1, <1>2, AllNumbers
<1>4. \E x \in s : \A y \in s : x >= y
  BY <1>3 DEF T
<1>5. QED
  BY <1>4 DEF Max

\* A set of indices has a least one.
LEMMA MinIn ==
    ASSUME NEW n \in Nat, NEW s \in SUBSET (1 .. n), s # {}
    PROVE  Min(s) \in s /\ \A y \in s : Min(s) <= y
<1> DEFINE T == {m \in Nat : \A t \in SUBSET (1 .. m) : t # {} => \E x \in t : \A y \in t : x <= y}
<1>1. 0 \in T
  <2>1. 1 .. 0 = {}
    OBVIOUS
  <2>2. QED
    BY <2>1
<1>2. ASSUME NEW m \in Nat, m \in T PROVE m + 1 \in T
  <2> SUFFICES ASSUME NEW t \in SUBSET (1 .. m + 1), t # {}
               PROVE  \E x \in t : \A y \in t : x <= y
    OBVIOUS
  <2>1. CASE t \ {m + 1} = {}
    <3>1. t = {m + 1}
      BY <2>1
    <3>2. QED
      BY <3>1
  <2>2. CASE t \ {m + 1} # {}
    <3>1. t \ {m + 1} \in SUBSET (1 .. m)
      OBVIOUS
    <3>2. PICK x \in t \ {m + 1} : \A y \in t \ {m + 1} : x <= y
      BY <1>2, <2>2, <3>1
    <3>3. \A y \in t : x <= y
      BY <3>1, <3>2
    <3>4. QED
      BY <3>3
  <2>3. QED
    BY <2>1, <2>2
<1> HIDE DEF T
<1>3. Nat \subseteq T
  BY <1>1, <1>2, AllNumbers
<1>4. \E x \in s : \A y \in s : x <= y
  BY <1>3 DEF T
<1>5. QED
  BY <1>4 DEF Min

\* The last of the first i indices, and what is left without it.
LEMMA UpTo ==
    ASSUME NEW i \in Nat
    PROVE  /\ i # 0 => Max(1 .. i) = i /\ (1 .. i) \ {i} = 1 .. (i - 1) /\ 1 .. i # {}
           /\ i = 0 => 1 .. i = {}
<1>1. ASSUME i # 0 PROVE Max(1 .. i) = i
  <2> DEFINE s == 1 .. i
             m == Max(s)
  <2>1. s \in SUBSET (1 .. i) /\ i \in s
    BY <1>1
  <2>2. m \in s /\ \A y \in s : m >= y
    <3> HIDE DEF s
    <3>1. QED
      BY <2>1, MaxIn
  <2> HIDE DEF m
  <2>3. m = i
    BY <2>1, <2>2
  <2>4. QED
    BY <2>3 DEF m
<1>2. i = 0 => 1 .. i = {}
  OBVIOUS
<1>3. i # 0 => (1 .. i) \ {i} = 1 .. (i - 1) /\ 1 .. i # {}
  <2>1. i # 0 => i \in 1 .. i /\ \A j \in Int : j \in (1 .. i) \ {i} <=> j \in 1 .. (i - 1)
    OBVIOUS
  <2>2. QED
    BY <2>1
<1>4. QED
  BY <1>1, <1>2, <1>3

\* What a fold takes its results from: one for each set of places.
IsFold(h, S, g, base, seq, n) ==
    /\ h \in [SUBSET (1 .. n) -> S]
    /\ \A s \in SUBSET (1 .. n) :
          h[s] = IF s = {} THEN base ELSE g[<<h[s \ {Max(s)}], seq[Max(s)]>>]

\* A fold over any sequence has the values it goes through.
LEMMA FoldExists ==
    ASSUME NEW S, NEW E, NEW base \in S, NEW g \in [S \X E -> S], NEW n \in Nat,
           NEW seq \in [1 .. n -> E]
    PROVE  \E h : IsFold(h, S, g, base, seq, n)
<1> DEFINE Good(m) == {h \in [SUBSET (1 .. m) -> S] : \A s \in SUBSET (1 .. m) :
                        h[s] = IF s = {} THEN base ELSE g[<<h[s \ {Max(s)}], seq[Max(s)]>>]}
           T == {m \in Nat : m <= n => Good(m) # {}}
<1>1. 0 \in T
  <2> DEFINE h == [s \in SUBSET (1 .. 0) |-> base]
  <2>1. 1 .. 0 = {}
    OBVIOUS
  <2>2. \A s \in SUBSET (1 .. 0) : s = {}
    BY <2>1
  <2>3. h \in [SUBSET (1 .. 0) -> S] /\ \A s \in SUBSET (1 .. 0) : h[s] = base
    OBVIOUS
  <2> HIDE DEF h
  <2>4. h \in Good(0)
    BY <2>2, <2>3
  <2>5. QED
    BY <2>4
<1>2. ASSUME NEW m \in Nat, m \in T PROVE m + 1 \in T
  <2> HIDE DEF Good
  <2> SUFFICES ASSUME m + 1 <= n PROVE Good(m + 1) # {}
    OBVIOUS
  <2> USE DEF Good
  <2>1. m <= n /\ m + 1 \in 1 .. n
    OBVIOUS
  <2>2. PICK h \in [SUBSET (1 .. m) -> S] : \A s \in SUBSET (1 .. m) :
                h[s] = IF s = {} THEN base ELSE g[<<h[s \ {Max(s)}], seq[Max(s)]>>]
    BY <1>2, <2>1
  <2> DEFINE k == [s \in SUBSET (1 .. m + 1) |->
                     IF m + 1 \in s THEN g[<<h[s \ {m + 1}], seq[m + 1]>>] ELSE h[s]]
  <2>3. ASSUME NEW s \in SUBSET (1 .. m + 1)
        PROVE  /\ s \ {m + 1} \in SUBSET (1 .. m)
               /\ m + 1 \notin s => s \in SUBSET (1 .. m)
               /\ s \ {Max(s)} \in SUBSET (1 .. m + 1)
    <3>1. \A x \in 1 .. m + 1 : x # m + 1 => x \in 1 .. m
      OBVIOUS
    <3>2. QED
      BY <3>1, Zenon
  <2>4. k \in [SUBSET (1 .. m + 1) -> S]
    <3>1. ASSUME NEW s \in SUBSET (1 .. m + 1)
          PROVE  (IF m + 1 \in s THEN g[<<h[s \ {m + 1}], seq[m + 1]>>] ELSE h[s]) \in S
      <4>1. CASE m + 1 \in s
        <5>1. h[s \ {m + 1}] \in S /\ seq[m + 1] \in E
          BY <2>1, <2>2, <2>3
        <5>2. QED
          BY <4>1, <5>1
      <4>2. CASE m + 1 \notin s
        BY <2>2, <2>3, <4>2
      <4>3. QED
        BY <4>1, <4>2
    <3>2. QED
      BY <3>1
  <2>5. ASSUME NEW s \in SUBSET (1 .. m + 1)
        PROVE  k[s] = IF s = {} THEN base ELSE g[<<k[s \ {Max(s)}], seq[Max(s)]>>]
    <3>1. CASE m + 1 \in s
      <4>1. Max(s) = m + 1 /\ s # {}
        <5> DEFINE x == Max(s)
        <5>1. s # {} /\ m + 1 \in Nat
          BY <3>1
        <5>2. x \in s /\ \A y \in s : x >= y
          BY <5>1, MaxIn
        <5> HIDE DEF x
        <5>3. x \in 1 .. m + 1 /\ x >= m + 1
          BY <3>1, <5>2
        <5>4. x = m + 1
          BY <5>3
        <5>5. QED
          BY <5>1, <5>4 DEF x
      <4>2. k[s \ {m + 1}] = h[s \ {m + 1}]
        BY <2>3
      <4>3. QED
        BY <3>1, <4>1, <4>2
    <3>2. CASE m + 1 \notin s
      <4>1. k[s] = h[s] /\ s \in SUBSET (1 .. m)
        BY <2>3, <3>2
      <4>2. k[s \ {Max(s)}] = h[s \ {Max(s)}]
        BY <2>3, <3>2
      <4>3. QED
        BY <2>2, <4>1, <4>2
    <3>3. QED
      BY <3>1, <3>2
  <2> HIDE DEF k
  <2>6. k \in Good(m + 1)
    BY <2>4, <2>5
  <2>7. QED
    BY <2>6
<1> HIDE DEF T
<1>3. Nat \subseteq T
  BY <1>1, <1>2, AllNumbers
<1> HIDE DEF Good
<1>4. Good(n) # {}
  BY <1>3 DEF T
<1>5. QED
  BY <1>4 DEF Good, IsFold

\* The results of a fold, one for each place.
IsTrace(h, S, g, base, seq) ==
    /\ h \in [0 .. Len(seq) -> S]
    /\ \A i \in 0 .. Len(seq) : h[i] = IF i = 0 THEN base ELSE g[<<h[i - 1], seq[i]>>]

Trace(S, g, base, seq) == CHOOSE h : IsTrace(h, S, g, base, seq)

Traced(S, g, base, seq) == Trace(S, g, base, seq)[Len(seq)]

Begins(s, t) == Len(s) <= Len(t) /\ \A i \in 1 .. Len(s) : s[i] = t[i]

\* A fold over a longer sequence goes through the same values first.
LEMMA TracesAgree ==
    ASSUME NEW S, NEW E, NEW g, NEW base, NEW s \in Seq(E), NEW t \in Seq(E),
           Begins(s, t),
           NEW h, IsTrace(h, S, g, base, s), NEW k, IsTrace(k, S, g, base, t)
    PROVE  \A i \in 0 .. Len(s) : h[i] = k[i]
<1> USE DEF Begins
<1> DEFINE T == {i \in Nat : i <= Len(s) => h[i] = k[i]}
<1>1. 0 \in T
  <2>1. 0 \in 0 .. Len(s) /\ 0 \in 0 .. Len(t)
    OBVIOUS
  <2>2. h[0] = base /\ k[0] = base
    BY <2>1 DEF IsTrace
  <2>3. QED
    BY <2>2
<1>2. ASSUME NEW i \in Nat, i \in T PROVE i + 1 \in T
  <2> SUFFICES ASSUME i + 1 <= Len(s) PROVE h[i + 1] = k[i + 1]
    OBVIOUS
  <2>1. /\ i + 1 \in 0 .. Len(s) /\ i + 1 \in 0 .. Len(t) /\ i + 1 \in 1 .. Len(s)
        /\ i + 1 # 0 /\ (i + 1) - 1 = i /\ h[i] = k[i]
    BY <1>2
  <2>2. h[i + 1] = g[<<h[i], s[i + 1]>>] /\ k[i + 1] = g[<<k[i], t[i + 1]>>]
    BY <2>1 DEF IsTrace
  <2>3. QED
    BY <2>1, <2>2
<1> HIDE DEF T
<1>3. Nat \subseteq T
  BY <1>1, <1>2, AllNumbers
<1>4. QED
  BY <1>3 DEF T

\* The values a fold goes through are there to speak of.
LEMMA TraceExists ==
    ASSUME NEW S, NEW E, NEW base \in S, NEW g \in [S \X E -> S], NEW seq \in Seq(E)
    PROVE  IsTrace(Trace(S, g, base, seq), S, g, base, seq)
<1> DEFINE n == Len(seq)
<1>1. n \in Nat /\ seq \in [1 .. n -> E]
  OBVIOUS
<1> HIDE DEF n
<1>2. PICK h : IsFold(h, S, g, base, seq, n)
  BY <1>1, FoldExists
<1> DEFINE k == [i \in 0 .. n |-> h[1 .. i]]
<1>3. \A i \in 0 .. n : 1 .. i \in SUBSET (1 .. n)
  BY <1>1
<1>4. k \in [0 .. n -> S]
  BY <1>2, <1>3 DEF IsFold
<1>5. ASSUME NEW i \in 0 .. n
      PROVE  k[i] = IF i = 0 THEN base ELSE g[<<k[i - 1], seq[i]>>]
  <2>1. h[1 .. i] = IF 1 .. i = {} THEN base
                    ELSE g[<<h[(1 .. i) \ {Max(1 .. i)}], seq[Max(1 .. i)]>>]
    BY <1>2, <1>3 DEF IsFold
  <2>2. i \in Nat /\ (i # 0 => i - 1 \in 0 .. n)
    BY <1>1
  <2>3. QED
    BY <2>1, <2>2, UpTo
<1> HIDE DEF k
<1>6. IsTrace(k, S, g, base, seq)
  BY <1>4, <1>5 DEF IsTrace, n
<1>7. QED
  BY <1>6 DEF Trace

FoldsOn(S, E, g, base, seq) ==
    /\ Traced(S, g, base, seq) \in S
    /\ Traced(S, g, base, <<>>) = base
    /\ \A x \in E : Traced(S, g, base, Append(seq, x)) = g[<<Traced(S, g, base, seq), x>>]

\* What a fold comes to, a place at a time.
LEMMA TracedIs ==
    ASSUME NEW S, NEW E, NEW base \in S, NEW g \in [S \X E -> S], NEW seq \in Seq(E)
    PROVE  FoldsOn(S, E, g, base, seq)
<1>1. IsTrace(Trace(S, g, base, seq), S, g, base, seq)
  BY TraceExists
<1>2. Traced(S, g, base, seq) \in S
  BY <1>1 DEF Traced, IsTrace
<1>3. Traced(S, g, base, <<>>) = base
  <2> DEFINE none == <<>>
  <2>1. none \in Seq(E) /\ Len(none) = 0
    OBVIOUS
  <2> HIDE DEF none
  <2>2. IsTrace(Trace(S, g, base, none), S, g, base, none)
    BY <2>1, TraceExists
  <2>3. Traced(S, g, base, none) = base
    BY <2>1, <2>2 DEF Traced, IsTrace
  <2>4. QED
    BY <2>3 DEF none
<1>4. ASSUME NEW x \in E
      PROVE  Traced(S, g, base, Append(seq, x)) = g[<<Traced(S, g, base, seq), x>>]
  <2> DEFINE t == Append(seq, x)
             n == Len(seq)
  <2>1. /\ t \in Seq(E) /\ n \in Nat /\ Len(t) = n + 1 /\ t[n + 1] = x
        /\ \A i \in 1 .. n : seq[i] = t[i]
    OBVIOUS
  <2> HIDE DEF t
  <2>2. IsTrace(Trace(S, g, base, t), S, g, base, t)
    BY <2>1, TraceExists
  <2>3. \A i \in 0 .. n : Trace(S, g, base, seq)[i] = Trace(S, g, base, t)[i]
    <3>1. n <= n + 1 /\ n + 1 \in Nat
      BY <2>1
    <3>2. t \in Seq(E) /\ Begins(seq, t)
      BY <2>1, <3>1 DEF Begins
    <3> DEFINE h == Trace(S, g, base, seq)
               k == Trace(S, g, base, t)
    <3>3. IsTrace(h, S, g, base, seq) /\ IsTrace(k, S, g, base, t)
      BY <1>1, <2>2
    <3> HIDE DEF h, k
    <3>4. \A i \in 0 .. Len(seq) : h[i] = k[i]
      BY <3>2, <3>3, TracesAgree
    <3>5. QED
      BY <3>4 DEF h, k
  <2>4. n + 1 \in 0 .. Len(t) /\ n + 1 # 0 /\ (n + 1) - 1 = n /\ n \in 0 .. n
    BY <2>1
  <2>5. Trace(S, g, base, t)[n + 1] = g[<<Trace(S, g, base, t)[n], t[n + 1]>>]
    BY <2>2, <2>4 DEF IsTrace
  <2>6. QED
    BY <2>1, <2>3, <2>4, <2>5 DEF Traced, t
<1>5. QED
  BY <1>2, <1>3, <1>4 DEF FoldsOn

\* h goes through the places of a sequence by g.
Steps(h, S, g, base, seq) ==
    /\ h[{}] = base
    /\ \A i \in 1 .. Len(seq) :
          h[1 .. (i - 1)] \in S => h[1 .. i] = g[<<h[1 .. (i - 1)], seq[i]>>]

Ends(h, S, g, base, seq) == h[1 .. Len(seq)] = Traced(S, g, base, seq)

\* A fold is what its steps come to.
LEMMA FoldIsTraced ==
    ASSUME NEW S, NEW E, NEW base \in S, NEW g \in [S \X E -> S], NEW seq \in Seq(E),
           NEW h, Steps(h, S, g, base, seq)
    PROVE  Ends(h, S, g, base, seq)
<1> USE DEF Steps, Ends
<1> DEFINE n == Len(seq)
           t == Trace(S, g, base, seq)
           T == {i \in Nat : i <= n => h[1 .. i] = t[i]}
<1>1. IsTrace(t, S, g, base, seq)
  BY TraceExists
<1>2. n \in Nat /\ DOMAIN seq = 1 .. n
  OBVIOUS
<1> HIDE DEF t
<1>3. 0 \in T
  <2>1. 1 .. 0 = {}
    OBVIOUS
  <2>2. QED
    <3>1. 0 \in 0 .. n
      BY <1>2
    <3>2. t[0] = base
      BY <1>1, <3>1 DEF IsTrace
    <3>3. QED
      BY <2>1, <3>2
<1>4. ASSUME NEW i \in Nat, i \in T PROVE i + 1 \in T
  <2> SUFFICES ASSUME i + 1 <= n PROVE h[1 .. (i + 1)] = t[i + 1]
    OBVIOUS
  <2>1. h[1 .. i] = t[i] /\ i \in 0 .. n /\ i + 1 \in 0 .. n /\ i + 1 \in 1 .. n /\ (i + 1) - 1 = i
    BY <1>2, <1>4
  <2>2. t[i] \in S /\ t[i + 1] = g[<<t[i], seq[i + 1]>>]
    BY <1>1, <2>1 DEF IsTrace
  <2>3. QED
    BY <2>1, <2>2
<1> HIDE DEF T
<1>5. Nat \subseteq T
  BY <1>3, <1>4, AllNumbers
<1>6. QED
  BY <1>2, <1>5 DEF T, Traced, t

-----------------------------------------------------------------------------
(* Reading: what blocks give, and what ssh finds.                          *)

Kinds == {"value", "declared", "defined"}

Lines == Files \X Nat
Places == Lines \union {<<>>}

\* A line is never nowhere, which is how a value that is not given is written.
LEMMA LinesAreSomewhere ==
    ASSUME NEW p \in Lines PROVE p # <<>>
<1>1. PICK f \in Files, i \in Nat : p = <<f, i>>
  BY DEF Lines
<1>2. Len(p) = 2 /\ Len(<<>>) = 0
  BY <1>1
<1>3. QED
  BY <1>2

Blocks == [isMatch : BOOLEAN, patterns : SUBSET Patterns, values : Seq(Lines),
           line : Places, enclosing : Seq(SUBSET Patterns)]

\* What a block gives a host: the place of a value, or of its Host line.
Pick(what, b, a) ==
    IF what = "value"
    THEN IF Read!Applies(b, a) /\ b.values # <<>> THEN Head(b.values) ELSE <<>>
    ELSE IF /\ ~b.isMatch /\ Read!EnclosingMatches(b.enclosing, a)
            /\ \/ what = "declared" /\ Read!Alias(a) \in b.patterns
               \/ /\ what = "defined" /\ Read!BlockMatches(b.patterns, a)
                  /\ ~Read!IsCatchAll(b.patterns)
         THEN b.line ELSE <<>>

Givers(what, bs, a) == {k \in DOMAIN bs : Pick(what, bs[k], a) # <<>>}

Got(what, bs, a) ==
    LET S == Givers(what, bs, a)
    IN  IF S = {} THEN <<>> ELSE Pick(what, bs[Read!Earliest(S)], a)

\* The first of two, if there is one.
Or(x, y) == IF x # <<>> THEN x ELSE y

\* The first of some blocks is one of them, and none of them is before it.
LEMMA EarliestIs ==
    ASSUME NEW n \in Nat, NEW S \in SUBSET (1 .. n), S # {}
    PROVE  Read!Earliest(S) \in S /\ \A m \in S : Read!Earliest(S) <= m
<1>1. Min(S) \in S /\ \A m \in S : Min(S) <= m
  BY MinIn
<1>2. \E k \in S : \A m \in S : k <= m
  BY <1>1
<1>3. QED
  BY <1>2 DEF Read!Earliest

\* What some blocks and then others give is what the first give, or else the others.
LEMMA GotOfBoth ==
    ASSUME NEW what, NEW a, NEW E, NEW s \in Seq(E), NEW t \in Seq(E)
    PROVE  Got(what, s \o t, a) = Or(Got(what, s, a), Got(what, t, a))
<1> DEFINE u == s \o t
           m == Len(s)
           n == Len(t)
           S == Givers(what, s, a)
           T == Givers(what, t, a)
           U == Givers(what, u, a)
<1>1. /\ m \in Nat /\ n \in Nat /\ DOMAIN s = 1 .. m /\ DOMAIN t = 1 .. n /\ DOMAIN u = 1 .. m + n
      /\ \A i \in 1 .. m : u[i] = s[i]
      /\ \A i \in 1 .. n : u[i + m] = t[i]
      /\ \A i \in 1 .. m + n : i <= m \/ i - m \in 1 .. n
  OBVIOUS
<1> HIDE DEF u, m, n
<1>2. S \in SUBSET (1 .. m) /\ T \in SUBSET (1 .. n) /\ U \in SUBSET (1 .. m + n) /\ m + n \in Nat
  BY <1>1 DEF Givers
<1>3. \A i \in 1 .. m : i \in S <=> i \in U
  <2>1. ASSUME NEW i \in 1 .. m PROVE i \in S <=> i \in U
    <3>1. i \in 1 .. m + n /\ u[i] = s[i]
      BY <1>1
    <3>2. QED
      BY <1>1, <3>1 DEF Givers
  <2>2. QED
    BY <2>1
<1>4. \A i \in 1 .. n : i \in T <=> i + m \in U
  <2>1. ASSUME NEW i \in 1 .. n PROVE i \in T <=> i + m \in U
    <3>1. i + m \in 1 .. m + n /\ u[i + m] = t[i]
      BY <1>1
    <3>2. QED
      BY <1>1, <3>1 DEF Givers
  <2>2. QED
    BY <2>1
<1> HIDE DEF S, T, U
<1>5. CASE S # {}
  <2> DEFINE k == Read!Earliest(S)
             l == Read!Earliest(U)
  <2>1. k \in S /\ \A i \in S : k <= i
    BY <1>1, <1>2, <1>5, EarliestIs
  <2>2. k \in U
    BY <1>2, <1>3, <2>1
  <2>3. l \in U /\ \A i \in U : l <= i
    BY <1>1, <1>2, <2>2, EarliestIs
  <2> HIDE DEF k, l
  <2>4. l <= m /\ l \in 1 .. m
    BY <1>1, <1>2, <2>1, <2>2, <2>3
  <2>5. l \in S
    BY <1>3, <2>3, <2>4
  <2>6. k = l
    BY <1>1, <1>2, <2>1, <2>2, <2>3, <2>5
  <2>7. Got(what, s, a) = Pick(what, s[k], a) /\ Got(what, u, a) = Pick(what, u[l], a)
    BY <2>1, <2>2 DEF Got, S, U, k, l
  <2>8. Pick(what, s[k], a) # <<>>
    BY <2>1 DEF S, Givers
  <2>9. u[l] = s[k]
    BY <1>1, <2>4, <2>6
  <2>10. QED
    BY <2>7, <2>8, <2>9 DEF Or, u
<1>6. CASE S = {} /\ T # {}
  <2> DEFINE k == Read!Earliest(T)
             l == Read!Earliest(U)
  <2>1. k \in T /\ \A i \in T : k <= i
    BY <1>1, <1>2, <1>6, EarliestIs
  <2>2. k + m \in U
    BY <1>2, <1>4, <2>1
  <2>3. l \in U /\ \A i \in U : l <= i
    BY <1>1, <1>2, <2>2, EarliestIs
  <2> HIDE DEF k, l
  <2>4. l \in 1 .. m + n /\ ~(l <= m)
    <3>1. l \in 1 .. m + n
      BY <1>2, <2>3
    <3>2. l \notin 1 .. m
      BY <1>3, <1>6, <2>3
    <3>3. QED
      BY <1>1, <3>1, <3>2
  <2>5. l - m \in 1 .. n /\ (l - m) + m = l
    BY <1>1, <2>4
  <2>6. l - m \in T
    BY <1>4, <2>3, <2>5
  <2>7. k \in 1 .. n /\ k <= l - m /\ l <= k + m
    BY <1>2, <2>1, <2>2, <2>3, <2>6
  <2>8. l = k + m
    BY <1>1, <2>4, <2>7
  <2>9. Got(what, t, a) = Pick(what, t[k], a) /\ Got(what, u, a) = Pick(what, u[l], a)
    BY <1>6, <2>2 DEF Got, T, U, k, l
  <2>10. Got(what, s, a) = <<>>
    BY <1>6 DEF Got, S
  <2>11. u[l] = t[k]
    BY <1>1, <2>7, <2>8
  <2>12. QED
    BY <2>9, <2>10, <2>11 DEF Or, u
<1>7. CASE S = {} /\ T = {}
  <2>1. U = {}
    <3>1. ASSUME NEW i \in U PROVE FALSE
      <4>1. i \in 1 .. m + n /\ (i \in 1 .. m \/ i - m \in 1 .. n)
        BY <1>1, <1>2
      <4>2. CASE i \in 1 .. m
        BY <1>3, <1>7, <4>2
      <4>3. CASE i - m \in 1 .. n
        <5>1. (i - m) + m = i
          BY <1>1, <4>1
        <5>2. QED
          BY <1>4, <1>7, <4>3, <5>1
      <4>4. QED
        BY <4>1, <4>2, <4>3
    <3>2. QED
      BY <3>1
  <2>2. QED
    BY <1>7, <2>1 DEF Got, Or, S, T, U, u
<1>8. QED
  BY <1>5, <1>6, <1>7

\* What one block gives.
LEMMA GotOfOne ==
    ASSUME NEW what, NEW a, NEW b
    PROVE  Got(what, <<b>>, a) = Pick(what, b, a)
<1> DEFINE S == Givers(what, <<b>>, a)
<1>1. DOMAIN <<b>> = {1} /\ <<b>>[1] = b
  OBVIOUS
<1>2. CASE Pick(what, b, a) # <<>>
  <2>1. S = {1}
    BY <1>1, <1>2 DEF Givers
  <2>2. Read!Earliest(S) = 1
    BY <2>1 DEF Read!Earliest
  <2>3. QED
    BY <1>1, <2>1, <2>2 DEF Got
<1>3. CASE Pick(what, b, a) = <<>>
  <2>1. S = {}
    BY <1>1, <1>3 DEF Givers
  <2>2. QED
    BY <1>3, <2>1 DEF Got
<1>4. QED
  BY <1>2, <1>3

\* No blocks give nothing.
LEMMA GotOfNone ==
    ASSUME NEW what, NEW a
    PROVE  Got(what, <<>>, a) = <<>>
<1>1. DOMAIN <<>> = {}
  OBVIOUS
<1>2. QED
  BY <1>1 DEF Got, Givers

\* One more block gives what the ones before it do not.
LEMMA GotOfMore ==
    ASSUME NEW what, NEW a, NEW E, NEW s \in Seq(E), NEW b \in E
    PROVE  Got(what, Append(s, b), a) = Or(Got(what, s, a), Pick(what, b, a))
<1>1. <<b>> \in Seq(E) /\ Append(s, b) = s \o <<b>>
  OBVIOUS
<1>2. Got(what, s \o <<b>>, a) = Or(Got(what, s, a), Got(what, <<b>>, a))
  BY <1>1, GotOfBoth
<1>3. QED
  BY <1>1, <1>2, GotOfOne

-----------------------------------------------------------------------------
(* What ssh has found after some of the lines of a file.                   *)

FilesTyped(fs) == fs \in [Files -> Seq(ConfigLines)]

Reach == {"in", "out"}
States == [scope : Reach, found : Places]

\* The kinds of lines there are.
LineKinds == {"host", "match", "set", "include", "nothing", "broken"}
Within == [Files \X Reach -> Places]

\* What there is to know of a line of a file.
LEMMA LineIs ==
    ASSUME NEW fs, FilesTyped(fs), NEW f \in Files, NEW i \in 1 .. Len(fs[f])
    PROVE  /\ fs[f][i] \in ConfigLines /\ <<f, i>> \in Lines /\ i \in Nat
           /\ fs[f][i].kind \in LineKinds
           /\ fs[f][i].patterns \in SUBSET Patterns
           /\ fs[f][i].kind = "include" => fs[f][i].file \in Files
           /\ fs[f][i].kind = "host" => fs[f][i].patterns # {}
<1>1. fs[f] \in Seq(ConfigLines) /\ i \in 1 .. Len(fs[f]) /\ Len(fs[f]) \in Nat
  BY DEF FilesTyped
<1>2. fs[f][i] \in ConfigLines /\ i \in Nat
  BY <1>1
<1>3. QED
  BY <1>2 DEF ConfigLines, Lines, LineKinds

\* SshLine, of a line that stands at place.
LineStep(what, a, line, place, around, within, s) ==
    [scope |->
        IF line.kind \notin {"host", "match"} THEN s.scope
        ELSE IF around = "in" /\ Read!BlockMatches(line.patterns, a) THEN "in" ELSE "out",
     found |->
        IF s.found # <<>> THEN s.found
        ELSE IF Read!Wanted(what, a, line, around, s.scope) THEN place
        ELSE IF line.kind = "include" THEN within[<<line.file, s.scope>>]
        ELSE <<>>]

\* A line leaves ssh in a state.
LEMMA LineStepTyped ==
    ASSUME NEW fs, FilesTyped(fs), NEW what, NEW a, NEW f \in Files, NEW around \in Reach,
           NEW within \in Within, NEW s \in States, NEW i \in 1 .. Len(fs[f])
    PROVE  LineStep(what, a, fs[f][i], <<f, i>>, around, within, s) \in States
<1> DEFINE line == fs[f][i]
           r == LineStep(what, a, line, <<f, i>>, around, within, s)
<1>1. line.kind \in LineKinds /\ <<f, i>> \in Lines /\ (line.kind = "include" => line.file \in Files)
  BY LineIs
<1>2. s.scope \in Reach /\ s.found \in Places
  BY DEF States
<1>3. line.kind = "include" => within[<<line.file, s.scope>>] \in Places
  BY <1>1, <1>2 DEF Within
<1>4. <<>> \in Places /\ <<f, i>> \in Places
  BY <1>1 DEF Places
<1> DEFINE scope == IF line.kind \notin {"host", "match"} THEN s.scope
                    ELSE IF around = "in" /\ Read!BlockMatches(line.patterns, a) THEN "in" ELSE "out"
           found == IF s.found # <<>> THEN s.found
                    ELSE IF Read!Wanted(what, a, line, around, s.scope) THEN <<f, i>>
                    ELSE IF line.kind = "include" THEN within[<<line.file, s.scope>>] ELSE <<>>
<1>5. r = [scope |-> scope, found |-> found]
  BY DEF LineStep
<1> HIDE DEF line
<1>6. scope \in Reach
  BY <1>2 DEF Reach
<1>7. found \in Places
  BY <1>2, <1>3, <1>4
<1> HIDE DEF scope, found, r
<1>8. r \in States
  BY <1>5, <1>6, <1>7 DEF States
<1>9. QED
  BY <1>8 DEF r, line

FileStep(fs, what, a, f, around, within) ==
    [p \in States \X (1 .. Len(fs[f])) |->
       LineStep(what, a, fs[f][p[2]], <<f, p[2]>>, around, within, p[1])]

Numbers(s) == [i \in DOMAIN s |-> i]

\* ssh's state when it has read i lines of f.
After(fs, what, a, f, around, within, i) ==
    Trace(States, FileStep(fs, what, a, f, around, within), [scope |-> around, found |-> <<>>],
          Numbers(fs[f]))[i]

\* The states ssh goes through in a file, line by line.
LEMMA AfterIs ==
    ASSUME NEW fs, FilesTyped(fs), NEW what, NEW a, NEW f \in Files, NEW around \in Reach,
           NEW within \in Within
    PROVE  /\ \A i \in 0 .. Len(fs[f]) : After(fs, what, a, f, around, within, i) \in States
           /\ After(fs, what, a, f, around, within, 0) = [scope |-> around, found |-> <<>>]
           /\ \A i \in 1 .. Len(fs[f]) :
                 After(fs, what, a, f, around, within, i)
                   = LineStep(what, a, fs[f][i], <<f, i>>, around, within,
                              After(fs, what, a, f, around, within, i - 1))
<1> DEFINE n == Len(fs[f])
           E == 1 .. n
           seq == Numbers(fs[f])
           base == [scope |-> around, found |-> <<>>]
           g == FileStep(fs, what, a, f, around, within)
           t == Trace(States, g, base, seq)
<1>1. n \in Nat /\ DOMAIN fs[f] = 1 .. n
  BY DEF FilesTyped
<1>2. seq \in Seq(E) /\ Len(seq) = n /\ DOMAIN seq = 1 .. n /\ \A i \in 1 .. n : seq[i] = i
  BY <1>1 DEF Numbers
<1>3. base \in States
  BY DEF States, Reach, Places
<1>4. g \in [States \X E -> States]
  BY <1>1, LineStepTyped DEF FileStep
<1>5. \A s \in States, i \in E :
         g[<<s, i>>] = LineStep(what, a, fs[f][i], <<f, i>>, around, within, s)
  BY <1>1 DEF FileStep
<1> HIDE DEF n, E, seq, base, g, t
<1>7. IsTrace(t, States, g, base, seq)
  BY <1>2, <1>3, <1>4, TraceExists DEF t
<1>12. \A i \in 0 .. n : t[i] \in States
  BY <1>2, <1>7 DEF IsTrace
<1>13. t[0] = base
  <2>1. 0 \in 0 .. Len(seq)
    BY <1>1, <1>2
  <2>2. QED
    BY <1>7, <2>1 DEF IsTrace
<1>14. ASSUME NEW i \in 1 .. n
       PROVE  t[i] = LineStep(what, a, fs[f][i], <<f, i>>, around, within, t[i - 1])
  <2>1. i \in 0 .. Len(seq) /\ i # 0 /\ i - 1 \in 0 .. n /\ i \in E
    BY <1>1, <1>2, <1>14 DEF E
  <2>2. t[i] = g[<<t[i - 1], seq[i]>>]
    BY <1>7, <2>1 DEF IsTrace
  <2>3. QED
    BY <1>2, <1>5, <1>12, <2>1, <2>2
<1>15. \A i : After(fs, what, a, f, around, within, i) = t[i]
  BY DEF After, t, g, base, seq, n
<1>17. QED
  BY <1>12, <1>13, <1>14, <1>15 DEF n, base

\* What the model says ssh makes of a file is the last of them.
LEMMA SshFileIs ==
    ASSUME FilesTyped(files), NEW what, NEW a, NEW f \in Files, NEW around \in Reach,
           NEW within \in Within
    PROVE  Read!SshFile(what, a, f, around, within)
             = After(files, what, a, f, around, within, Len(files[f]))
<1> DEFINE n == Len(files[f])
           E == 1 .. n
           seq == Numbers(files[f])
           base == [scope |-> around, found |-> <<>>]
           g == FileStep(files, what, a, f, around, within)
           t == Trace(States, g, base, seq)
           iter == CHOOSE iter : iter = [s \in SUBSET DOMAIN seq |->
                      IF s = {} THEN base
                      ELSE Read!SshLine(what, a, f, around, within, iter[s \ {Max(s)}], seq[Max(s)])]
<1>1. n \in Nat /\ DOMAIN files[f] = 1 .. n
  BY DEF FilesTyped
<1>2. seq \in Seq(E) /\ Len(seq) = n /\ DOMAIN seq = 1 .. n /\ \A i \in 1 .. n : seq[i] = i
  BY <1>1 DEF Numbers
<1>3. base \in States
  BY DEF States, Reach, Places
<1>4. g \in [States \X E -> States]
  BY <1>1, LineStepTyped DEF FileStep
<1>5. \A s \in States, i \in E : g[<<s, i>>] = Read!SshLine(what, a, f, around, within, s, i)
  BY <1>1 DEF FileStep, LineStep, Read!SshLine
<1>6. Read!SshFile(what, a, f, around, within) = iter[DOMAIN seq]
  <2>1. QED
    BY DEF Numbers, Read!SshFile, Read!FoldLeftDomain, Read!FoldLeft, Read!MapThenFoldSet, Read!Max, Max
<1> HIDE DEF n, E, seq, base, g, t
<1>7. IsTrace(t, States, g, base, seq)
  BY <1>2, <1>3, <1>4, TraceExists DEF t
<1>8. iter = [s \in SUBSET DOMAIN seq |->
                 IF s = {} THEN base
                 ELSE Read!SshLine(what, a, f, around, within, iter[s \ {Max(s)}], seq[Max(s)])]
  <2>1. seq \in [1 .. n -> E]
    BY <1>2
  <2>2. PICK h : IsFold(h, States, g, base, seq, n)
    BY <1>1, <1>3, <1>4, <2>1, FoldExists
  <2>3. ASSUME NEW s \in SUBSET (1 .. n)
        PROVE  h[s] = IF s = {} THEN base
                      ELSE Read!SshLine(what, a, f, around, within, h[s \ {Max(s)}], seq[Max(s)])
    <3>1. CASE s = {}
      BY <2>2, <3>1 DEF IsFold
    <3>2. CASE s # {}
      <4>1. Max(s) \in 1 .. n
        BY <1>1, <3>2, MaxIn
      <4>2. h[s \ {Max(s)}] \in States /\ seq[Max(s)] \in E
        BY <2>1, <2>2, <4>1 DEF IsFold
      <4>3. h[s] = g[<<h[s \ {Max(s)}], seq[Max(s)]>>]
        BY <2>2, <3>2 DEF IsFold
      <4>4. QED
        BY <1>5, <3>2, <4>2, <4>3
    <3>3. QED
      BY <3>1, <3>2
  <2>4. h = [s \in SUBSET DOMAIN seq |->
               IF s = {} THEN base
               ELSE Read!SshLine(what, a, f, around, within, h[s \ {Max(s)}], seq[Max(s)])]
    BY <1>2, <2>2, <2>3 DEF IsFold
  <2>5. QED
    BY <2>4
<1> HIDE DEF iter
<1>9. iter[{}] = base
  BY <1>8
<1>10. ASSUME NEW i \in 1 .. Len(seq), iter[1 .. (i - 1)] \in States
       PROVE  iter[1 .. i] = g[<<iter[1 .. (i - 1)], seq[i]>>]
  <2>1. /\ Max(1 .. i) = i /\ (1 .. i) \ {i} = 1 .. (i - 1) /\ 1 .. i # {}
        /\ 1 .. i \in SUBSET DOMAIN seq /\ seq[i] \in E
    BY <1>1, <1>2, UpTo DEF E
  <2>2. iter[1 .. i] = Read!SshLine(what, a, f, around, within, iter[1 .. (i - 1)], seq[i])
    BY <1>8, <2>1
  <2>3. QED
    BY <1>5, <1>10, <2>1, <2>2
<1>11. iter[DOMAIN seq] = Traced(States, g, base, seq)
  <2>1. Steps(iter, States, g, base, seq)
    BY <1>9, <1>10 DEF Steps
  <2>2. Ends(iter, States, g, base, seq)
    BY <1>2, <1>3, <1>4, <2>1, FoldIsTraced
  <2>3. QED
    BY <1>2, <2>2 DEF Ends
<1>12. QED
  BY <1>2, <1>6, <1>11 DEF Traced, After, t, g, base, seq, n

-----------------------------------------------------------------------------
(* What ssh finds in an included file, and in all it reads.                *)

LevelStep(fs, what, a) ==
    [p \in Within \X (1 .. (MaxIncludeDepth + 1)) |->
       [q \in Files \X Reach |->
          After(fs, what, a, q[1], q[2], p[1], Len(fs[q[1]])).found]]

\* What is found in each file, read with so many levels of Includes at most.
Levels(fs, what, a) ==
    Trace(Within, LevelStep(fs, what, a), [q \in Files \X Reach |-> <<>>],
          [i \in 1 .. (MaxIncludeDepth + 1) |-> i])

\* What ssh finds in files nested so deep, level by level.
LEMMA LevelsAre ==
    ASSUME NEW fs, FilesTyped(fs), MaxIncludeDepth \in Nat, NEW what, NEW a
    PROVE  /\ \A l \in 0 .. MaxIncludeDepth + 1 : Levels(fs, what, a)[l] \in Within
           /\ Levels(fs, what, a)[0] = [q \in Files \X Reach |-> <<>>]
           /\ \A l \in 0 .. MaxIncludeDepth : \A f \in Files, around \in Reach :
                 Levels(fs, what, a)[l + 1][<<f, around>>]
                   = After(fs, what, a, f, around, Levels(fs, what, a)[l], Len(fs[f])).found
<1> DEFINE n == MaxIncludeDepth + 1
           found(w, f, around) == After(fs, what, a, f, around, w, Len(fs[f])).found
           E == 1 .. n
           seq == [i \in E |-> i]
           base == [q \in Files \X Reach |-> <<>>]
           g == LevelStep(fs, what, a)
           t == Trace(Within, g, base, seq)
<1>1. /\ Levels(fs, what, a) = t
      /\ g = [p \in Within \X E |-> [q \in Files \X Reach |-> found(p[1], q[1], q[2])]]
  <2>1. Levels(fs, what, a) = t
    BY DEF Levels
  <2>2. g = [p \in Within \X E |-> [q \in Files \X Reach |-> found(p[1], q[1], q[2])]]
    BY DEF LevelStep
  <2> QED
    BY <2>1, <2>2, Zenon
<1>2. n \in Nat /\ seq \in Seq(E) /\ Len(seq) = n /\ \A i \in 1 .. n : seq[i] = i
  OBVIOUS
<1>3. ASSUME NEW w \in Within, NEW f \in Files, NEW around \in Reach
      PROVE  found(w, f, around) \in Places
  <2>1. Len(fs[f]) \in 0 .. Len(fs[f])
    BY DEF FilesTyped
  <2>2. After(fs, what, a, f, around, w, Len(fs[f])) \in States
    BY <2>1, AfterIs
  <2>3. QED
    BY <2>2 DEF States
<1> HIDE DEF found, n, seq
<1>4. base \in Within
  BY DEF Within, Places
<1>5. \A w \in Within : [q \in Files \X Reach |-> found(w, q[1], q[2])] \in Within
  BY <1>3 DEF Within
<1>6. g \in [Within \X E -> Within]
  BY <1>1, <1>5
<1>7. \A w \in Within, i \in E : g[<<w, i>>] = [q \in Files \X Reach |-> found(w, q[1], q[2])]
  BY <1>1
<1> HIDE DEF base, g, t, E
<1>8. IsTrace(t, Within, g, base, seq)
  BY <1>2, <1>4, <1>6, TraceExists DEF t
<1>9. t \in [0 .. n -> Within]
  BY <1>2, <1>8 DEF IsTrace
<1>10. t[0] = base
  <2>1. 0 \in 0 .. n
    BY <1>2
  <2>2. QED
    BY <1>2, <1>8, <2>1 DEF IsTrace
<1>11. ASSUME NEW l \in 0 .. MaxIncludeDepth
       PROVE  t[l + 1] = [q \in Files \X Reach |-> found(t[l], q[1], q[2])]
  <2>1. l + 1 \in 0 .. n /\ l + 1 # 0 /\ (l + 1) - 1 = l /\ l \in 0 .. n /\ l + 1 \in 1 .. n
    BY DEF n
  <2>2. t[l + 1] = g[<<t[l], seq[l + 1]>>]
    BY <1>2, <1>8, <2>1 DEF IsTrace
  <2>3. seq[l + 1] \in E /\ t[l] \in Within
    BY <1>2, <1>9, <2>1 DEF E
  <2>4. QED
    BY <1>7, <2>2, <2>3
<1>12. \A l \in 0 .. n : t[l] \in Within
  BY <1>9
<1>13. \A l \in 0 .. MaxIncludeDepth : \A f \in Files, around \in Reach :
          t[l + 1][<<f, around>>] = found(t[l], f, around)
  BY <1>11
<1>14. QED
  BY <1>1, <1>10, <1>12, <1>13, Zenon DEF n, base, found

\* The levels are those of the model.
LEMMA WithinIs ==
    ASSUME FilesTyped(files), MaxIncludeDepth \in Nat, NEW what, NEW a
    PROVE  \A l \in 0 .. MaxIncludeDepth + 1 :
              Read!SshWithin(what, a)[l] = Levels(files, what, a)[l]
<1> DEFINE n == MaxIncludeDepth + 1
           found(w, f, around) == Read!SshFile(what, a, f, around, w).found
           base == [q \in Files \X Reach |-> <<>>]
           t == Levels(files, what, a)
           W == CHOOSE within : within = [levels \in 0 .. n |->
                  [q \in Files \X Reach |->
                     IF levels = 0 THEN <<>> ELSE found(within[levels - 1], q[1], q[2])]]
           V == [levels \in 0 .. n |-> t[levels]]
<1>1. Read!SshWithin(what, a) = W
  BY DEF Read!SshWithin, Reach
<1>2. n \in Nat
  OBVIOUS
<1>3. \A w \in Within, f \in Files, around \in Reach :
         found(w, f, around) = After(files, what, a, f, around, w, Len(files[f])).found
  BY SshFileIs
<1> HIDE DEF found
<1>4. /\ \A l \in 0 .. n : t[l] \in Within
      /\ t[0] = base
      /\ \A l \in 0 .. MaxIncludeDepth : \A f \in Files, around \in Reach :
            t[l + 1][<<f, around>>] = After(files, what, a, f, around, t[l], Len(files[f])).found
  BY LevelsAre
<1> HIDE DEF base, t
<1>5. ASSUME NEW l \in 0 .. MaxIncludeDepth
      PROVE  t[l + 1] = [q \in Files \X Reach |-> found(t[l], q[1], q[2])]
  <2>1. l \in 0 .. n
    OBVIOUS
  <2>2. t[l] \in Within
    BY <1>4, <2>1
  <2>3. l + 1 \in 0 .. n /\ t[l + 1] \in Within
    BY <1>4
  <2>4. \A f \in Files, around \in Reach : t[l + 1][<<f, around>>] = found(t[l], f, around)
    BY <1>3, <1>4, <2>2
  <2>5. QED
    BY <2>3, <2>4 DEF Within
<1>6. ASSUME NEW i \in 0 .. n
      PROVE  V[i] = [q \in Files \X Reach |->
                       IF i = 0 THEN <<>> ELSE found(V[i - 1], q[1], q[2])]
  <2>1. CASE i = 0
    BY <1>4, <2>1 DEF base
  <2>2. CASE i # 0
    <3>1. i - 1 \in 0 .. MaxIncludeDepth /\ (i - 1) + 1 = i /\ i - 1 \in 0 .. n
      BY <2>2
    <3>2. t[i] = [q \in Files \X Reach |-> found(t[i - 1], q[1], q[2])]
      BY <1>5, <3>1
    <3>3. V[i] = t[i] /\ V[i - 1] = t[i - 1]
      BY <3>1
    <3>4. QED
      BY <2>2, <3>2, <3>3
  <2>3. QED
    BY <2>1, <2>2
<1>7. V = [levels \in 0 .. n |->
              [q \in Files \X Reach |->
                 IF levels = 0 THEN <<>> ELSE found(V[levels - 1], q[1], q[2])]]
  BY <1>6
<1> HIDE DEF V
<1>8. W = [levels \in 0 .. n |->
              [q \in Files \X Reach |->
                 IF levels = 0 THEN <<>> ELSE found(W[levels - 1], q[1], q[2])]]
  BY <1>7
<1> HIDE DEF W, n
<1> DEFINE T == {l \in Nat : l <= n => W[l] = t[l]}
<1>9. 0 \in T
  <2>1. 0 \in 0 .. n
    BY <1>2
  <2>2. W[0] = [q \in Files \X Reach |-> <<>>]
    BY <1>8, <2>1
  <2>3. QED
    BY <1>4, <2>2 DEF base
<1>10. ASSUME NEW l \in 0 .. n, l + 1 <= n
       PROVE  W[l + 1] = [q \in Files \X Reach |-> found(W[l], q[1], q[2])]
  <2>1. l + 1 \in 0 .. n /\ l + 1 # 0 /\ (l + 1) - 1 = l
    BY <1>2, <1>10
  <2>2. W[l + 1] = [q \in Files \X Reach |->
                      IF l + 1 = 0 THEN <<>> ELSE found(W[(l + 1) - 1], q[1], q[2])]
    BY <1>8, <2>1
  <2>3. QED
    BY <2>1, <2>2
<1>11. ASSUME NEW l \in Nat, l \in T PROVE l + 1 \in T
  <2> SUFFICES ASSUME l + 1 <= n PROVE W[l + 1] = t[l + 1]
    OBVIOUS
  <2>1. l \in 0 .. n /\ W[l] = t[l] /\ l \in 0 .. MaxIncludeDepth
    BY <1>2, <1>11 DEF n
  <2>2. W[l + 1] = [q \in Files \X Reach |-> found(W[l], q[1], q[2])]
    BY <1>10, <2>1
  <2>3. QED
    BY <1>5, <2>1, <2>2
<1> HIDE DEF T
<1>12. Nat \subseteq T
  BY <1>9, <1>11, AllNumbers
<1>13. \A l \in 0 .. n : W[l] = t[l]
  BY <1>2, <1>12 DEF T
<1>14. QED
  BY <1>1, <1>13 DEF n, t

PathStep(fs, what, a) ==
    [p \in Places \X Files |->
       Or(p[1], Levels(fs, what, a)[MaxIncludeDepth + 1][<<p[2], "in">>])]

\* What ssh has found when it has read m of the paths.
PathsFound(fs, what, a, m) == Trace(Places, PathStep(fs, what, a), <<>>, Paths)[m]

\* What ssh finds in the first files of a list, one by one.
LEMMA PathsAre ==
    ASSUME NEW fs, FilesTyped(fs), MaxIncludeDepth \in Nat, Paths \in Seq(Files), NEW what, NEW a
    PROVE  /\ \A m \in 0 .. Len(Paths) : PathsFound(fs, what, a, m) \in Places
           /\ PathsFound(fs, what, a, 0) = <<>>
           /\ \A m \in 1 .. Len(Paths) :
                 PathsFound(fs, what, a, m)
                   = Or(PathsFound(fs, what, a, m - 1),
                        Levels(fs, what, a)[MaxIncludeDepth + 1][<<Paths[m], "in">>])
<1> DEFINE n == Len(Paths)
           w == Levels(fs, what, a)[MaxIncludeDepth + 1]
           base == <<>>
           g == PathStep(fs, what, a)
           t == Trace(Places, g, base, Paths)
<1>1. n \in Nat /\ DOMAIN Paths = 1 .. n /\ Paths \in [1 .. n -> Files]
  OBVIOUS
<1>2. w \in Within
  <2>1. MaxIncludeDepth + 1 \in 0 .. MaxIncludeDepth + 1
    OBVIOUS
  <2>2. QED
    BY <2>1, LevelsAre
<1>3. base \in Places
  BY DEF Places
<1> HIDE DEF n, base, w
<1>5. \A v \in Places, f \in Files : Or(v, w[<<f, "in">>]) \in Places
  BY <1>2 DEF Within, Reach, Or
<1>6. g \in [Places \X Files -> Places]
  BY <1>5 DEF PathStep, w
<1>7. \A v \in Places, f \in Files : g[<<v, f>>] = Or(v, w[<<f, "in">>])
  BY DEF PathStep, w
<1> HIDE DEF g, t
<1>8. IsTrace(t, Places, g, base, Paths)
  BY <1>3, <1>6, TraceExists DEF t
<1>13. \A i \in 0 .. n : t[i] \in Places
  BY <1>8 DEF IsTrace, n
<1>14. t[0] = base
  <2>1. 0 \in 0 .. Len(Paths)
    BY <1>1
  <2>2. QED
    BY <1>8, <2>1 DEF IsTrace
<1>15. ASSUME NEW i \in 1 .. n
       PROVE  t[i] = Or(t[i - 1], w[<<Paths[i], "in">>])
  <2>1. i \in 0 .. Len(Paths) /\ i # 0 /\ i - 1 \in 0 .. n
    BY <1>1, <1>15 DEF n
  <2>2. t[i] = g[<<t[i - 1], Paths[i]>>]
    BY <1>8, <2>1 DEF IsTrace
  <2>3. QED
    BY <1>1, <1>7, <1>13, <2>1, <2>2
<1>16. \A i : PathsFound(fs, what, a, i) = t[i]
  BY DEF PathsFound, t, g, base
<1>18. QED
  BY <1>13, <1>14, <1>15, <1>16 DEF n, base, w

\* What the model says ssh finds is what it finds in all of them.
LEMMA SshIs ==
    ASSUME FilesTyped(files), MaxIncludeDepth \in Nat, Paths \in Seq(Files), NEW what, NEW a
    PROVE  Read!Ssh(what, a) = PathsFound(files, what, a, Len(Paths))
<1> DEFINE n == Len(Paths)
           w == Levels(files, what, a)[MaxIncludeDepth + 1]
           base == <<>>
           g == PathStep(files, what, a)
           t == Trace(Places, g, base, Paths)
           iter == CHOOSE iter : iter = [s \in SUBSET DOMAIN Paths |->
                      IF s = {} THEN base
                      ELSE IF iter[s \ {Max(s)}] # <<>> THEN iter[s \ {Max(s)}]
                           ELSE w[<<Paths[Max(s)], "in">>]]
<1>1. n \in Nat /\ DOMAIN Paths = 1 .. n /\ Paths \in [1 .. n -> Files]
  OBVIOUS
<1>2. w \in Within /\ w = Read!SshWithin(what, a)[MaxIncludeDepth + 1]
  <2>1. MaxIncludeDepth + 1 \in 0 .. MaxIncludeDepth + 1
    OBVIOUS
  <2>2. QED
    BY <2>1, LevelsAre, WithinIs
<1>3. base \in Places
  BY DEF Places
<1>4. Read!Ssh(what, a) = iter[DOMAIN Paths]
  <2> HIDE DEF w
  <2> DEFINE u == Read!SshWithin(what, a)[MaxIncludeDepth + 1]
             jter == CHOOSE jter : jter = [s \in SUBSET DOMAIN Paths |->
                        IF s = {} THEN base
                        ELSE IF jter[s \ {Max(s)}] # <<>> THEN jter[s \ {Max(s)}]
                             ELSE u[<<Paths[Max(s)], "in">>]]
  <2>1. Read!Ssh(what, a) = jter[DOMAIN Paths]
    BY DEF Read!Ssh, Read!FoldLeft, Read!MapThenFoldSet, Read!Max, Max
  <2>2. u = w
    BY <1>2
  <2> HIDE DEF u
  <2>3. QED
    BY <2>1, <2>2
<1> HIDE DEF n, base, w
<1>5. \A v \in Places, f \in Files : Or(v, w[<<f, "in">>]) \in Places
  BY <1>2 DEF Within, Reach, Or
<1>6. g \in [Places \X Files -> Places]
  BY <1>5 DEF PathStep, w
<1>7. \A v \in Places, f \in Files : g[<<v, f>>] = Or(v, w[<<f, "in">>])
  BY DEF PathStep, w
<1> HIDE DEF g, t
<1>8. IsTrace(t, Places, g, base, Paths)
  BY <1>3, <1>6, TraceExists DEF t
<1>9. iter = [s \in SUBSET DOMAIN Paths |->
                IF s = {} THEN base
                ELSE IF iter[s \ {Max(s)}] # <<>> THEN iter[s \ {Max(s)}]
                     ELSE w[<<Paths[Max(s)], "in">>]]
  <2>1. PICK h : IsFold(h, Places, g, base, Paths, n)
    BY <1>1, <1>3, <1>6, FoldExists
  <2>2. ASSUME NEW s \in SUBSET (1 .. n)
        PROVE  h[s] = IF s = {} THEN base
                      ELSE IF h[s \ {Max(s)}] # <<>> THEN h[s \ {Max(s)}]
                           ELSE w[<<Paths[Max(s)], "in">>]
    <3>1. CASE s = {}
      BY <2>1, <3>1 DEF IsFold
    <3>2. CASE s # {}
      <4>1. Max(s) \in 1 .. n
        BY <1>1, <3>2, MaxIn
      <4>2. h[s \ {Max(s)}] \in Places /\ Paths[Max(s)] \in Files
        BY <1>1, <2>1, <4>1 DEF IsFold
      <4>3. h[s] = g[<<h[s \ {Max(s)}], Paths[Max(s)]>>]
        BY <2>1, <3>2 DEF IsFold
      <4>4. h[s] = Or(h[s \ {Max(s)}], w[<<Paths[Max(s)], "in">>])
        BY <1>7, <4>2, <4>3
      <4>5. QED
        BY <3>2, <4>4 DEF Or
    <3>3. QED
      BY <3>1, <3>2
  <2>3. h = [s \in SUBSET DOMAIN Paths |->
               IF s = {} THEN base
               ELSE IF h[s \ {Max(s)}] # <<>> THEN h[s \ {Max(s)}]
                    ELSE w[<<Paths[Max(s)], "in">>]]
    BY <1>1, <2>1, <2>2 DEF IsFold
  <2>4. QED
    BY <2>3
<1> HIDE DEF iter
<1>10. iter[{}] = base
  BY <1>9
<1>11. ASSUME NEW i \in 1 .. Len(Paths), iter[1 .. (i - 1)] \in Places
       PROVE  iter[1 .. i] = g[<<iter[1 .. (i - 1)], Paths[i]>>]
  <2>1. /\ Max(1 .. i) = i /\ (1 .. i) \ {i} = 1 .. (i - 1) /\ 1 .. i # {}
        /\ 1 .. i \in SUBSET DOMAIN Paths /\ Paths[i] \in Files
    BY <1>1, UpTo DEF n
  <2>2. iter[1 .. i] = Or(iter[1 .. (i - 1)], w[<<Paths[i], "in">>])
    BY <1>9, <2>1 DEF Or
  <2>3. QED
    BY <1>7, <1>11, <2>1, <2>2
<1>12. iter[DOMAIN Paths] = Traced(Places, g, base, Paths)
  <2>1. Steps(iter, Places, g, base, Paths)
    BY <1>10, <1>11 DEF Steps
  <2>2. Ends(iter, Places, g, base, Paths)
    BY <1>1, <1>3, <1>6, <2>1, FoldIsTraced
  <2>3. QED
    BY <1>1, <2>2 DEF Ends, n
<1>16. QED
  BY <1>4, <1>12 DEF Traced, PathsFound, t, g, base, n

-----------------------------------------------------------------------------
(* The frames: what they are, and how far they agree with ssh.             *)

\* A block says where it was written, unless it is of a file's own defaults.
GoodBlocks ==
    {b \in Blocks : /\ b.isMatch \/ b.patterns # {}
                    /\ b.line \in Lines \/ b.patterns = {Read!CatchAll}}

Frames ==
    [file : Files, at : Nat, enclosing : Seq(SUBSET Patterns), blocks : Seq(GoodBlocks),
     global : Seq(Lines), current : Blocks]

\* No block is open above the first Host or Match line, and then only an Include has
\* left blocks.  A Match block is open only below its line, and above the next Host line.
FrameIs(fs, fr) ==
    /\ fr \in Frames
    /\ fr.at <= Len(fs[fr.file])
    /\ fr.current # Read!NoBlock =>
          /\ fr.current \in GoodBlocks /\ fr.current.line \in Lines
          /\ fr.current.enclosing = fr.enclosing
    /\ fr.current = Read!NoBlock =>
          /\ \A i \in 1 .. fr.at : fs[fr.file][i].kind \notin {"host", "match"}
          /\ fr.blocks # <<>> => \E i \in 1 .. fr.at : fs[fr.file][i].kind = "include"
    /\ fr.current.isMatch =>
          \E i \in 1 .. fr.at :
             /\ fs[fr.file][i].kind = "match"
             /\ \A j \in (i + 1) .. fr.at : fs[fr.file][j].kind # "host"

\* next is what the line of fr includes.
Below(fs, fr, next) ==
    /\ fr.at # 0 /\ fr.current.values = <<>>
    /\ fs[fr.file][fr.at].kind = "include" /\ fs[fr.file][fr.at].file = next.file
    /\ next.enclosing = Read!Inner(fr)

StackIs(fs, st) ==
    /\ st \in Seq(Frames) /\ Len(st) <= MaxIncludeDepth + 1
    /\ \A k \in 1 .. Len(st) : FrameIs(fs, st[k])
    /\ \A k \in 1 .. (Len(st) - 1) : Below(fs, st[k], st[k + 1])

\* How many of the paths are read or being read.
Begun(un) == Len(Paths) - Len(un)

PathsIs(st, un) ==
    /\ un \in Seq(Files) /\ Begun(un) \in 0 .. Len(Paths)
    /\ \A i \in 1 .. Len(un) : un[i] = Paths[Begun(un) + i]
    /\ st # <<>> => Begun(un) # 0 /\ st[1].file = Paths[Begun(un)] /\ st[1].enclosing = <<>>

\* Whether what is in hand is read for a host, around the file and in its block.
Around(fr, a) == IF Read!EnclosingMatches(fr.enclosing, a) THEN "in" ELSE "out"

Scope(fr, a) ==
    IF fr.current = Read!NoBlock THEN Around(fr, a)
    ELSE IF /\ Around(fr, a) = "in" /\ ~fr.current.isMatch
            /\ Read!BlockMatches(fr.current.patterns, a)
         THEN "in" ELSE "out"

\* What the blocks of a frame give, its own defaults first.
Default(what, fr, a) ==
    IF what = "value" /\ fr.global # <<>> /\ Around(fr, a) = "in" THEN Head(fr.global) ELSE <<>>

FrameGot(what, fr, a) ==
    Or(Default(what, fr, a), Or(Got(what, fr.blocks, a), Pick(what, fr.current, a)))

\* DefaultsLead, of such files.
Leading(fs) ==
    \A f \in Files : \A i, j \in DOMAIN fs[f] :
       /\ fs[f][i].kind = "include" /\ fs[f][j].kind = "set" /\ i < j
       => \E k \in 1 .. j : fs[f][k].kind \in {"host", "match"}

\* MatchApart, of such files: the hosts that no Match block bears on.
Apart(fs) ==
    {a \in Aliases : \A f \in Files : \A i \in DOMAIN fs[f] : fs[f][i].kind = "match" =>
       /\ ~Read!BlockMatches(fs[f][i].patterns, a)
       /\ \A j \in i .. Len(fs[f]) : fs[f][j].kind = "include" =>
             \E k \in i .. j : fs[f][k].kind = "host"}

\* The value ssh has found, if the defaults lead; or as little as ssh.
Same(fs, what, x, y) ==
    IF what = "value" THEN Leading(fs) => x = y ELSE x = <<>> <=> y = <<>>

\* ssh's state in the k-th frame when it has read i of its lines.
SshAt(fs, k, fr, i, what, a) ==
    After(fs, what, a, fr.file, Around(fr, a), Levels(fs, what, a)[MaxIncludeDepth + 1 - k], i)

FrameRight(fs, k, fr, i, what, a) ==
    /\ SshAt(fs, k, fr, i, what, a).scope = Scope(fr, a)
    /\ Same(fs, what, FrameGot(what, fr, a), SshAt(fs, k, fr, i, what, a).found)

\* Below the top ssh has not come past the Include.
StackRight(fs, st, what, a) ==
    \A k \in 1 .. Len(st) :
       FrameRight(fs, k, st[k], IF k = Len(st) THEN st[k].at ELSE st[k].at - 1, what, a)

PathsRight(fs, st, un, bs, what, a) ==
    Same(fs, what, Got(what, bs, a),
         PathsFound(fs, what, a, IF st = <<>> THEN Begun(un) ELSE Begun(un) - 1))

\* Includes lead so many levels down from a file.
Leads(fs, f, d) ==
    \E chain \in [0 .. d -> Files] :
       /\ chain[0] = f
       /\ \A k \in 1 .. d : \E i \in DOMAIN fs[chain[k - 1]] :
             /\ fs[chain[k - 1]][i].kind = "include"
             /\ fs[chain[k - 1]][i].file = chain[k]

\* They lead to a line that cannot be read.
Breaks(fs, f) ==
    \E m \in Nat : \E chain \in [0 .. m -> Files] :
       /\ chain[0] = f
       /\ \A k \in 1 .. m : \E i \in DOMAIN fs[chain[k - 1]] :
             /\ fs[chain[k - 1]][i].kind = "include"
             /\ fs[chain[k - 1]][i].file = chain[k]
       /\ \E i \in DOMAIN fs[chain[m]] : fs[chain[m]][i].kind = "broken"

Dead(fs, f, d) == Leads(fs, f, d) \/ Breaks(fs, f)

\* Those lines can be read, and no Include of them leads so deep or to one that cannot.
Shallow(fs, f, n, d) ==
    \A i \in 1 .. n :
       /\ fs[f][i].kind # "broken"
       /\ fs[f][i].kind = "include" => ~Dead(fs, fs[f][i].file, d)

StackNests(fs, st) ==
    \A k \in 1 .. Len(st) :
       Shallow(fs, st[k].file, IF k = Len(st) THEN st[k].at ELSE st[k].at - 1,
               MaxIncludeDepth + 1 - k)

PathsNest(fs, st, un) ==
    \A m \in 1 .. (IF st = <<>> THEN Begun(un) ELSE Begun(un) - 1) :
       ~Dead(fs, Paths[m], MaxIncludeDepth + 1)

\* What has been read agrees with ssh, and leads no deeper than it may.
Reads(fs, st, un, bs) ==
    /\ StackIs(fs, st)
    /\ PathsIs(st, un)
    /\ bs \in Seq(GoodBlocks)
    /\ \A what \in Kinds, a \in Apart(fs) :
          StackRight(fs, st, what, a) /\ PathsRight(fs, st, un, bs, what, a)
    /\ StackNests(fs, st)
    /\ PathsNest(fs, st, un)

TooDeep(fs) == \E m \in 1 .. Len(Paths) : Leads(fs, Paths[m], MaxIncludeDepth + 1)

Broken(fs) ==
    \E m \in 0 .. MaxIncludeDepth : \E chain \in [0 .. m -> Files] :
       /\ \E p \in 1 .. Len(Paths) : Paths[p] = chain[0]
       /\ \A k \in 1 .. m : \E i \in DOMAIN fs[chain[k - 1]] :
             /\ fs[chain[k - 1]][i].kind = "include"
             /\ fs[chain[k - 1]][i].file = chain[k]
       /\ \E i \in DOMAIN fs[chain[m]] : fs[chain[m]][i].kind = "broken"

ReadInv ==
    /\ files \in Contents
    /\ Reads(files, stack, unread, blocks)
    /\ status \in {"reading", "read", "failed"}
    /\ status = "read" => stack = <<>> /\ unread = <<>>
    /\ status = "failed" => TooDeep(files) \/ Broken(files)

-----------------------------------------------------------------------------
\* Where no block is open there is nothing to give.
LEMMA NoBlockGives ==
    ASSUME NEW what, NEW a
    PROVE  Pick(what, Read!NoBlock, a) = <<>>
<1>1. Read!NoBlock.patterns = {} /\ Read!NoBlock.line = <<>>
  BY DEF Read!NoBlock
<1>2. ~Read!Applies(Read!NoBlock, a)
  BY <1>1 DEF Read!Applies, Read!BlockMatches
<1>3. QED
  BY <1>1, <1>2 DEF Pick

\* The block that a file's own defaults make.
Defaults(fr) ==
    [Read!Block({Read!CatchAll}, FALSE, <<>>, fr.enclosing) EXCEPT !.values = fr.global]

\* The block of the defaults of a file (sshconfig.go:331-341).
LEMMA DefaultsAre ==
    ASSUME NEW fr \in Frames
    PROVE  /\ Defaults(fr) \in GoodBlocks
           /\ Defaults(fr).isMatch = FALSE /\ Defaults(fr).patterns = {Read!CatchAll}
           /\ Defaults(fr).values = fr.global /\ Defaults(fr).line = <<>>
           /\ Defaults(fr).enclosing = fr.enclosing
<1> DEFINE d == Defaults(fr)
<1>1. /\ d.isMatch = FALSE /\ d.patterns = {Read!CatchAll} /\ d.values = fr.global
      /\ d.line = <<>> /\ d.enclosing = fr.enclosing
  BY DEF Defaults, Read!Block
<1>2. Read!CatchAll \in Patterns
  BY DEF Patterns, Read!CatchAll
<1>3. fr.global \in Seq(Lines) /\ fr.enclosing \in Seq(SUBSET Patterns)
  BY DEF Frames
<1>4. d \in Blocks
  BY <1>2, <1>3 DEF Defaults, Read!Block, Blocks, Places
<1>5. QED
  BY <1>1, <1>4 DEF GoodBlocks

\* What the defaults of a file give, when it has any.
LEMMA DefaultsGive ==
    ASSUME NEW fr \in Frames, NEW what \in Kinds, NEW a \in Aliases
    PROVE  /\ Defaults(fr) \in GoodBlocks
           /\ fr.global # <<>> => Pick(what, Defaults(fr), a) = Default(what, fr, a)
<1> DEFINE d == Defaults(fr)
<1>1. /\ d.isMatch = FALSE /\ d.patterns = {Read!CatchAll} /\ d.values = fr.global
      /\ d.line = <<>> /\ d.enclosing = fr.enclosing
  BY DefaultsAre
<1>2. Read!CatchAll.neg = FALSE /\ a \in Read!CatchAll.covers /\ Read!CatchAll.kind = "all"
  BY DEF Read!CatchAll
<1>3. d \in GoodBlocks
  BY DefaultsAre
<1>4. Read!BlockMatches(d.patterns, a) /\ Read!IsCatchAll(d.patterns)
  BY <1>1, <1>2 DEF Read!BlockMatches, Read!IsCatchAll
<1>5. Read!Alias(a) \notin d.patterns
  <2>1. Read!Alias(a).kind = "alias"
    BY DEF Read!Alias
  <2>2. QED
    BY <1>1, <1>2, <2>1
<1> HIDE DEF d
<1>6. ASSUME fr.global # <<>> PROVE Pick(what, d, a) = Default(what, fr, a)
  <2>1. CASE what = "value"
    <3>1. Pick(what, d, a) = IF Read!EnclosingMatches(fr.enclosing, a) THEN Head(fr.global) ELSE <<>>
      BY <1>1, <1>4, <1>6, <2>1 DEF Pick, Read!Applies
    <3>2. QED
      BY <1>6, <2>1, <3>1 DEF Default, Around
  <2>2. CASE what # "value"
    <3>1. Pick(what, d, a) = <<>>
      BY <1>4, <1>5, <2>2 DEF Pick, Kinds
    <3>2. QED
      BY <2>2, <3>1 DEF Default
  <2>3. QED
    BY <2>1, <2>2
<1>7. QED
  BY <1>3, <1>6 DEF d

\* What a file that was read to its end becomes is a list of blocks.
LEMMA ParsedTyped ==
    ASSUME NEW fs, NEW fr, FrameIs(fs, fr)
    PROVE  Read!Parsed(fr) \in Seq(GoodBlocks)
<1> DEFINE lead == IF fr.global = <<>> THEN <<>> ELSE <<Defaults(fr)>>
           closed == IF fr.current = Read!NoBlock THEN fr.blocks ELSE Append(fr.blocks, fr.current)
<1>1. fr \in Frames /\ fr.blocks \in Seq(GoodBlocks)
      /\ (fr.current # Read!NoBlock => fr.current \in GoodBlocks)
  BY DEF FrameIs, Frames
<1>2. Read!Parsed(fr) = lead \o closed
  BY Zenon DEF Read!Parsed, Read!Closed, Defaults
<1>3. Defaults(fr) \in GoodBlocks
  BY <1>1, DefaultsAre
<1>4. lead \in Seq(GoodBlocks) /\ closed \in Seq(GoodBlocks)
  BY <1>1, <1>3
<1> HIDE DEF lead, closed
<1>5. QED
  BY <1>2, <1>4

\* What parseBlocks returns gives what its frame does.
LEMMA ParsedGives ==
    ASSUME NEW fs, NEW fr, FrameIs(fs, fr), NEW what \in Kinds, NEW a \in Aliases
    PROVE  /\ Read!Parsed(fr) \in Seq(GoodBlocks)
           /\ Got(what, Read!Parsed(fr), a) = FrameGot(what, fr, a)
<1> DEFINE lead == IF fr.global = <<>> THEN <<>> ELSE <<Defaults(fr)>>
           closed == IF fr.current = Read!NoBlock THEN fr.blocks ELSE Append(fr.blocks, fr.current)
<1>1. fr \in Frames /\ fr.blocks \in Seq(GoodBlocks)
      /\ (fr.current # Read!NoBlock => fr.current \in GoodBlocks)
  BY DEF FrameIs, Frames
<1>2. Read!Parsed(fr) = lead \o closed
  BY Zenon DEF Read!Parsed, Read!Closed, Defaults
<1>3. lead \in Seq(GoodBlocks) /\ Got(what, lead, a) = Default(what, fr, a)
  <2>1. CASE fr.global = <<>>
    <3>1. Default(what, fr, a) = <<>>
      BY <2>1 DEF Default
    <3>2. QED
      BY <2>1, <3>1, GotOfNone
  <2>2. CASE fr.global # <<>>
    <3>1. Defaults(fr) \in GoodBlocks /\ Pick(what, Defaults(fr), a) = Default(what, fr, a)
      BY <1>1, <2>2, DefaultsGive
    <3>2. Got(what, <<Defaults(fr)>>, a) = Pick(what, Defaults(fr), a)
      BY GotOfOne
    <3>3. QED
      BY <2>2, <3>1, <3>2
  <2>3. QED
    BY <2>1, <2>2
<1>4. closed \in Seq(GoodBlocks)
      /\ Got(what, closed, a) = Or(Got(what, fr.blocks, a), Pick(what, fr.current, a))
  <2>1. CASE fr.current = Read!NoBlock
    <3>1. Pick(what, fr.current, a) = <<>>
      BY <2>1, NoBlockGives
    <3>2. QED
      BY <1>1, <2>1, <3>1 DEF Or
  <2>2. CASE fr.current # Read!NoBlock
    BY <1>1, <2>2, GotOfMore
  <2>3. QED
    BY <2>1, <2>2
<1> HIDE DEF lead, closed
<1>5. Got(what, lead \o closed, a) = Or(Got(what, lead, a), Got(what, closed, a))
  BY <1>3, <1>4, GotOfBoth
<1>6. lead \o closed \in Seq(GoodBlocks)
  BY <1>3, <1>4
<1>7. QED
  BY <1>2, <1>3, <1>4, <1>5, <1>6 DEF FrameGot

\* The states ssh goes through in a file that is being read, at its depth.
LEMMA SshAtIs ==
    ASSUME NEW fs, FilesTyped(fs), MaxIncludeDepth \in Nat, NEW fr \in Frames,
           NEW k \in 1 .. (MaxIncludeDepth + 1), NEW what, NEW a
    PROVE  /\ \A i \in 0 .. Len(fs[fr.file]) : SshAt(fs, k, fr, i, what, a) \in States
           /\ SshAt(fs, k, fr, 0, what, a) = [scope |-> Around(fr, a), found |-> <<>>]
           /\ \A i \in 1 .. Len(fs[fr.file]) :
                 SshAt(fs, k, fr, i, what, a)
                   = LineStep(what, a, fs[fr.file][i], <<fr.file, i>>, Around(fr, a),
                              Levels(fs, what, a)[MaxIncludeDepth + 1 - k],
                              SshAt(fs, k, fr, i - 1, what, a))
<1> DEFINE within == Levels(fs, what, a)[MaxIncludeDepth + 1 - k]
           around == Around(fr, a)
           f == fr.file
<1>1. f \in Files /\ around \in Reach
  BY DEF Frames, Around, Reach
<1>2. within \in Within
  <2>1. MaxIncludeDepth + 1 - k \in 0 .. MaxIncludeDepth + 1
    OBVIOUS
  <2>2. QED
    BY <2>1, LevelsAre
<1>3. \A i : SshAt(fs, k, fr, i, what, a) = After(fs, what, a, f, around, within, i)
  BY DEF SshAt
<1> HIDE DEF within, around, f
<1>4. /\ \A i \in 0 .. Len(fs[f]) : After(fs, what, a, f, around, within, i) \in States
      /\ After(fs, what, a, f, around, within, 0) = [scope |-> around, found |-> <<>>]
      /\ \A i \in 1 .. Len(fs[f]) :
            After(fs, what, a, f, around, within, i)
              = LineStep(what, a, fs[f][i], <<f, i>>, around, within,
                         After(fs, what, a, f, around, within, i - 1))
  <2>1. \A i \in 0 .. Len(fs[f]) : After(fs, what, a, f, around, within, i) \in States
    BY <1>1, <1>2, AfterIs
  <2>2. After(fs, what, a, f, around, within, 0) = [scope |-> around, found |-> <<>>]
    BY <1>1, <1>2, AfterIs
  <2>3. \A i \in 1 .. Len(fs[f]) :
            After(fs, what, a, f, around, within, i)
              = LineStep(what, a, fs[f][i], <<f, i>>, around, within,
                         After(fs, what, a, f, around, within, i - 1))
    BY <1>1, <1>2, AfterIs
  <2>4. QED
    BY <2>1, <2>2, <2>3
<1>5. QED
  BY <1>3, <1>4 DEF within, around, f

\* To agree on what comes first and on what comes second is to agree on both.
LEMMA SameOr ==
    ASSUME NEW fs, NEW what, NEW x, NEW y, NEW p, NEW q, Same(fs, what, x, y), Same(fs, what, p, q)
    PROVE  Same(fs, what, Or(x, p), Or(y, q))
  BY DEF Same, Or

\* Frames of one file, read for the same hosts, are read alike.
LEMMA ReadAlike ==
    ASSUME NEW fs, NEW fr, NEW nf, nf.file = fr.file, nf.enclosing = fr.enclosing,
           NEW what, NEW a
    PROVE  /\ Around(nf, a) = Around(fr, a)
           /\ \A k, i : SshAt(fs, k, nf, i, what, a) = SshAt(fs, k, fr, i, what, a)
<1>1. Around(nf, a) = Around(fr, a)
  BY DEF Around
<1>2. QED
  BY <1>1 DEF SshAt

\* The line at hand, for ssh.
LEMMA NextLine ==
    ASSUME NEW fs, FilesTyped(fs), MaxIncludeDepth \in Nat, NEW fr \in Frames,
           NEW k \in 1 .. (MaxIncludeDepth + 1), NEW what \in Kinds, NEW a,
           fr.at < Len(fs[fr.file])
    PROVE  LET s == SshAt(fs, k, fr, fr.at, what, a)
               t == SshAt(fs, k, fr, fr.at + 1, what, a)
               line == fs[fr.file][fr.at + 1]
           IN  /\ s \in States
               /\ line.kind \in LineKinds
               /\ <<fr.file, fr.at + 1>> \in Lines
               /\ t = LineStep(what, a, line, <<fr.file, fr.at + 1>>, Around(fr, a),
                               Levels(fs, what, a)[MaxIncludeDepth + 1 - k], s)
<1>1. fr.file \in Files /\ fr.at \in Nat /\ Len(fs[fr.file]) \in Nat
  BY DEF Frames, FilesTyped
<1>2. fr.at + 1 \in 1 .. Len(fs[fr.file]) /\ fr.at \in 0 .. Len(fs[fr.file])
      /\ (fr.at + 1) - 1 = fr.at
  BY <1>1
<1>3. SshAt(fs, k, fr, fr.at, what, a) \in States
  BY <1>2, SshAtIs
<1>4. SshAt(fs, k, fr, fr.at + 1, what, a)
        = LineStep(what, a, fs[fr.file][fr.at + 1], <<fr.file, fr.at + 1>>, Around(fr, a),
                   Levels(fs, what, a)[MaxIncludeDepth + 1 - k],
                   SshAt(fs, k, fr, fr.at, what, a))
  <2>1. SshAt(fs, k, fr, fr.at + 1, what, a)
        = LineStep(what, a, fs[fr.file][fr.at + 1], <<fr.file, fr.at + 1>>, Around(fr, a),
                   Levels(fs, what, a)[MaxIncludeDepth + 1 - k],
                   SshAt(fs, k, fr, (fr.at + 1) - 1, what, a))
    BY <1>2, SshAtIs
  <2>2. QED
    BY <1>2, <2>1
<1>5. fs[fr.file][fr.at + 1].kind \in LineKinds
      /\ <<fr.file, fr.at + 1>> \in Lines
  BY <1>1, <1>2, LineIs
<1>6. QED
  BY <1>3, <1>4, <1>5

\* A Host or Match line: the block above is closed and another opened.
LEMMA BlockOpens ==
    ASSUME NEW fs, FilesTyped(fs), MaxIncludeDepth \in Nat, NEW fr, FrameIs(fs, fr),
           NEW k \in 1 .. (MaxIncludeDepth + 1), NEW what \in Kinds, NEW a \in Apart(fs),
           fr.at < Len(fs[fr.file]), FrameRight(fs, k, fr, fr.at, what, a),
           NEW isMatch \in BOOLEAN, NEW nf, nf.file = fr.file, nf.enclosing = fr.enclosing,
           nf.global = fr.global, nf.blocks = Read!Closed(fr),
           fs[fr.file][fr.at + 1].kind = (IF isMatch THEN "match" ELSE "host"),
           nf.current \in GoodBlocks, nf.current # Read!NoBlock, nf.current.isMatch = isMatch,
           nf.current.patterns = (IF isMatch THEN {} ELSE fs[fr.file][fr.at + 1].patterns),
           nf.current.values = <<>>, nf.current.line = <<fr.file, fr.at + 1>>,
           nf.current.enclosing = fr.enclosing
    PROVE  FrameRight(fs, k, nf, fr.at + 1, what, a)
<1> DEFINE s == SshAt(fs, k, fr, fr.at, what, a)
           t == SshAt(fs, k, fr, fr.at + 1, what, a)
           line == fs[fr.file][fr.at + 1]
           place == <<fr.file, fr.at + 1>>
           around == Around(fr, a)
           p == Pick(what, nf.current, a)
           g == Got(what, fr.blocks, a)
           c == Pick(what, fr.current, a)
           d == Default(what, fr, a)
           within == Levels(fs, what, a)[MaxIncludeDepth + 1 - k]
<1>1. fr \in Frames /\ fr.blocks \in Seq(GoodBlocks)
      /\ (fr.current # Read!NoBlock => fr.current \in GoodBlocks)
  BY DEF FrameIs, Frames
<1>2. /\ s \in States
      /\ t = LineStep(what, a, line, place, around, within, s)
      /\ place \in Lines
  BY <1>1, NextLine
<1>3. place # <<>>
  BY <1>2, LinesAreSomewhere
<1>4. Around(nf, a) = around /\ SshAt(fs, k, nf, fr.at + 1, what, a) = t
  BY ReadAlike
<1>5. s.scope = Scope(fr, a) /\ Same(fs, what, Or(d, Or(g, c)), s.found)
  BY DEF FrameRight, FrameGot
<1>6. Got(what, nf.blocks, a) = Or(g, c)
  <2>1. CASE fr.current = Read!NoBlock
    <3>1. c = <<>>
      BY <2>1, NoBlockGives
    <3>2. nf.blocks = fr.blocks
      BY <2>1 DEF Read!Closed
    <3>3. QED
      BY <3>1, <3>2 DEF Or
  <2>2. CASE fr.current # Read!NoBlock
    <3>1. nf.blocks = Append(fr.blocks, fr.current)
      BY <2>2 DEF Read!Closed
    <3>2. QED
      BY <1>1, <2>2, <3>1, GotOfMore
  <2>3. QED
    BY <2>1, <2>2
<1>7. Default(what, nf, a) = d
  BY <1>4 DEF Default
<1>8. FrameGot(what, nf, a) = Or(d, Or(Or(g, c), p))
  BY <1>6, <1>7 DEF FrameGot
<1>9. around \in {"in", "out"} /\ (around = "in" <=> Read!EnclosingMatches(fr.enclosing, a))
  BY DEF Around
<1>10. p = IF Read!Wanted(what, a, line, around, s.scope) THEN place ELSE <<>>
  <2>1. nf.current.isMatch = isMatch /\ nf.current.values = <<>> /\ nf.current.line = place
        /\ nf.current.enclosing = fr.enclosing
    OBVIOUS
  <2>2. CASE isMatch
    <3>1. line.kind = "match" /\ p = <<>>
      BY <2>1, <2>2 DEF Pick, Read!Applies
    <3>2. ~Read!Wanted(what, a, line, around, s.scope)
      BY <3>1 DEF Read!Wanted
    <3>3. QED
      BY <3>1, <3>2
  <2>3. CASE ~isMatch
    <3>1. line.kind = "host" /\ nf.current.patterns = line.patterns
      BY <2>3
    <3>2. CASE what = "value"
      <4>1. p = <<>>
        BY <2>1, <3>2 DEF Pick
      <4>2. ~Read!Wanted(what, a, line, around, s.scope)
        BY <3>1, <3>2 DEF Read!Wanted
      <4>3. QED
        BY <4>1, <4>2
    <3>3. CASE what # "value"
      <4> HIDE DEF line, place, around
      <4>1. ~nf.current.isMatch
        BY <2>1, <2>3
      <4>2. p = IF /\ Read!EnclosingMatches(fr.enclosing, a)
                   /\ \/ what = "declared" /\ Read!Alias(a) \in line.patterns
                      \/ /\ what = "defined" /\ Read!BlockMatches(line.patterns, a)
                         /\ ~Read!IsCatchAll(line.patterns)
                THEN place ELSE <<>>
        BY <2>1, <3>1, <3>3, <4>1, Zenon DEF Pick
      <4>3. Read!Wanted(what, a, line, around, s.scope)
              <=> /\ Read!EnclosingMatches(fr.enclosing, a)
                  /\ \/ what = "declared" /\ Read!Alias(a) \in line.patterns
                     \/ /\ what = "defined" /\ Read!BlockMatches(line.patterns, a)
                        /\ ~Read!IsCatchAll(line.patterns)
        BY <1>9, <3>1, <3>3, Zenon DEF Read!Wanted
      <4>4. QED
        BY <4>2, <4>3
    <3>4. QED
      BY <3>2, <3>3
  <2>4. QED
    BY <2>2, <2>3
<1>11. line.kind \in {"host", "match"}
  OBVIOUS
<1>12. t.found = Or(s.found, p)
  <2> HIDE DEF s, t, line, place, around, p, within
  <2>1. QED
    BY <1>2, <1>10, <1>11 DEF LineStep, Or
<1>13. t.scope = Scope(nf, a)
  <2>1. CASE isMatch
    <3>1. line.kind = "match"
      BY <2>1
    <3>2. ~Read!BlockMatches(line.patterns, a)
      <4>1. fr.file \in Files /\ fr.at + 1 \in DOMAIN fs[fr.file]
        BY <1>1 DEF Frames, FilesTyped
      <4>2. QED
        BY <3>1, <4>1 DEF Apart
    <3>3. t.scope = "out"
      BY <1>2, <3>1, <3>2 DEF LineStep
    <3>4. QED
      BY <2>1, <3>3 DEF Scope
  <2>2. CASE ~isMatch
    <3>1. line.kind = "host" /\ nf.current.patterns = line.patterns
      BY <2>2
    <3>2. t.scope = IF around = "in" /\ Read!BlockMatches(line.patterns, a) THEN "in" ELSE "out"
      BY <1>2, <3>1 DEF LineStep
    <3>3. QED
      BY <1>4, <2>2, <3>1, <3>2 DEF Scope
  <2>3. QED
    BY <2>1, <2>2
<1> HIDE DEF s, t, p, g, c, d
<1>14. Same(fs, what, p, p)
  BY DEF Same
<1>15. Or(d, Or(Or(g, c), p)) = Or(Or(d, Or(g, c)), p)
  BY DEF Or
<1>16. Same(fs, what, FrameGot(what, nf, a), t.found)
  BY <1>5, <1>8, <1>12, <1>14, <1>15, SameOr
<1>17. QED
  BY <1>4, <1>13, <1>16 DEF FrameRight

\* A longer list begins as it did, unless it was empty.
LEMMA HeadOfMore ==
    ASSUME NEW S, NEW s \in Seq(S), NEW x \in S
    PROVE  /\ Append(s, x) # <<>>
           /\ Head(Append(s, x)) = IF s = <<>> THEN x ELSE Head(s)
<1>1. Len(Append(s, x)) = Len(s) + 1 /\ Len(s) \in Nat /\ Append(s, x) \in Seq(S)
  OBVIOUS
<1>2. Append(s, x) # <<>> /\ Head(Append(s, x)) = Append(s, x)[1]
  BY <1>1
<1>3. CASE s = <<>>
  BY <1>2, <1>3
<1>4. CASE s # <<>>
  <2>1. 1 \in 1 .. Len(s) /\ Head(s) = s[1]
    BY <1>4
  <2>2. Append(s, x)[1] = s[1]
    BY <2>1
  <2>3. QED
    BY <1>2, <1>4, <2>1, <2>2
<1>5. QED
  BY <1>3, <1>4

\* A directive of the file itself or of its open block.
LEMMA DirectiveGiven ==
    ASSUME NEW fs, FilesTyped(fs), MaxIncludeDepth \in Nat, NEW fr, FrameIs(fs, fr),
           NEW k \in 1 .. (MaxIncludeDepth + 1), NEW what \in Kinds, NEW a \in Apart(fs),
           fr.at < Len(fs[fr.file]), FrameRight(fs, k, fr, fr.at, what, a),
           fs[fr.file][fr.at + 1].kind = "set",
           NEW nf, nf.file = fr.file, nf.enclosing = fr.enclosing, nf.blocks = fr.blocks,
           IF fr.current = Read!NoBlock
           THEN nf.current = fr.current /\ nf.global = Append(fr.global, <<fr.file, fr.at + 1>>)
           ELSE /\ nf.global = fr.global
                /\ nf.current # Read!NoBlock
                /\ nf.current.isMatch = fr.current.isMatch
                /\ nf.current.patterns = fr.current.patterns
                /\ nf.current.line = fr.current.line
                /\ nf.current.enclosing = fr.current.enclosing
                /\ nf.current.values = Append(fr.current.values, <<fr.file, fr.at + 1>>)
    PROVE  FrameRight(fs, k, nf, fr.at + 1, what, a)
<1> DEFINE s == SshAt(fs, k, fr, fr.at, what, a)
           t == SshAt(fs, k, fr, fr.at + 1, what, a)
           line == fs[fr.file][fr.at + 1]
           place == <<fr.file, fr.at + 1>>
           around == Around(fr, a)
           q == Pick(what, nf.current, a)
           g == Got(what, fr.blocks, a)
           c == Pick(what, fr.current, a)
           d == Default(what, fr, a)
           e == Default(what, nf, a)
           within == Levels(fs, what, a)[MaxIncludeDepth + 1 - k]
<1>1. /\ fr \in Frames /\ fr.blocks \in Seq(GoodBlocks) /\ fr.global \in Seq(Lines)
      /\ fr.current \in Blocks /\ fr.current.values \in Seq(Lines)
      /\ (fr.current # Read!NoBlock => fr.current.enclosing = fr.enclosing)
  BY DEF FrameIs, Frames, Blocks
<1>2. /\ s \in States
      /\ t = LineStep(what, a, line, place, around, within, s)
      /\ place \in Lines
  BY <1>1, NextLine
<1>3. place # <<>> /\ \A v \in Lines : v # <<>>
  BY <1>2, LinesAreSomewhere
<1>4. Around(nf, a) = around /\ SshAt(fs, k, nf, fr.at + 1, what, a) = t
  BY ReadAlike
<1>5. s.scope = Scope(fr, a) /\ Same(fs, what, Or(d, Or(g, c)), s.found)
  BY DEF FrameRight, FrameGot
<1>6. FrameGot(what, nf, a) = Or(e, Or(g, q))
  BY DEF FrameGot
<1>7. around \in {"in", "out"} /\ (around = "in" <=> Read!EnclosingMatches(fr.enclosing, a))
  BY DEF Around
<1>8. Scope(nf, a) = Scope(fr, a)
  <2>1. CASE fr.current = Read!NoBlock
    BY <1>4, <2>1 DEF Scope
  <2>2. CASE fr.current # Read!NoBlock
    BY <1>4, <2>2 DEF Scope
  <2>3. QED
    BY <2>1, <2>2
<1>9. t.scope = Scope(nf, a)
  <2>1. t.scope = s.scope
    BY <1>2 DEF LineStep
  <2>2. QED
    BY <1>5, <1>8, <2>1
<1>10. t.found = IF s.found = <<>> /\ what = "value" /\ Scope(fr, a) = "in" THEN place ELSE s.found
  <2>1. line.kind = "set"
    OBVIOUS
  <2>2. Read!Wanted(what, a, line, around, s.scope) <=> what = "value" /\ s.scope = "in"
    BY <2>1 DEF Read!Wanted
  <2>3. t.found = IF s.found # <<>> THEN s.found
                  ELSE IF Read!Wanted(what, a, line, around, s.scope) THEN place ELSE <<>>
    BY <1>2, <2>1 DEF LineStep
  <2> HIDE DEF s, t, line, place, around
  <2>4. QED
    BY <1>5, <2>2, <2>3
<1>11. CASE what # "value"
  <2>1. d = <<>> /\ e = <<>>
    BY <1>11 DEF Default
  <2>2. q = c
    <3>1. CASE fr.current = Read!NoBlock
      BY <3>1
    <3>2. CASE fr.current # Read!NoBlock
      BY <1>11, <3>2 DEF Pick
    <3>3. QED
      BY <3>1, <3>2
  <2>3. t.found = s.found
    BY <1>10, <1>11
  <2>4. Same(fs, what, FrameGot(what, nf, a), t.found)
    BY <1>5, <1>6, <2>1, <2>2, <2>3
  <2>5. QED
    BY <1>4, <1>9, <2>4 DEF FrameRight
<1>12. CASE what = "value"
  <2> SUFFICES ASSUME Leading(fs) PROVE FrameGot(what, nf, a) = t.found
    BY <1>4, <1>9, <1>12 DEF FrameRight, Same
  <2>1. s.found = Or(d, Or(g, c))
    BY <1>5, <1>12 DEF Same
  <2>2. CASE fr.current = Read!NoBlock
    <3>1. fr.blocks = <<>>
      <4>1. SUFFICES ASSUME fr.blocks # <<>> PROVE FALSE
        OBVIOUS
      <4>2. PICK i \in 1 .. fr.at : fs[fr.file][i].kind = "include"
        BY <2>2, <4>1 DEF FrameIs
      <4>3. fr.file \in Files /\ fr.at \in Nat /\ fs[fr.file] \in Seq(ConfigLines)
            /\ DOMAIN fs[fr.file] = 1 .. Len(fs[fr.file]) /\ Len(fs[fr.file]) \in Nat
        BY <1>1 DEF Frames, FilesTyped
      <4>4. i \in DOMAIN fs[fr.file] /\ fr.at + 1 \in DOMAIN fs[fr.file] /\ i < fr.at + 1
        BY <4>3
      <4>5. PICK j \in 1 .. (fr.at + 1) : fs[fr.file][j].kind \in {"host", "match"}
        BY <4>2, <4>3, <4>4 DEF Leading
      <4>6. j = fr.at + 1 \/ j \in 1 .. fr.at
        BY <4>3
      <4>7. QED
        BY <2>2, <4>5, <4>6 DEF FrameIs
    <3>2. g = <<>> /\ c = <<>> /\ q = <<>>
      BY <2>2, <3>1, GotOfNone, NoBlockGives
    <3>3. FrameGot(what, nf, a) = e /\ s.found = d
      BY <1>6, <2>1, <3>2 DEF Or
    <3>4. Scope(fr, a) = around
      BY <2>2 DEF Scope
    <3>5. nf.global = Append(fr.global, place) /\ nf.global # <<>>
          /\ Head(nf.global) = IF fr.global = <<>> THEN place ELSE Head(fr.global)
      <4>1. nf.global = Append(fr.global, place)
        BY <2>2
      <4>2. fr.global \in Seq(Lines) /\ place \in Lines
        BY <1>1, <1>2
      <4> HIDE DEF place
      <4>3. /\ Append(fr.global, place) # <<>>
            /\ Head(Append(fr.global, place)) = IF fr.global = <<>> THEN place ELSE Head(fr.global)
        BY <4>2, HeadOfMore
      <4>4. QED
        BY <4>1, <4>3
    <3>6. fr.global # <<>> => Head(fr.global) # <<>>
      BY <1>1, <1>3
    <3>7. e = IF around = "in" THEN Head(nf.global) ELSE <<>>
      BY <1>4, <1>12, <3>5 DEF Default
    <3>8. d = IF fr.global # <<>> /\ around = "in" THEN Head(fr.global) ELSE <<>>
      BY <1>12 DEF Default
    <3> HIDE DEF s, t, place, around, d, e
    <3>9. QED
      BY <1>10, <1>12, <3>3, <3>4, <3>5, <3>6, <3>7, <3>8
  <2>3. CASE fr.current # Read!NoBlock
    <3>1. e = d
      BY <1>4, <2>3 DEF Default
    <3>2. nf.current.values = Append(fr.current.values, place) /\ nf.current.values # <<>>
          /\ Head(nf.current.values)
               = IF fr.current.values = <<>> THEN place ELSE Head(fr.current.values)
      <4>1. nf.current.values = Append(fr.current.values, place)
        BY <2>3
      <4>2. fr.current.values \in Seq(Lines) /\ place \in Lines
        BY <1>1, <1>2
      <4> HIDE DEF place
      <4>3. /\ Append(fr.current.values, place) # <<>>
            /\ Head(Append(fr.current.values, place))
                 = IF fr.current.values = <<>> THEN place ELSE Head(fr.current.values)
        BY <4>2, HeadOfMore
      <4>4. QED
        BY <4>1, <4>3
    <3>3. fr.current.values # <<>> => Head(fr.current.values) # <<>>
      BY <1>1, <1>3
    <3>4. Read!Applies(nf.current, a) <=> Read!Applies(fr.current, a)
      BY <2>3 DEF Read!Applies
    <3>5. Read!Applies(fr.current, a) <=> Scope(fr, a) = "in"
      <4>1. fr.current.isMatch \in BOOLEAN /\ fr.current.enclosing = fr.enclosing
        BY <1>1, <2>3 DEF Blocks
      <4>2. Scope(fr, a) = IF /\ around = "in" /\ ~fr.current.isMatch
                              /\ Read!BlockMatches(fr.current.patterns, a)
                           THEN "in" ELSE "out"
        BY <2>3 DEF Scope
      <4> HIDE DEF around
      <4>3. QED
        BY <1>7, <4>1, <4>2 DEF Read!Applies
    <3>6. q = IF Scope(fr, a) = "in" THEN Head(nf.current.values) ELSE <<>>
      BY <1>12, <3>2, <3>4, <3>5 DEF Pick
    <3>7. c = IF Scope(fr, a) = "in" /\ fr.current.values # <<>>
              THEN Head(fr.current.values) ELSE <<>>
      BY <1>12, <3>5 DEF Pick
    <3> HIDE DEF s, t, place, around, d, e, c, q, g
    <3>8. QED
      BY <1>3, <1>6, <1>10, <1>12, <2>1, <3>1, <3>2, <3>3, <3>6, <3>7 DEF Or
  <2>4. QED
    BY <2>2, <2>3
<1>13. QED
  BY <1>11, <1>12

\* The Include of a frame's next line begins: the block around it is split.
LEMMA IncludeBegins ==
    ASSUME NEW fs, FilesTyped(fs), MaxIncludeDepth \in Nat, NEW fr, FrameIs(fs, fr),
           NEW k \in 1 .. (MaxIncludeDepth + 1), NEW what \in Kinds, NEW a \in Apart(fs),
           FrameRight(fs, k, fr, fr.at, what, a),
           NEW nf, nf.file = fr.file, nf.enclosing = fr.enclosing, nf.global = fr.global,
           IF fr.current # Read!NoBlock /\ fr.current.values # <<>>
           THEN /\ nf.blocks = Append(fr.blocks, fr.current)
                /\ nf.current # Read!NoBlock
                /\ nf.current.isMatch = fr.current.isMatch
                /\ nf.current.patterns = fr.current.patterns
                /\ nf.current.line = fr.current.line
                /\ nf.current.enclosing = fr.current.enclosing
                /\ nf.current.values = <<>>
           ELSE nf.blocks = fr.blocks /\ nf.current = fr.current
    PROVE  FrameRight(fs, k, nf, fr.at, what, a)
<1> DEFINE q == Pick(what, nf.current, a)
           g == Got(what, fr.blocks, a)
           c == Pick(what, fr.current, a)
           d == Default(what, fr, a)
<1>1. fr.blocks \in Seq(GoodBlocks) /\ (fr.current # Read!NoBlock => fr.current \in GoodBlocks)
  BY DEF FrameIs, Frames
<1>2. Around(nf, a) = Around(fr, a)
      /\ SshAt(fs, k, nf, fr.at, what, a) = SshAt(fs, k, fr, fr.at, what, a)
  BY ReadAlike
<1>3. Default(what, nf, a) = d
  BY <1>2 DEF Default
<1>4. CASE fr.current # Read!NoBlock /\ fr.current.values # <<>>
  <2>1. Scope(nf, a) = Scope(fr, a)
    BY <1>2, <1>4 DEF Scope
  <2>2. Got(what, nf.blocks, a) = Or(g, c)
    BY <1>1, <1>4, GotOfMore
  <2>3. q = <<>> \/ q = c
    <3>1. CASE what = "value"
      BY <1>4, <3>1 DEF Pick
    <3>2. CASE what # "value"
      BY <1>4, <3>2 DEF Pick
    <3>3. QED
      BY <3>1, <3>2
  <2>4. FrameGot(what, nf, a) = FrameGot(what, fr, a)
    <3>1. FrameGot(what, nf, a) = Or(d, Or(Or(g, c), q)) /\ FrameGot(what, fr, a) = Or(d, Or(g, c))
      BY <1>3, <2>2 DEF FrameGot
    <3> HIDE DEF d, g, c, q
    <3>2. QED
      BY <2>3, <3>1 DEF Or
  <2>5. QED
    BY <1>2, <2>1, <2>4 DEF FrameRight
<1>5. CASE ~(fr.current # Read!NoBlock /\ fr.current.values # <<>>)
  <2>1. nf.blocks = fr.blocks /\ nf.current = fr.current
    BY <1>5
  <2>2. Scope(nf, a) = Scope(fr, a) /\ FrameGot(what, nf, a) = FrameGot(what, fr, a)
    BY <1>2, <1>3, <2>1 DEF Scope, FrameGot
  <2>3. QED
    BY <1>2, <2>2 DEF FrameRight
<1>6. QED
  BY <1>4, <1>5

\* An Include of no file has been read.
LEMMA NothingRead ==
    ASSUME NEW fs, FilesTyped(fs), MaxIncludeDepth \in Nat, NEW fr, FrameIs(fs, fr),
           NEW k \in 1 .. (MaxIncludeDepth + 1), NEW what \in Kinds, NEW a \in Apart(fs),
           fr.at < Len(fs[fr.file]), fs[fr.file][fr.at + 1].kind = "nothing",
           NEW nf, nf.file = fr.file, nf.enclosing = fr.enclosing,
           FrameRight(fs, k, nf, fr.at, what, a)
    PROVE  FrameRight(fs, k, nf, fr.at + 1, what, a)
<1> DEFINE s == SshAt(fs, k, fr, fr.at, what, a)
           t == SshAt(fs, k, fr, fr.at + 1, what, a)
           line == fs[fr.file][fr.at + 1]
           place == <<fr.file, fr.at + 1>>
           around == Around(fr, a)
           within == Levels(fs, what, a)[MaxIncludeDepth + 1 - k]
<1>1. fr \in Frames
  BY DEF FrameIs
<1>2. t = LineStep(what, a, line, place, around, within, s)
  BY <1>1, NextLine
<1>3. line.kind = "nothing"
  OBVIOUS
<1>4. SshAt(fs, k, nf, fr.at, what, a) = s /\ SshAt(fs, k, nf, fr.at + 1, what, a) = t
  BY ReadAlike
<1> HIDE DEF s, t, line, place, around, within
<1>5. t.scope = s.scope
  BY <1>2, <1>3 DEF LineStep
<1>6. t.found = s.found
  <2>1. ~Read!Wanted(what, a, line, around, s.scope)
    BY <1>3 DEF Read!Wanted
  <2>2. QED
    BY <1>2, <1>3, <2>1 DEF LineStep
<1>7. QED
  BY <1>4, <1>5, <1>6 DEF FrameRight

\* A file begins.
LEMMA FileBegins ==
    ASSUME NEW fs, FilesTyped(fs), MaxIncludeDepth \in Nat, NEW fr \in Frames,
           NEW k \in 1 .. (MaxIncludeDepth + 1), NEW what \in Kinds, NEW a \in Apart(fs),
           fr.blocks = <<>>, fr.global = <<>>, fr.current = Read!NoBlock
    PROVE  FrameRight(fs, k, fr, 0, what, a)
<1>1. SshAt(fs, k, fr, 0, what, a) = [scope |-> Around(fr, a), found |-> <<>>]
  BY SshAtIs
<1>2. Scope(fr, a) = Around(fr, a)
  BY DEF Scope
<1>3. FrameGot(what, fr, a) = <<>>
  <2>1. Default(what, fr, a) = <<>>
    BY DEF Default
  <2>2. QED
    BY <2>1, GotOfNone, NoBlockGives DEF FrameGot, Or
<1>4. QED
  BY <1>1, <1>2, <1>3 DEF FrameRight, Same

\* No Match block is open at an Include, for such a host.
LEMMA NoMatchAbove ==
    ASSUME NEW fs, FilesTyped(fs), NEW fr, FrameIs(fs, fr), fr.at # 0,
           fs[fr.file][fr.at].kind = "include", NEW a \in Apart(fs)
    PROVE  ~fr.current.isMatch
<1> DEFINE f == fr.file
           n == fr.at
<1>1. f \in Files /\ n \in Nat /\ n # 0 /\ n <= Len(fs[f]) /\ fs[f] \in Seq(ConfigLines)
      /\ fs[f][n].kind = "include"
  BY DEF FrameIs, Frames, FilesTyped
<1> SUFFICES ASSUME fr.current.isMatch PROVE FALSE
  OBVIOUS
<1>2. PICK i \in 1 .. n : fs[f][i].kind = "match" /\ \A j \in (i + 1) .. n : fs[f][j].kind # "host"
  BY DEF FrameIs
<1> HIDE DEF f, n
<1>3. i \in DOMAIN fs[f] /\ n \in i .. Len(fs[f])
  BY <1>1
<1>4. PICK k \in i .. n : fs[f][k].kind = "host"
  BY <1>1, <1>2, <1>3 DEF Apart
<1>5. k = i \/ k \in (i + 1) .. n
  BY <1>1
<1>6. QED
  BY <1>2, <1>4, <1>5

\* What an Include is read inside, for a host.
LEMMA AroundInner ==
    ASSUME NEW fs, NEW fr, FrameIs(fs, fr), NEW next, next.enclosing = Read!Inner(fr), NEW a,
           ~fr.current.isMatch
    PROVE  Around(next, a) = Scope(fr, a)
<1>1. fr.enclosing \in Seq(SUBSET Patterns) /\ fr.current \in Blocks
      /\ fr.current.isMatch \in BOOLEAN /\ fr.current.patterns \in SUBSET Patterns
  BY DEF FrameIs, Frames, Blocks
<1>2. CASE fr.current # Read!NoBlock
  <2> DEFINE e == fr.enclosing
             p == fr.current.patterns
             n == Len(e)
  <2>1. next.enclosing = Append(e, p)
    BY <1>2 DEF Read!Inner
  <2>2. n \in Nat /\ DOMAIN Append(e, p) = 1 .. n + 1 /\ Append(e, p)[n + 1] = p
        /\ DOMAIN e = 1 .. n /\ \A i \in 1 .. n : Append(e, p)[i] = e[i]
    BY <1>1
  <2>3. Read!EnclosingMatches(Append(e, p), a)
          <=> Read!EnclosingMatches(e, a) /\ Read!BlockMatches(p, a)
    <3> HIDE DEF e, p, n
    <3>1. ASSUME \A i \in 1 .. n + 1 : Read!BlockMatches(Append(e, p)[i], a)
          PROVE  (\A i \in 1 .. n : Read!BlockMatches(e[i], a)) /\ Read!BlockMatches(p, a)
      <4>1. \A i \in 1 .. n : i \in 1 .. n + 1
        BY <2>2
      <4>2. n + 1 \in 1 .. n + 1
        BY <2>2
      <4>3. QED
        BY <2>2, <3>1, <4>1, <4>2
    <3>2. ASSUME (\A i \in 1 .. n : Read!BlockMatches(e[i], a)) /\ Read!BlockMatches(p, a)
          PROVE  \A i \in 1 .. n + 1 : Read!BlockMatches(Append(e, p)[i], a)
      <4>1. \A i \in 1 .. n + 1 : i \in 1 .. n \/ i = n + 1
        BY <2>2
      <4>2. QED
        BY <2>2, <3>2, <4>1
    <3>3. QED
      BY <2>2, <3>1, <3>2 DEF Read!EnclosingMatches
  <2>4. QED
    BY <1>2, <2>1, <2>3 DEF Around, Scope
<1>3. CASE fr.current = Read!NoBlock
  <2>1. next.enclosing = fr.enclosing
    BY <1>3 DEF Read!Inner
  <2>2. QED
    BY <1>3, <2>1 DEF Around, Scope
<1>4. QED
  BY <1>2, <1>3

\* An included file has been read: its blocks follow those of what includes it.
LEMMA IncludeEnds ==
    ASSUME NEW fs, FilesTyped(fs), MaxIncludeDepth \in Nat, NEW fr, FrameIs(fs, fr),
           NEW next, FrameIs(fs, next), Below(fs, fr, next),
           NEW k \in 1 .. MaxIncludeDepth, NEW what \in Kinds, NEW a \in Apart(fs),
           FrameRight(fs, k, fr, fr.at - 1, what, a),
           FrameRight(fs, k + 1, next, Len(fs[next.file]), what, a),
           NEW nf, nf.file = fr.file, nf.enclosing = fr.enclosing, nf.global = fr.global,
           nf.current = fr.current, nf.blocks = fr.blocks \o Read!Parsed(next)
    PROVE  FrameRight(fs, k, nf, fr.at, what, a)
<1> DEFINE s == SshAt(fs, k, fr, fr.at - 1, what, a)
           t == SshAt(fs, k, fr, fr.at, what, a)
           u == SshAt(fs, k + 1, next, Len(fs[next.file]), what, a)
           line == fs[fr.file][fr.at]
           place == <<fr.file, fr.at>>
           around == Around(fr, a)
           within == Levels(fs, what, a)[MaxIncludeDepth + 1 - k]
           g == Got(what, fr.blocks, a)
           h == FrameGot(what, next, a)
           c == Pick(what, fr.current, a)
           d == Default(what, fr, a)
<1>1. /\ fr \in Frames /\ fr.blocks \in Seq(GoodBlocks) /\ next \in Frames
      /\ fr.file \in Files /\ fr.at \in 1 .. Len(fs[fr.file]) /\ next.file \in Files
  BY DEF FrameIs, Frames, Below, FilesTyped
<1>2. k \in 1 .. (MaxIncludeDepth + 1) /\ MaxIncludeDepth - k \in 0 .. MaxIncludeDepth
      /\ (MaxIncludeDepth - k) + 1 = MaxIncludeDepth + 1 - k
      /\ MaxIncludeDepth + 1 - (k + 1) = MaxIncludeDepth - k
      /\ fr.at - 1 \in 0 .. Len(fs[fr.file])
  <2>1. Len(fs[fr.file]) \in Nat
    BY <1>1 DEF FilesTyped
  <2> DEFINE n == Len(fs[fr.file])
             i == fr.at
  <2>2. n \in Nat /\ i \in 1 .. n
    BY <1>1, <2>1
  <2> HIDE DEF n, i
  <2>3. i - 1 \in 0 .. n
    BY <2>2
  <2>4. fr.at - 1 \in 0 .. Len(fs[fr.file])
    BY <2>3 DEF n, i
  <2>5. k \in 1 .. (MaxIncludeDepth + 1) /\ MaxIncludeDepth - k \in 0 .. MaxIncludeDepth
    OBVIOUS
  <2>6. /\ (MaxIncludeDepth - k) + 1 = MaxIncludeDepth + 1 - k
        /\ MaxIncludeDepth + 1 - (k + 1) = MaxIncludeDepth - k
    OBVIOUS
  <2>7. QED
    BY <2>4, <2>5, <2>6, Zenon
<1>3. s \in States /\ t = LineStep(what, a, line, place, around, within, s)
  <2>1. s \in States
    BY <1>1, <1>2, SshAtIs
  <2>2. t = LineStep(what, a, line, place, around, within, s)
    BY <1>1, <1>2, SshAtIs
  <2>3. QED
    BY <2>1, <2>2
<1>4. /\ Around(nf, a) = around /\ SshAt(fs, k, nf, fr.at, what, a) = t
  BY ReadAlike
<1>5. /\ s.scope = Scope(fr, a) /\ Same(fs, what, Or(d, Or(g, c)), s.found)
      /\ Same(fs, what, h, u.found)
  BY DEF FrameRight, FrameGot
<1>6. line.kind = "include" /\ line.file = next.file
  BY DEF Below
<1>7. t.scope = s.scope
  BY <1>3, <1>6 DEF LineStep
<1>8. u.found = within[<<line.file, s.scope>>]
  <2>1. Around(next, a) = s.scope
    <3>1. ~fr.current.isMatch
      BY NoMatchAbove DEF Below
    <3>2. QED
      BY <1>5, <3>1, AroundInner DEF Below
  <2>2. Around(next, a) \in Reach
    BY DEF Around, Reach
  <2>3. within = Levels(fs, what, a)[(MaxIncludeDepth - k) + 1]
    BY <1>2
  <2>4. Levels(fs, what, a)[(MaxIncludeDepth - k) + 1][<<next.file, Around(next, a)>>]
          = After(fs, what, a, next.file, Around(next, a), Levels(fs, what, a)[MaxIncludeDepth - k],
                  Len(fs[next.file])).found
    <3> DEFINE l == MaxIncludeDepth - k
               r == Around(next, a)
    <3>1. l \in 0 .. MaxIncludeDepth /\ r \in Reach
      BY <1>2, <2>2
    <3> HIDE DEF l, r
    <3>2. QED
      BY <1>1, <3>1, LevelsAre DEF l, r
  <2>5. u = After(fs, what, a, next.file, Around(next, a), Levels(fs, what, a)[MaxIncludeDepth - k],
                  Len(fs[next.file]))
    BY <1>2 DEF SshAt
  <2> HIDE DEF u, within, around, s, line
  <2>6. QED
    BY <1>6, <2>1, <2>3, <2>4, <2>5
<1>9. ~Read!Wanted(what, a, line, around, s.scope)
  BY <1>6 DEF Read!Wanted
<1>10. t.found = Or(s.found, u.found)
  <2>1. t.found = IF s.found # <<>> THEN s.found
                  ELSE within[<<line.file, s.scope>>]
    <3> HIDE DEF s, line, place, around, within, t
    <3>1. QED
      BY <1>3, <1>6, <1>9 DEF LineStep
  <2>2. QED
    BY <1>8, <2>1 DEF Or
<1>11. Scope(nf, a) = Scope(fr, a) /\ Default(what, nf, a) = d
  BY <1>4 DEF Scope, Default
<1>12. Got(what, nf.blocks, a) = Or(g, h)
  <2>1. Read!Parsed(next) \in Seq(GoodBlocks) /\ Got(what, Read!Parsed(next), a) = h
    BY ParsedGives DEF Apart
  <2>2. QED
    BY <1>1, <2>1, GotOfBoth
<1>13. FrameGot(what, nf, a) = Or(d, Or(Or(g, h), c))
  BY <1>11, <1>12 DEF FrameGot
<1>14. what = "value" => c = <<>>
  BY DEF Below, Pick
<1>15. Same(fs, what, Or(d, Or(Or(g, h), c)), Or(Or(d, Or(g, c)), h))
  <2> HIDE DEF d, g, h, c
  <2>1. QED
    BY <1>14 DEF Same, Or
<1> HIDE DEF s, t, u, g, h, c, d
<1>16. Same(fs, what, Or(Or(d, Or(g, c)), h), Or(s.found, u.found))
  BY <1>5, SameOr
<1>17. Same(fs, what, FrameGot(what, nf, a), t.found)
  BY <1>10, <1>13, <1>15, <1>16 DEF Same
<1>18. QED
  BY <1>4, <1>5, <1>7, <1>11, <1>17 DEF FrameRight

\* One of the paths has been read.
LEMMA PathEnds ==
    ASSUME NEW fs, FilesTyped(fs), MaxIncludeDepth \in Nat, Paths \in Seq(Files),
           NEW fr, FrameIs(fs, fr), fr.enclosing = <<>>,
           NEW m \in 1 .. Len(Paths), fr.file = Paths[m],
           NEW bs \in Seq(GoodBlocks), NEW what \in Kinds, NEW a \in Apart(fs),
           FrameRight(fs, 1, fr, Len(fs[fr.file]), what, a),
           Same(fs, what, Got(what, bs, a), PathsFound(fs, what, a, m - 1))
    PROVE  Same(fs, what, Got(what, bs \o Read!Parsed(fr), a), PathsFound(fs, what, a, m))
<1> DEFINE u == SshAt(fs, 1, fr, Len(fs[fr.file]), what, a)
           h == FrameGot(what, fr, a)
<1>1. fr \in Frames /\ fr.file \in Files
  BY DEF FrameIs, Frames
<1>2. Around(fr, a) = "in"
  BY DEF Around, Read!EnclosingMatches
<1>3. u.found = Levels(fs, what, a)[MaxIncludeDepth + 1][<<Paths[m], "in">>]
  <2>1. "in" \in Reach /\ MaxIncludeDepth \in 0 .. MaxIncludeDepth
    BY DEF Reach
  <2>2. Levels(fs, what, a)[MaxIncludeDepth + 1][<<fr.file, "in">>]
          = After(fs, what, a, fr.file, "in", Levels(fs, what, a)[MaxIncludeDepth],
                  Len(fs[fr.file])).found
    BY <1>1, <2>1, LevelsAre
  <2>3. MaxIncludeDepth + 1 - 1 = MaxIncludeDepth
    OBVIOUS
  <2>4. u = After(fs, what, a, fr.file, "in", Levels(fs, what, a)[MaxIncludeDepth],
                  Len(fs[fr.file]))
    BY <1>2, <2>3 DEF SshAt
  <2>5. QED
    BY <2>2, <2>4
<1>4. PathsFound(fs, what, a, m) = Or(PathsFound(fs, what, a, m - 1), u.found)
  BY <1>3, PathsAre
<1>5. Read!Parsed(fr) \in Seq(GoodBlocks) /\ Got(what, Read!Parsed(fr), a) = h
  BY ParsedGives DEF Apart
<1>6. Got(what, bs \o Read!Parsed(fr), a) = Or(Got(what, bs, a), h)
  BY <1>5, GotOfBoth
<1>7. Same(fs, what, h, u.found)
  BY DEF FrameRight
<1> HIDE DEF u, h
<1>8. QED
  BY <1>4, <1>6, <1>7, SameOr

-----------------------------------------------------------------------------
(* What each line makes of the innermost frame.                            *)

Onward(fr) == [fr EXCEPT !.at = @ + 1]

Opened(fr, patterns, isMatch) ==
    Onward([fr EXCEPT !.blocks = Read!Closed(fr),
                      !.current = Read!Block(patterns, isMatch, <<fr.file, fr.at + 1>>,
                                             fr.enclosing)])

Given(fr) ==
    Onward(IF fr.current = Read!NoBlock
           THEN [fr EXCEPT !.global = Append(@, <<fr.file, fr.at + 1>>)]
           ELSE [fr EXCEPT !.current.values = Append(@, <<fr.file, fr.at + 1>>)])

Including(fr) == Onward(Read!Split(fr))

Included(fr, next) == [fr EXCEPT !.blocks = @ \o Read!Parsed(next)]

\* To go on to the next line changes nothing else.
LEMMA OnwardIs ==
    ASSUME NEW fs, NEW fr \in Frames
    PROVE  /\ Onward(fr) \in Frames
           /\ Onward(fr).at = fr.at + 1 /\ Onward(fr).file = fr.file
           /\ Onward(fr).enclosing = fr.enclosing /\ Onward(fr).blocks = fr.blocks
           /\ Onward(fr).global = fr.global /\ Onward(fr).current = fr.current
<1>1. /\ fr.file \in Files /\ fr.at \in Nat /\ fr.enclosing \in Seq(SUBSET Patterns)
      /\ fr.blocks \in Seq(GoodBlocks) /\ fr.global \in Seq(Lines) /\ fr.current \in Blocks
  BY DEF Frames
<1> DEFINE at == fr.at + 1
<1>2. at \in Nat
  BY <1>1
<1>3. Onward(fr) = [fr EXCEPT !.at = at]
  BY DEF Onward
<1> HIDE DEF at
<1>4. Onward(fr) \in Frames
  BY <1>2, <1>3 DEF Frames
<1>5. /\ Onward(fr).at = at /\ Onward(fr).file = fr.file
      /\ Onward(fr).enclosing = fr.enclosing /\ Onward(fr).blocks = fr.blocks
      /\ Onward(fr).global = fr.global /\ Onward(fr).current = fr.current
  BY <1>3 DEF Frames
<1>6. QED
  BY <1>4, <1>5 DEF at

\* Closing the open block leaves a list of blocks.
LEMMA ClosedIs ==
    ASSUME NEW fs, NEW fr, FrameIs(fs, fr)
    PROVE  Read!Closed(fr) \in Seq(GoodBlocks)
<1>1. fr.blocks \in Seq(GoodBlocks) /\ (fr.current # Read!NoBlock => fr.current \in GoodBlocks)
  BY DEF FrameIs, Frames
<1>2. QED
  BY <1>1 DEF Read!Closed

\* No open block is a block without values.
LEMMA NoBlockIs ==
    /\ Read!NoBlock \in Blocks /\ Read!NoBlock.values = <<>> /\ Read!NoBlock.line = <<>>
<1>1. <<>> \in Places /\ <<>> \in Seq(Lines) /\ <<>> \in Seq(SUBSET Patterns)
  BY DEF Places
<1>2. QED
  BY <1>1 DEF Read!NoBlock, Blocks

\* A frame may be on to its next line, if that is none that opens a block.
LEMMA GoesOn ==
    ASSUME NEW fs, FilesTyped(fs), NEW fr, FrameIs(fs, fr), fr.at < Len(fs[fr.file]),
           fs[fr.file][fr.at + 1].kind \notin {"host", "match"},
           NEW nf \in Frames, nf.file = fr.file, nf.enclosing = fr.enclosing,
           nf.at = fr.at + 1,
           IF fr.current = Read!NoBlock
           THEN nf.current = fr.current /\ nf.blocks = fr.blocks
           ELSE /\ nf.current # Read!NoBlock
                /\ nf.current.isMatch = fr.current.isMatch
                /\ nf.current.patterns = fr.current.patterns
                /\ nf.current.line = fr.current.line
                /\ nf.current.enclosing = fr.current.enclosing
    PROVE  FrameIs(fs, nf)
<1>1. fr \in Frames /\ fr.at \in Nat /\ Len(fs[fr.file]) \in Nat
  BY DEF FrameIs, Frames, FilesTyped
<1>2. nf.at <= Len(fs[nf.file]) /\ 1 .. nf.at = (1 .. fr.at) \union {fr.at + 1}
  BY <1>1
<1>3. CASE fr.current = Read!NoBlock
  <2>1. /\ \A i \in 1 .. fr.at : fs[fr.file][i].kind \notin {"host", "match"}
        /\ fr.blocks # <<>> => \E i \in 1 .. fr.at : fs[fr.file][i].kind = "include"
    BY <1>3 DEF FrameIs
  <2>2. nf.current = Read!NoBlock /\ nf.blocks = fr.blocks
    BY <1>3
  <2>3. \A i \in 1 .. nf.at : fs[nf.file][i].kind \notin {"host", "match"}
    BY <1>2, <2>1
  <2>4. nf.blocks # <<>> => \E i \in 1 .. nf.at : fs[nf.file][i].kind = "include"
    BY <1>2, <2>1, <2>2
  <2>5. ~nf.current.isMatch
    BY <2>2 DEF Read!NoBlock
  <2>6. QED
    BY <1>2, <2>2, <2>3, <2>4, <2>5 DEF FrameIs
<1>4. CASE fr.current # Read!NoBlock
  <2>1. nf.current \in Blocks
    BY DEF Frames
  <2>2. fr.current \in GoodBlocks /\ fr.current.line \in Lines
        /\ fr.current.enclosing = fr.enclosing
    BY <1>4 DEF FrameIs
  <2>3. nf.current \in GoodBlocks
    BY <1>4, <2>1, <2>2 DEF GoodBlocks
  <2>4. ASSUME nf.current.isMatch
        PROVE  \E i \in 1 .. nf.at : /\ fs[nf.file][i].kind = "match"
                                     /\ \A j \in (i + 1) .. nf.at : fs[nf.file][j].kind # "host"
    <3>1. PICK i \in 1 .. fr.at : /\ fs[fr.file][i].kind = "match"
                                 /\ \A j \in (i + 1) .. fr.at : fs[fr.file][j].kind # "host"
      BY <1>4, <2>4 DEF FrameIs
    <3>2. i \in 1 .. nf.at /\ \A j \in (i + 1) .. nf.at : j \in (i + 1) .. fr.at \/ j = fr.at + 1
      BY <1>1
    <3>3. QED
      BY <3>1, <3>2
  <2>5. QED
    BY <1>2, <1>4, <2>2, <2>3, <2>4 DEF FrameIs
<1>5. QED
  BY <1>3, <1>4

\* nf is a frame that has opened such a block at the line of fr.
IsOpened(fs, fr, nf, patterns, isMatch, place) ==
    /\ FrameIs(fs, nf)
    /\ nf.at = fr.at + 1 /\ nf.file = fr.file /\ nf.enclosing = fr.enclosing
    /\ nf.global = fr.global /\ nf.blocks = Read!Closed(fr)
    /\ nf.current \in GoodBlocks /\ nf.current # Read!NoBlock
    /\ nf.current.isMatch = isMatch /\ nf.current.patterns = patterns
    /\ nf.current.values = <<>> /\ nf.current.line = place
    /\ nf.current.enclosing = fr.enclosing

\* A Host or Match line closes the open block and opens its own.
LEMMA OpenedIs ==
    ASSUME NEW fs, FilesTyped(fs), NEW fr, FrameIs(fs, fr), fr.at < Len(fs[fr.file]),
           NEW isMatch \in BOOLEAN, NEW patterns \in SUBSET Patterns,
           ~isMatch => patterns # {},
           isMatch => fs[fr.file][fr.at + 1].kind = "match",
           NEW place, place = <<fr.file, fr.at + 1>>
    PROVE  IsOpened(fs, fr, Opened(fr, patterns, isMatch), patterns, isMatch, place)
<1> DEFINE b == Read!Block(patterns, isMatch, place, fr.enclosing)
           bs == Read!Closed(fr)
           mf == [fr EXCEPT !.blocks = bs, !.current = b]
           nf == Opened(fr, patterns, isMatch)
<1>1. fr \in Frames /\ fr.file \in Files /\ fr.at \in Nat /\ Len(fs[fr.file]) \in Nat
      /\ fr.enclosing \in Seq(SUBSET Patterns)
  BY DEF FrameIs, Frames, FilesTyped
<1>2. place \in Lines /\ place \in Places /\ place # <<>>
  <2>1. place \in Lines
    BY <1>1 DEF Lines
  <2>2. QED
    BY <2>1, LinesAreSomewhere DEF Places
<1>3. /\ b.isMatch = isMatch /\ b.patterns = patterns /\ b.values = <<>> /\ b.line = place
      /\ b.enclosing = fr.enclosing /\ b \in Blocks
  <2>1. <<>> \in Seq(Lines)
    OBVIOUS
  <2>2. QED
    BY <1>1, <1>2, <2>1 DEF Read!Block, Blocks
<1> HIDE DEF b
<1>4. b \in GoodBlocks
  BY <1>2, <1>3 DEF GoodBlocks
<1>5. b # Read!NoBlock
  BY <1>2, <1>3, NoBlockIs
<1>6. bs \in Seq(GoodBlocks)
  BY ClosedIs
<1> HIDE DEF bs
<1>7. /\ mf \in Frames /\ mf.file = fr.file /\ mf.enclosing = fr.enclosing /\ mf.at = fr.at
      /\ mf.global = fr.global /\ mf.blocks = bs /\ mf.current = b
  <2>1. b \in Blocks
    BY <1>3
  <2>2. QED
    BY <1>1, <1>6, <2>1 DEF Frames
<1>8. nf = Onward(mf)
  BY Zenon DEF Opened, b, bs
<1> HIDE DEF mf, nf
<1>9. /\ nf \in Frames /\ nf.file = fr.file /\ nf.enclosing = fr.enclosing /\ nf.at = fr.at + 1
      /\ nf.global = fr.global /\ nf.blocks = bs /\ nf.current = b
  BY <1>7, <1>8, OnwardIs
<1>10. nf.at <= Len(fs[nf.file])
  BY <1>1, <1>9
<1>11. ASSUME nf.current.isMatch
       PROVE  \E i \in 1 .. nf.at : /\ fs[nf.file][i].kind = "match"
                                    /\ \A j \in (i + 1) .. nf.at : fs[nf.file][j].kind # "host"
  <2>1. nf.at \in 1 .. nf.at /\ (nf.at + 1) .. nf.at = {}
    BY <1>1, <1>9
  <2>2. fs[nf.file][nf.at].kind = "match"
    BY <1>3, <1>9, <1>11
  <2>3. QED
    BY <2>1, <2>2
<1>12. FrameIs(fs, nf)
  BY <1>2, <1>3, <1>4, <1>5, <1>9, <1>10, <1>11 DEF FrameIs
<1>13. QED
  BY <1>3, <1>4, <1>5, <1>9, <1>12 DEF nf, bs, IsOpened

\* A value goes to the open block, or to the defaults when there is none.
LEMMA GivenIs ==
    ASSUME NEW fs, FilesTyped(fs), NEW fr, FrameIs(fs, fr), fr.at < Len(fs[fr.file]),
           fs[fr.file][fr.at + 1].kind = "set"
    PROVE  LET nf == Given(fr)
               place == <<fr.file, fr.at + 1>>
           IN  /\ FrameIs(fs, nf)
               /\ nf.at = fr.at + 1 /\ nf.file = fr.file /\ nf.enclosing = fr.enclosing
               /\ nf.blocks = fr.blocks
               /\ IF fr.current = Read!NoBlock
                  THEN nf.current = fr.current /\ nf.global = Append(fr.global, place)
                  ELSE /\ nf.global = fr.global
                       /\ nf.current # Read!NoBlock
                       /\ nf.current.isMatch = fr.current.isMatch
                       /\ nf.current.patterns = fr.current.patterns
                       /\ nf.current.line = fr.current.line
                       /\ nf.current.enclosing = fr.current.enclosing
                       /\ nf.current.values = Append(fr.current.values, place)
<1> DEFINE place == <<fr.file, fr.at + 1>>
           nf == Given(fr)
<1>1. /\ fr \in Frames /\ fr.file \in Files /\ fr.at \in Nat
      /\ fr.global \in Seq(Lines) /\ fr.current \in Blocks /\ fr.current.values \in Seq(Lines)
  BY DEF FrameIs, Frames, Blocks
<1>2. place \in Lines
  BY <1>1 DEF Lines
<1> HIDE DEF place
<1>3. CASE fr.current = Read!NoBlock
  <2> DEFINE more == Append(fr.global, place)
             mf == [fr EXCEPT !.global = more]
  <2>1. more \in Seq(Lines)
    BY <1>1, <1>2
  <2>2. nf = Onward(mf)
    BY <1>3, Zenon DEF Given, place
  <2> HIDE DEF more
  <2>3. /\ mf \in Frames /\ mf.file = fr.file /\ mf.enclosing = fr.enclosing /\ mf.at = fr.at
        /\ mf.global = more /\ mf.blocks = fr.blocks /\ mf.current = fr.current
    BY <1>1, <2>1 DEF Frames
  <2> HIDE DEF mf, nf
  <2>4. /\ nf \in Frames /\ nf.file = fr.file /\ nf.enclosing = fr.enclosing /\ nf.at = fr.at + 1
        /\ nf.global = more /\ nf.blocks = fr.blocks /\ nf.current = fr.current
    BY <2>2, <2>3, OnwardIs
  <2>5. FrameIs(fs, nf)
    BY <1>3, <2>4, GoesOn
  <2>6. QED
    BY <1>3, <2>4, <2>5 DEF nf, more, place
<1>4. CASE fr.current # Read!NoBlock
  <2> DEFINE b == fr.current
             more == Append(b.values, place)
             c == [b EXCEPT !.values = more]
             mf == [fr EXCEPT !.current = c]
  <2>1. more \in Seq(Lines)
    BY <1>1, <1>2
  <2>2. nf = Onward(mf)
    BY <1>4 DEF Given, place
  <2> HIDE DEF more
  <2>3. /\ c \in Blocks /\ c.values = more /\ c.isMatch = b.isMatch
        /\ c.patterns = b.patterns /\ c.line = b.line /\ c.enclosing = b.enclosing
    BY <1>1, <2>1 DEF Blocks
  <2> HIDE DEF c
  <2>4. c # Read!NoBlock
    <3>1. b.line \in Lines
      BY <1>4 DEF FrameIs
    <3>2. QED
      BY <2>3, <3>1, LinesAreSomewhere, NoBlockIs
  <2>5. /\ mf \in Frames /\ mf.file = fr.file /\ mf.enclosing = fr.enclosing /\ mf.at = fr.at
        /\ mf.global = fr.global /\ mf.blocks = fr.blocks /\ mf.current = c
    BY <1>1, <2>3 DEF Frames
  <2> HIDE DEF mf, nf
  <2>6. /\ nf \in Frames /\ nf.file = fr.file /\ nf.enclosing = fr.enclosing /\ nf.at = fr.at + 1
        /\ nf.global = fr.global /\ nf.blocks = fr.blocks /\ nf.current = c
    BY <2>2, <2>5, OnwardIs
  <2>7. FrameIs(fs, nf)
    BY <1>4, <2>3, <2>4, <2>6, GoesOn
  <2>8. QED
    BY <1>4, <2>3, <2>4, <2>6, <2>7 DEF nf, more, place
<1>5. QED
  BY <1>3, <1>4

-----------------------------------------------------------------------------
(* What each step makes of the stack.                                      *)

\* The file that is being read is the last of the stack.
LEMMA TopIs ==
    ASSUME NEW fs, NEW st, StackIs(fs, st), st # <<>>
    PROVE  /\ Len(st) \in 1 .. (MaxIncludeDepth + 1) /\ Len(st) \in Nat
           /\ FrameIs(fs, st[Len(st)]) /\ st[Len(st)] \in Frames
           /\ 1 \in 1 .. Len(st) /\ Len(st) \in 1 .. Len(st)
<1>1. st \in Seq(Frames) /\ Len(st) <= MaxIncludeDepth + 1
  BY DEF StackIs
<1>2. Len(st) \in Nat /\ Len(st) # 0
  BY <1>1
<1>3. Len(st) \in 1 .. Len(st) /\ 1 \in 1 .. Len(st)
  BY <1>2
<1>4. MaxIncludeDepth \in Nat
  BY ReadAssumption
<1>5. QED
  BY <1>1, <1>2, <1>3, <1>4 DEF StackIs, FrameIs

\* What happens to it leaves the files that include it alone.
LEMMA TopReplaced ==
    ASSUME NEW fs, NEW st, StackIs(fs, st), st # <<>>, NEW nf, FrameIs(fs, nf),
           nf.file = st[Len(st)].file, nf.enclosing = st[Len(st)].enclosing
    PROVE  LET t == [st EXCEPT ![Len(st)] = nf]
           IN  /\ t # <<>> /\ Len(t) = Len(st) /\ t[Len(st)] = nf
               /\ \A k \in 1 .. (Len(st) - 1) : t[k] = st[k]
               /\ \A k \in 1 .. Len(st) : t[k].file = st[k].file
               /\ t[1].enclosing = st[1].enclosing
               /\ StackIs(fs, t)
<1> DEFINE n == Len(st)
           t == [st EXCEPT ![n] = nf]
<1>1. n \in 1 .. (MaxIncludeDepth + 1) /\ n \in Nat /\ n \in 1 .. n /\ 1 \in 1 .. n
  BY TopIs
<1>2. st \in Seq(Frames) /\ nf \in Frames
  BY DEF StackIs, FrameIs
<1>3. t \in Seq(Frames) /\ Len(t) = n /\ t[n] = nf /\ \A k \in 1 .. n : k # n => t[k] = st[k]
  BY <1>1, <1>2
<1> HIDE DEF t
<1>4. t # <<>>
  BY <1>1, <1>3
<1>5. \A k \in 1 .. n : FrameIs(fs, t[k])
  BY <1>3 DEF StackIs
<1>6. \A k \in 1 .. (n - 1) : t[k] = st[k] /\ k \in 1 .. n /\ k + 1 \in 1 .. n
  BY <1>1, <1>3
<1>7. \A k \in 1 .. n : t[k].file = st[k].file /\ t[k].enclosing = st[k].enclosing
  BY <1>3
<1>8. ASSUME NEW k \in 1 .. (n - 1) PROVE Below(fs, t[k], t[k + 1])
  <2>1. Below(fs, st[k], st[k + 1])
    BY DEF StackIs
  <2>2. t[k + 1].file = st[k + 1].file /\ t[k + 1].enclosing = st[k + 1].enclosing /\ t[k] = st[k]
    BY <1>6, <1>7
  <2>3. QED
    BY <2>1, <2>2 DEF Below
<1>9. StackIs(fs, t)
  BY <1>3, <1>5, <1>8 DEF StackIs
<1>10. QED
  BY <1>1, <1>3, <1>4, <1>6, <1>7, <1>9 DEF t

\* The innermost frame is on to its next line, which is no Include of a file.
LEMMA ReadsOn ==
    ASSUME NEW fs, NEW st, NEW un, NEW bs, Reads(fs, st, un, bs), st # <<>>,
           NEW nf, FrameIs(fs, nf), nf.file = st[Len(st)].file,
           nf.enclosing = st[Len(st)].enclosing, nf.at = st[Len(st)].at + 1,
           fs[nf.file][nf.at].kind \notin {"include", "broken"},
           \A what \in Kinds, a \in Apart(fs) :
              FrameRight(fs, Len(st), st[Len(st)], st[Len(st)].at, what, a)
                 => FrameRight(fs, Len(st), nf, nf.at, what, a)
    PROVE  Reads(fs, [st EXCEPT ![Len(st)] = nf], un, bs)
<1> DEFINE n == Len(st)
           t == [st EXCEPT ![n] = nf]
<1>1. StackIs(fs, st) /\ PathsIs(st, un)
  BY DEF Reads
<1>2. n \in Nat /\ n \in 1 .. n /\ st[n] \in Frames /\ 1 \in 1 .. n
  BY <1>1, TopIs
<1>3. /\ t # <<>> /\ Len(t) = n /\ t[n] = nf /\ \A k \in 1 .. (n - 1) : t[k] = st[k]
      /\ \A k \in 1 .. n : t[k].file = st[k].file
      /\ t[1].enclosing = st[1].enclosing
      /\ StackIs(fs, t)
  BY <1>1, TopReplaced
<1> HIDE DEF t
<1>4. \A k \in 1 .. n : k = n \/ (k # n /\ k \in 1 .. (n - 1))
  BY <1>2
<1>5. PathsIs(t, un)
  BY <1>1, <1>2, <1>3 DEF PathsIs
<1>6. ASSUME NEW what \in Kinds, NEW a \in Apart(fs)
      PROVE  StackRight(fs, t, what, a) /\ PathsRight(fs, t, un, bs, what, a)
  <2>1. StackRight(fs, st, what, a) /\ PathsRight(fs, st, un, bs, what, a)
    BY DEF Reads
  <2>2. FrameRight(fs, n, st[n], st[n].at, what, a)
    BY <1>2, <2>1 DEF StackRight
  <2>3. FrameRight(fs, n, nf, nf.at, what, a)
    BY <2>2
  <2>4. ASSUME NEW k \in 1 .. n, k # n PROVE FrameRight(fs, k, t[k], t[k].at - 1, what, a)
    BY <1>3, <1>4, <2>1, <2>4 DEF StackRight
  <2>5. StackRight(fs, t, what, a)
    BY <1>3, <2>3, <2>4 DEF StackRight
  <2>6. PathsRight(fs, t, un, bs, what, a)
    BY <1>3, <2>1 DEF PathsRight
  <2>7. QED
    BY <2>5, <2>6
<1>7. StackNests(fs, t)
  <2>1. StackNests(fs, st)
    BY DEF Reads
  <2>2. Shallow(fs, nf.file, nf.at, MaxIncludeDepth + 1 - n)
    <3>1. Shallow(fs, st[n].file, st[n].at, MaxIncludeDepth + 1 - n)
      BY <1>2, <2>1 DEF StackNests
    <3>2. \A i \in 1 .. nf.at : i \in 1 .. st[n].at \/ i = nf.at
      BY <1>2 DEF Frames
    <3>3. QED
      BY <3>1, <3>2 DEF Shallow
  <2>3. ASSUME NEW k \in 1 .. n, k # n
        PROVE  Shallow(fs, t[k].file, t[k].at - 1, MaxIncludeDepth + 1 - k)
    BY <1>3, <1>4, <2>1, <2>3 DEF StackNests
  <2>4. QED
    BY <1>3, <2>2, <2>3 DEF StackNests
<1>8. PathsNest(fs, t, un)
  BY <1>3 DEF Reads, PathsNest
<1>9. bs \in Seq(GoodBlocks)
  BY DEF Reads
<1>10. Reads(fs, t, un, bs)
  BY <1>3, <1>5, <1>6, <1>7, <1>8, <1>9 DEF Reads
<1>11. QED
  BY <1>10 DEF t

\* It includes a file.
LEMMA ReadsIn ==
    ASSUME NEW fs, FilesTyped(fs), NEW st, NEW un, NEW bs, Reads(fs, st, un, bs), st # <<>>,
           Len(st) <= MaxIncludeDepth,
           NEW nf, FrameIs(fs, nf), nf.file = st[Len(st)].file,
           nf.enclosing = st[Len(st)].enclosing, nf.at = st[Len(st)].at + 1,
           \A what \in Kinds, a \in Apart(fs) :
              FrameRight(fs, Len(st), st[Len(st)], st[Len(st)].at, what, a)
                 => FrameRight(fs, Len(st), nf, st[Len(st)].at, what, a),
           NEW next, FrameIs(fs, next), next.at = 0, next.blocks = <<>>, next.global = <<>>,
           next.current = Read!NoBlock, Below(fs, nf, next)
    PROVE  Reads(fs, Append([st EXCEPT ![Len(st)] = nf], next), un, bs)
<1> DEFINE n == Len(st)
           t == [st EXCEPT ![n] = nf]
           u == Append(t, next)
<1>1. StackIs(fs, st) /\ PathsIs(st, un) /\ MaxIncludeDepth \in Nat
  BY ReadAssumption DEF Reads
<1>2. n \in Nat /\ n \in 1 .. n /\ st[n] \in Frames /\ 1 \in 1 .. n
  BY <1>1, TopIs
<1>3. /\ Len(t) = n /\ t[n] = nf /\ \A k \in 1 .. (n - 1) : t[k] = st[k]
      /\ \A k \in 1 .. n : t[k].file = st[k].file
      /\ t[1].enclosing = st[1].enclosing
      /\ StackIs(fs, t)
  BY <1>1, TopReplaced
<1> HIDE DEF t
<1>4. /\ \A k \in 1 .. n : k = n \/ (k # n /\ k \in 1 .. (n - 1))
      /\ \A k \in 1 .. (n + 1) : k = n + 1 \/ (k # n + 1 /\ k \in 1 .. n)
      /\ n + 1 \in 1 .. (n + 1) /\ 1 \in 1 .. (n + 1) /\ n + 1 \in 1 .. (MaxIncludeDepth + 1)
  BY <1>1, <1>2
<1>5. next \in Frames /\ t \in Seq(Frames)
  BY <1>3 DEF FrameIs, StackIs
<1>6. /\ u \in Seq(Frames) /\ Len(u) = n + 1 /\ u[n + 1] = next /\ u # <<>>
      /\ \A k \in 1 .. n : u[k] = t[k]
  BY <1>2, <1>3, <1>5
<1> HIDE DEF u
<1>7. StackIs(fs, u)
  <2>1. \A k \in 1 .. (n + 1) : FrameIs(fs, u[k])
    <3>1. \A k \in 1 .. n : FrameIs(fs, t[k])
      BY <1>3 DEF StackIs
    <3>2. QED
      BY <1>4, <1>6, <3>1
  <2>2. ASSUME NEW k \in 1 .. n PROVE Below(fs, u[k], u[k + 1])
    <3>1. CASE k = n
      BY <1>2, <1>3, <1>6, <3>1
    <3>2. CASE k # n
      <4>1. k \in 1 .. (n - 1) /\ k + 1 \in 1 .. n
        BY <1>2, <3>2
      <4>2. Below(fs, t[k], t[k + 1])
        BY <1>3, <4>1 DEF StackIs
      <4>3. QED
        BY <1>6, <4>1, <4>2
    <3>3. QED
      BY <3>1, <3>2
  <2>3. (n + 1) - 1 = n /\ n + 1 <= MaxIncludeDepth + 1
    BY <1>1, <1>2
  <2>4. QED
    BY <1>6, <2>1, <2>2, <2>3 DEF StackIs
<1>8. PathsIs(u, un)
  <2>1. u[1].file = st[1].file /\ u[1].enclosing = st[1].enclosing
    BY <1>2, <1>3, <1>6
  <2>2. QED
    BY <1>1, <1>6, <2>1 DEF PathsIs
<1>9. ASSUME NEW what \in Kinds, NEW a \in Apart(fs)
      PROVE  StackRight(fs, u, what, a) /\ PathsRight(fs, u, un, bs, what, a)
  <2>1. StackRight(fs, st, what, a) /\ PathsRight(fs, st, un, bs, what, a)
    BY DEF Reads
  <2>2. FrameRight(fs, n, st[n], st[n].at, what, a)
    BY <1>2, <2>1 DEF StackRight
  <2>3. FrameRight(fs, n, nf, st[n].at, what, a)
    BY <2>2
  <2>4. nf.at - 1 = st[n].at
    BY <1>2 DEF Frames
  <2>5. FrameRight(fs, n + 1, next, 0, what, a)
    BY <1>1, <1>4, <1>5, FileBegins
  <2>6. ASSUME NEW k \in 1 .. n PROVE FrameRight(fs, k, u[k], u[k].at - 1, what, a)
    <3>1. CASE k = n
      BY <1>3, <1>6, <2>3, <2>4, <3>1
    <3>2. CASE k # n
      <4>1. k \in 1 .. (n - 1) /\ u[k] = st[k]
        BY <1>3, <1>4, <1>6, <3>2
      <4>2. FrameRight(fs, k, st[k], st[k].at - 1, what, a)
        BY <2>1, <3>2 DEF StackRight
      <4>3. QED
        BY <4>1, <4>2
    <3>3. QED
      BY <3>1, <3>2
  <2>7. StackRight(fs, u, what, a)
    <3>1. ASSUME NEW k \in 1 .. (n + 1)
          PROVE  FrameRight(fs, k, u[k], IF k = n + 1 THEN u[k].at ELSE u[k].at - 1, what, a)
      <4>1. CASE k = n + 1
        BY <1>6, <2>5, <4>1
      <4>2. CASE k # n + 1
        BY <1>4, <2>6, <4>2
      <4>3. QED
        BY <4>1, <4>2
    <3>2. QED
      BY <1>6, <3>1 DEF StackRight
  <2>8. PathsRight(fs, u, un, bs, what, a)
    BY <1>6, <2>1 DEF PathsRight
  <2>9. QED
    BY <2>7, <2>8
<1>10. StackNests(fs, u)
  <2>1. StackNests(fs, st)
    BY DEF Reads
  <2>2. nf.at - 1 = st[n].at
    BY <1>2 DEF Frames
  <2>3. Shallow(fs, next.file, next.at, MaxIncludeDepth + 1 - (n + 1))
    <3>1. 1 .. 0 = {}
      OBVIOUS
    <3>2. QED
      BY <3>1 DEF Shallow
  <2>4. ASSUME NEW k \in 1 .. n
        PROVE  Shallow(fs, u[k].file, u[k].at - 1, MaxIncludeDepth + 1 - k)
    <3>1. CASE k = n
      <4>1. Shallow(fs, st[n].file, st[n].at, MaxIncludeDepth + 1 - n)
        BY <1>2, <2>1 DEF StackNests
      <4>2. QED
        BY <1>3, <1>6, <2>2, <3>1, <4>1
    <3>2. CASE k # n
      <4>1. k \in 1 .. (n - 1) /\ u[k] = st[k]
        BY <1>3, <1>4, <1>6, <3>2
      <4>2. Shallow(fs, st[k].file, st[k].at - 1, MaxIncludeDepth + 1 - k)
        BY <2>1, <3>2 DEF StackNests
      <4>3. QED
        BY <4>1, <4>2
    <3>3. QED
      BY <3>1, <3>2
  <2>5. ASSUME NEW k \in 1 .. (n + 1)
        PROVE  Shallow(fs, u[k].file, IF k = n + 1 THEN u[k].at ELSE u[k].at - 1,
                       MaxIncludeDepth + 1 - k)
    <3>1. CASE k = n + 1
      BY <1>6, <2>3, <3>1
    <3>2. CASE k # n + 1
      BY <1>4, <2>4, <3>2
    <3>3. QED
      BY <3>1, <3>2
  <2>6. QED
    BY <1>6, <2>5 DEF StackNests
<1>11. PathsNest(fs, u, un)
  BY <1>6 DEF Reads, PathsNest
<1>12. bs \in Seq(GoodBlocks)
  BY DEF Reads
<1>13. Reads(fs, u, un, bs)
  BY <1>7, <1>8, <1>9, <1>10, <1>11, <1>12 DEF Reads
<1>14. QED
  BY <1>13 DEF u, t

\* A file leads no deeper than what it includes, and one level.
LEMMA LeadsOne ==
    ASSUME NEW fs, NEW f, NEW d \in Nat, Leads(fs, f, d + 1)
    PROVE  \E i \in DOMAIN fs[f] : fs[f][i].kind = "include" /\ Leads(fs, fs[f][i].file, d)
<1>1. PICK chain \in [0 .. (d + 1) -> Files] :
         /\ chain[0] = f
         /\ \A k \in 1 .. (d + 1) : \E i \in DOMAIN fs[chain[k - 1]] :
               /\ fs[chain[k - 1]][i].kind = "include"
               /\ fs[chain[k - 1]][i].file = chain[k]
  BY DEF Leads
<1> DEFINE rest == [k \in 0 .. d |-> chain[k + 1]]
<1>2. PICK i \in DOMAIN fs[f] : fs[f][i].kind = "include" /\ fs[f][i].file = chain[1]
  <2>1. 1 \in 1 .. (d + 1) /\ 1 - 1 = 0
    OBVIOUS
  <2>2. QED
    BY <1>1, <2>1
<1>3. rest \in [0 .. d -> Files] /\ rest[0] = chain[1]
  OBVIOUS
<1>4. ASSUME NEW k \in 1 .. d
      PROVE  \E j \in DOMAIN fs[rest[k - 1]] :
                fs[rest[k - 1]][j].kind = "include" /\ fs[rest[k - 1]][j].file = rest[k]
  <2>1. k + 1 \in 1 .. (d + 1) /\ k - 1 \in 0 .. d /\ k \in 0 .. d
        /\ (k + 1) - 1 = k /\ (k - 1) + 1 = k
    OBVIOUS
  <2>2. rest[k - 1] = chain[k] /\ rest[k] = chain[k + 1]
    BY <2>1
  <2>3. \E j \in DOMAIN fs[chain[k]] :
           fs[chain[k]][j].kind = "include" /\ fs[chain[k]][j].file = chain[k + 1]
    BY <1>1, <2>1
  <2>4. QED
    BY <2>2, <2>3
<1> HIDE DEF rest
<1>5. Leads(fs, fs[f][i].file, d)
  BY <1>2, <1>3, <1>4 DEF Leads
<1>6. QED
  BY <1>2, <1>5

\* A line that cannot be read is the file's own, or one of what it includes.
LEMMA BreaksOne ==
    ASSUME NEW fs, NEW f, Breaks(fs, f)
    PROVE  \E i \in DOMAIN fs[f] :
              \/ fs[f][i].kind = "broken"
              \/ fs[f][i].kind = "include" /\ Breaks(fs, fs[f][i].file)
<1>1. PICK m \in Nat : \E chain \in [0 .. m -> Files] :
         /\ chain[0] = f
         /\ \A k \in 1 .. m : \E i \in DOMAIN fs[chain[k - 1]] :
               /\ fs[chain[k - 1]][i].kind = "include"
               /\ fs[chain[k - 1]][i].file = chain[k]
         /\ \E i \in DOMAIN fs[chain[m]] : fs[chain[m]][i].kind = "broken"
  BY DEF Breaks
<1>2. PICK chain \in [0 .. m -> Files] :
         /\ chain[0] = f
         /\ \A k \in 1 .. m : \E i \in DOMAIN fs[chain[k - 1]] :
               /\ fs[chain[k - 1]][i].kind = "include"
               /\ fs[chain[k - 1]][i].file = chain[k]
         /\ \E i \in DOMAIN fs[chain[m]] : fs[chain[m]][i].kind = "broken"
  BY <1>1
<1>3. CASE m = 0
  BY <1>2, <1>3
<1>4. CASE m # 0
  <2> DEFINE d == m - 1
             rest == [k \in 0 .. d |-> chain[k + 1]]
  <2>1. d \in Nat /\ m = d + 1 /\ 1 \in 1 .. m /\ 1 - 1 = 0 /\ d \in 0 .. d
        /\ (\A k \in 0 .. d : k + 1 \in 0 .. m) /\ 0 \in 0 .. d /\ 0 + 1 = 1
    BY <1>4
  <2> HIDE DEF d
  <2>2. PICK i \in DOMAIN fs[f] : fs[f][i].kind = "include" /\ fs[f][i].file = chain[1]
    <3>1. \E i \in DOMAIN fs[chain[1 - 1]] :
             fs[chain[1 - 1]][i].kind = "include" /\ fs[chain[1 - 1]][i].file = chain[1]
      BY <1>2, <2>1
    <3>2. chain[1 - 1] = f
      BY <1>2
    <3>3. QED
      BY <3>1, <3>2, Zenon
  <2>3. rest \in [0 .. d -> Files] /\ rest[0] = chain[1] /\ rest[d] = chain[m]
    BY <2>1
  <2>4. ASSUME NEW k \in 1 .. d
        PROVE  \E j \in DOMAIN fs[rest[k - 1]] :
                  fs[rest[k - 1]][j].kind = "include" /\ fs[rest[k - 1]][j].file = rest[k]
    <3>1. k + 1 \in 1 .. m /\ k - 1 \in 0 .. d /\ k \in 0 .. d
          /\ (k + 1) - 1 = k /\ (k - 1) + 1 = k
      BY <2>1
    <3>2. rest[k - 1] = chain[k] /\ rest[k] = chain[k + 1]
      BY <3>1
    <3>3. \E j \in DOMAIN fs[chain[k]] :
             fs[chain[k]][j].kind = "include" /\ fs[chain[k]][j].file = chain[k + 1]
      BY <1>2, <3>1
    <3>4. QED
      BY <3>2, <3>3
  <2> HIDE DEF rest
  <2>5. Breaks(fs, fs[f][i].file)
    <3>1. rest[0] = fs[f][i].file
      BY <2>2, <2>3
    <3>2. \E j \in DOMAIN fs[rest[d]] : fs[rest[d]][j].kind = "broken"
      BY <1>2, <2>3, Zenon
    <3>3. d \in Nat /\ rest \in [0 .. d -> Files]
      BY <2>1, <2>3
    <3>4. QED
      BY <2>4, <3>1, <3>2, <3>3, Zenon DEF Breaks
  <2>6. QED
    BY <2>2, <2>5
<1>5. QED
  BY <1>3, <1>4

\* A file read to its end without such a line or a deep nest has none.
LEMMA ShallowAll ==
    ASSUME NEW fs, FilesTyped(fs), NEW f \in Files, NEW d \in Nat,
           Shallow(fs, f, Len(fs[f]), d)
    PROVE  ~Dead(fs, f, d + 1)
<1>1. DOMAIN fs[f] = 1 .. Len(fs[f])
  BY DEF FilesTyped
<1>2. ~Leads(fs, f, d + 1)
  BY <1>1, LeadsOne DEF Shallow, Dead
<1>3. ~Breaks(fs, f)
  BY <1>1, BreaksOne DEF Shallow, Dead
<1>4. QED
  BY <1>2, <1>3 DEF Dead

\* An included file has been read.
LEMMA ReadsOut ==
    ASSUME NEW fs, FilesTyped(fs), NEW st, NEW un, NEW bs, Reads(fs, st, un, bs), Len(st) > 1,
           st # <<>>, st[Len(st)].at = Len(fs[st[Len(st)].file])
    PROVE  Reads(fs, [k \in 1 .. (Len(st) - 1) |->
                        IF k = Len(st) - 1 THEN Included(st[k], st[Len(st)]) ELSE st[k]], un, bs)
<1> DEFINE n == Len(st)
           m == n - 1
           fr == st[m]
           next == st[n]
           nf == Included(fr, next)
           u == [k \in 1 .. (Len(st) - 1) |->
                        IF k = Len(st) - 1 THEN Included(st[k], st[Len(st)]) ELSE st[k]]
<1>1. StackIs(fs, st) /\ PathsIs(st, un) /\ MaxIncludeDepth \in Nat /\ st \in Seq(Frames)
  BY ReadAssumption DEF Reads, StackIs
<1>2. /\ n \in Nat /\ n \in 1 .. (MaxIncludeDepth + 1) /\ FrameIs(fs, next)
      /\ n \in 1 .. n /\ 1 \in 1 .. n
  BY <1>1, TopIs
<1>3. /\ m \in Nat /\ m \in 1 .. m /\ 1 \in 1 .. m /\ m + 1 = n /\ m \in 1 .. MaxIncludeDepth /\ m \in 1 .. n
      /\ \A k \in 1 .. m : k \in 1 .. n /\ k # n /\ (k = m \/ (k # m /\ k \in 1 .. (m - 1)))
  BY <1>1, <1>2
<1>18. /\ m <= MaxIncludeDepth + 1 /\ MaxIncludeDepth + 1 - n \in Nat
       /\ (MaxIncludeDepth + 1 - n) + 1 = MaxIncludeDepth + 1 - m
       /\ \A k \in 1 .. (m - 1) : k \in 1 .. (n - 1) /\ k \in 1 .. m /\ k # m /\ k + 1 \in 1 .. m
       /\ \A k \in 1 .. m : k \in 1 .. n
  <2> DEFINE b == MaxIncludeDepth
  <2>1. n \in Nat /\ n \in 1 .. (b + 1) /\ b \in Nat /\ n > 1
    BY <1>1, <1>2
  <2> HIDE DEF n, b
  <2>2. m <= b + 1 /\ b + 1 - n \in Nat /\ (b + 1 - n) + 1 = b + 1 - m
    BY <2>1
  <2>3. \A k \in 1 .. (m - 1) : k \in 1 .. (n - 1) /\ k \in 1 .. m /\ k # m /\ k + 1 \in 1 .. m
    BY <2>1
  <2>4. \A k \in 1 .. m : k \in 1 .. n
    BY <2>1
  <2>5. QED
    BY <2>2, <2>3, <2>4 DEF b
<1>4. FrameIs(fs, fr) /\ Below(fs, fr, next)
  BY <1>1, <1>3 DEF StackIs
<1>5. fr \in Frames /\ next \in Frames /\ next.file \in Files
  BY <1>2, <1>4 DEF FrameIs, Frames
<1>6. /\ nf \in Frames /\ nf.file = fr.file /\ nf.at = fr.at /\ nf.enclosing = fr.enclosing
      /\ nf.global = fr.global /\ nf.current = fr.current
      /\ nf.blocks = fr.blocks \o Read!Parsed(next)
  <2> DEFINE p == Read!Parsed(next)
             q == fr.blocks \o p
  <2>1. p \in Seq(GoodBlocks)
    BY <1>2, ParsedTyped
  <2>2. q \in Seq(GoodBlocks)
    BY <1>5, <2>1 DEF Frames
  <2>3. nf = [fr EXCEPT !.blocks = q]
    BY DEF Included
  <2> HIDE DEF q, nf, p, next, fr
  <2>4. /\ nf \in Frames /\ nf.file = fr.file /\ nf.at = fr.at /\ nf.enclosing = fr.enclosing
        /\ nf.global = fr.global /\ nf.current = fr.current /\ nf.blocks = q
    BY <1>5, <2>2, <2>3 DEF Frames
  <2>5. QED
    BY <2>4 DEF q, p
<1>7. FrameIs(fs, nf)
  <2>1. fr.at \in 1 .. fr.at /\ fs[fr.file][fr.at].kind = "include"
    BY <1>4, <1>5 DEF Below, Frames
  <2> HIDE DEF nf, fr, next
  <2>2. nf.at <= Len(fs[nf.file])
    BY <1>4, <1>6 DEF FrameIs
  <2>3. nf.current # Read!NoBlock =>
          /\ nf.current \in GoodBlocks /\ nf.current.line \in Lines
          /\ nf.current.enclosing = nf.enclosing
    BY <1>4, <1>6 DEF FrameIs
  <2>4. nf.current = Read!NoBlock =>
          /\ \A i \in 1 .. nf.at : fs[nf.file][i].kind \notin {"host", "match"}
          /\ nf.blocks # <<>> => \E i \in 1 .. nf.at : fs[nf.file][i].kind = "include"
    BY <1>4, <1>6, <2>1 DEF FrameIs
  <2>5. nf.current.isMatch =>
          \E i \in 1 .. nf.at : /\ fs[nf.file][i].kind = "match"
                                /\ \A j \in (i + 1) .. nf.at : fs[nf.file][j].kind # "host"
    <3>1. fr.current.isMatch =>
            \E i \in 1 .. fr.at : /\ fs[fr.file][i].kind = "match"
                                  /\ \A j \in (i + 1) .. fr.at : fs[fr.file][j].kind # "host"
      BY <1>4 DEF FrameIs
    <3>2. nf.file = fr.file /\ nf.at = fr.at /\ nf.current = fr.current
      BY <1>6
    <3> HIDE DEF u, n, m
    <3>3. QED
      BY <3>1, <3>2
  <2>6. QED
    BY <1>6, <2>2, <2>3, <2>4, <2>5 DEF FrameIs
<1>8. /\ u \in Seq(Frames) /\ Len(u) = m /\ u # <<>> /\ u[m] = nf
      /\ \A k \in 1 .. m : k # m => u[k] = st[k]
  <2>1. \A k \in 1 .. m : st[k] \in Frames
    <3> HIDE DEF m
    <3>1. \A k \in 1 .. Len(st) : st[k] \in Frames
      BY <1>1
    <3>2. QED
      BY <1>18, <3>1
  <2>2. u = [k \in 1 .. m |-> IF k = m THEN nf ELSE st[k]]
    OBVIOUS
  <2> HIDE DEF nf, u, n, m, fr, next
  <2>3. \A k \in 1 .. m : (IF k = m THEN nf ELSE st[k]) \in Frames
    BY <1>6, <2>1
  <2>4. u \in Seq(Frames) /\ Len(u) = m
    BY <1>3, <2>2, <2>3
  <2>5. u[m] = nf /\ \A k \in 1 .. m : k # m => u[k] = st[k]
    BY <1>3, <2>2
  <2>6. QED
    BY <1>3, <2>4, <2>5
<1> HIDE DEF nf, u
<1>9. \A k \in 1 .. m : u[k].file = st[k].file /\ u[k].enclosing = st[k].enclosing
                        /\ u[k].at = st[k].at
  BY <1>3, <1>6, <1>8
<1>10. StackIs(fs, u)
  <2>1. \A k \in 1 .. m : FrameIs(fs, u[k])
    BY <1>1, <1>3, <1>7, <1>8 DEF StackIs
  <2>2. ASSUME NEW k \in 1 .. (m - 1) PROVE Below(fs, u[k], u[k + 1])
    <3>1. k \in 1 .. (n - 1) /\ k \in 1 .. m /\ k # m /\ k + 1 \in 1 .. m
      BY <1>18
    <3>2. Below(fs, st[k], st[k + 1])
      BY <1>1, <3>1 DEF StackIs
    <3>3. u[k] = st[k] /\ u[k + 1].file = st[k + 1].file /\ u[k + 1].enclosing = st[k + 1].enclosing
      BY <1>8, <1>9, <3>1
    <3>4. QED
      BY <3>2, <3>3 DEF Below
  <2>3. m <= MaxIncludeDepth + 1
    BY <1>18
  <2>4. QED
    BY <1>8, <2>1, <2>2, <2>3 DEF StackIs
<1>11. PathsIs(u, un)
  BY <1>1, <1>3, <1>8, <1>9 DEF PathsIs
<1>12. ASSUME NEW what \in Kinds, NEW a \in Apart(fs)
       PROVE  StackRight(fs, u, what, a) /\ PathsRight(fs, u, un, bs, what, a)
  <2>1. StackRight(fs, st, what, a) /\ PathsRight(fs, st, un, bs, what, a)
    BY DEF Reads
  <2>2. FrameRight(fs, m, fr, fr.at - 1, what, a)
    BY <1>3, <2>1 DEF StackRight
  <2>3. FrameRight(fs, m + 1, next, Len(fs[next.file]), what, a)
    BY <1>2, <1>3, <2>1 DEF StackRight
  <2>4. FrameRight(fs, m, nf, fr.at, what, a)
    <3> HIDE DEF fr, next, m
    <3>1. QED
      BY <1>1, <1>2, <1>3, <1>4, <1>6, <2>2, <2>3, IncludeEnds
  <2>5. ASSUME NEW k \in 1 .. m, k # m PROVE FrameRight(fs, k, u[k], u[k].at - 1, what, a)
    <3>1. u[k] = st[k] /\ k \in 1 .. n /\ k # n
      BY <1>3, <1>8, <2>5
    <3>2. FrameRight(fs, k, st[k], st[k].at - 1, what, a)
      BY <2>1, <3>1 DEF StackRight
    <3>3. QED
      BY <3>1, <3>2
  <2>6. StackRight(fs, u, what, a)
    BY <1>6, <1>8, <2>4, <2>5 DEF StackRight
  <2>7. PathsRight(fs, u, un, bs, what, a)
    BY <1>8, <2>1 DEF PathsRight
  <2>8. QED
    BY <2>6, <2>7
<1>13. StackNests(fs, u)
  <2>1. StackNests(fs, st)
    BY DEF Reads
  <2>2. Shallow(fs, fr.file, fr.at - 1, MaxIncludeDepth + 1 - m)
    BY <1>3, <2>1 DEF StackNests
  <2>3. Shallow(fs, next.file, Len(fs[next.file]), MaxIncludeDepth + 1 - n)
    BY <1>2, <2>1 DEF StackNests
  <2>4. ~Dead(fs, next.file, MaxIncludeDepth + 1 - m)
    <3>1. MaxIncludeDepth + 1 - n \in Nat /\ (MaxIncludeDepth + 1 - n) + 1 = MaxIncludeDepth + 1 - m
      BY <1>18
    <3>2. ~Dead(fs, next.file, (MaxIncludeDepth + 1 - n) + 1)
      BY <1>5, <2>3, <3>1, ShallowAll
    <3>3. QED
      BY <3>1, <3>2
  <2>5. Shallow(fs, nf.file, nf.at, MaxIncludeDepth + 1 - m)
    <3>1. \A i \in 1 .. fr.at : i \in 1 .. (fr.at - 1) \/ i = fr.at
      BY <1>5 DEF Frames
    <3>2. fs[fr.file][fr.at].file = next.file /\ fs[fr.file][fr.at].kind = "include"
      BY <1>4 DEF Below
    <3>3. QED
      BY <1>6, <2>2, <2>4, <3>1, <3>2 DEF Shallow
  <2>6. ASSUME NEW k \in 1 .. m, k # m
        PROVE  Shallow(fs, u[k].file, u[k].at - 1, MaxIncludeDepth + 1 - k)
    <3>1. u[k] = st[k] /\ k \in 1 .. n /\ k # n
      BY <1>3, <1>8, <2>6
    <3>2. Shallow(fs, st[k].file, st[k].at - 1, MaxIncludeDepth + 1 - k)
      BY <2>1, <3>1 DEF StackNests
    <3>3. QED
      BY <3>1, <3>2
  <2>7. QED
    BY <1>8, <2>5, <2>6 DEF StackNests
<1>14. PathsNest(fs, u, un)
  BY <1>8 DEF Reads, PathsNest
<1>15. bs \in Seq(GoodBlocks)
  BY DEF Reads
<1>16. Reads(fs, u, un, bs)
  BY <1>10, <1>11, <1>12, <1>13, <1>14, <1>15 DEF Reads
<1>17. QED
  BY <1>16 DEF u

\* One of the paths has been read.
LEMMA ReadsPath ==
    ASSUME NEW fs, FilesTyped(fs), NEW st, NEW un, NEW bs, Reads(fs, st, un, bs), Len(st) = 1,
           st # <<>>, st[Len(st)].at = Len(fs[st[Len(st)].file])
    PROVE  Reads(fs, <<>>, un, bs \o Read!Parsed(st[Len(st)]))
<1> DEFINE fr == st[1]
           b == Begun(un)
           new == bs \o Read!Parsed(st[Len(st)])
           none == <<>>
<1>1. /\ StackIs(fs, st) /\ PathsIs(st, un) /\ MaxIncludeDepth \in Nat
      /\ Paths \in Seq(Files) /\ bs \in Seq(GoodBlocks)
  BY ReadAssumption DEF Reads
<1>2. FrameIs(fs, fr) /\ fr \in Frames /\ fr.file \in Files
  BY <1>1, TopIs DEF Frames
<1>3. b \in 1 .. Len(Paths) /\ fr.file = Paths[b] /\ fr.enclosing = <<>> /\ b \in Nat
      /\ 1 \in 1 .. Len(st)
  BY <1>1 DEF PathsIs
<1> HIDE DEF b
<1>4. new \in Seq(GoodBlocks)
  BY <1>1, <1>2, ParsedTyped
<1>5. none = <<>> /\ Len(none) = 0 /\ 1 .. 0 = {} /\ none \in Seq(Frames) /\ 1 .. (0 - 1) = {}
  OBVIOUS
<1> HIDE DEF none
<1>6. StackIs(fs, none) /\ StackNests(fs, none) /\ PathsIs(none, un)
  <2>1. StackIs(fs, none)
    BY <1>1, <1>5 DEF StackIs
  <2>2. StackNests(fs, none)
    BY <1>5 DEF StackNests
  <2>3. PathsIs(none, un)
    BY <1>1, <1>5 DEF PathsIs
  <2>4. QED
    BY <2>1, <2>2, <2>3
<1>7. ASSUME NEW what \in Kinds, NEW a \in Apart(fs)
      PROVE  StackRight(fs, none, what, a) /\ PathsRight(fs, none, un, new, what, a)
  <2>1. StackRight(fs, st, what, a) /\ PathsRight(fs, st, un, bs, what, a)
    BY DEF Reads
  <2>2. FrameRight(fs, 1, fr, Len(fs[fr.file]), what, a)
    BY <1>3, <2>1 DEF StackRight
  <2>3. Same(fs, what, Got(what, bs, a), PathsFound(fs, what, a, b - 1))
    BY <2>1 DEF PathsRight, b
  <2>4. Same(fs, what, Got(what, new, a), PathsFound(fs, what, a, b))
    <3> HIDE DEF fr
    <3>1. Same(fs, what, Got(what, bs \o Read!Parsed(fr), a), PathsFound(fs, what, a, b))
      BY <1>1, <1>2, <1>3, <2>2, <2>3, PathEnds
    <3>2. QED
      BY <3>1 DEF fr
  <2>5. StackRight(fs, none, what, a)
    BY <1>5 DEF StackRight
  <2>6. PathsRight(fs, none, un, new, what, a)
    BY <1>5, <2>4 DEF PathsRight, b
  <2>7. QED
    BY <2>5, <2>6
<1>8. PathsNest(fs, none, un)
  <2>1. Shallow(fs, fr.file, Len(fs[fr.file]), MaxIncludeDepth)
    <3>1. StackNests(fs, st) /\ MaxIncludeDepth + 1 - 1 = MaxIncludeDepth
      BY <1>1 DEF Reads
    <3>2. QED
      BY <1>3, <3>1 DEF StackNests
  <2>2. ~Dead(fs, Paths[b], MaxIncludeDepth + 1)
    BY <1>1, <1>2, <1>3, <2>1, ShallowAll
  <2>3. \A m \in 1 .. (b - 1) : ~Dead(fs, Paths[m], MaxIncludeDepth + 1)
    BY DEF Reads, PathsNest, b
  <2>4. \A m \in 1 .. b : m \in 1 .. (b - 1) \/ m = b
    BY <1>3
  <2>5. \A m \in 1 .. b : ~Dead(fs, Paths[m], MaxIncludeDepth + 1)
    BY <2>2, <2>3, <2>4
  <2>6. QED
    BY <1>5, <2>5 DEF PathsNest, b
<1>9. Reads(fs, none, un, new)
  BY <1>4, <1>6, <1>7, <1>8 DEF Reads
<1>10. QED
  BY <1>9 DEF none

\* The frame that a file begins with.
LEMMA FrameBegins ==
    ASSUME NEW fs, FilesTyped(fs), NEW f \in Files, NEW enclosing \in Seq(SUBSET Patterns)
    PROVE  LET fr == Read!Frame(f, enclosing)
           IN  /\ FrameIs(fs, fr) /\ fr \in Frames /\ fr.file = f /\ fr.at = 0
               /\ fr.enclosing = enclosing /\ fr.blocks = <<>> /\ fr.global = <<>>
               /\ fr.current = Read!NoBlock
<1> DEFINE fr == Read!Frame(f, enclosing)
           b == Read!NoBlock
<1>1. b \in Blocks
  BY NoBlockIs
<1> HIDE DEF b
<1>2. <<>> \in Seq(Lines) /\ <<>> \in Seq(GoodBlocks) /\ 0 \in Nat
  OBVIOUS
<1>3. fr = [file |-> f, at |-> 0, enclosing |-> enclosing, blocks |-> <<>>, global |-> <<>>,
            current |-> b]
  BY DEF Read!Frame, b
<1> HIDE DEF fr
<1>4. /\ fr \in Frames /\ fr.file = f /\ fr.at = 0 /\ fr.enclosing = enclosing
      /\ fr.blocks = <<>> /\ fr.global = <<>> /\ fr.current = b
  BY <1>1, <1>2, <1>3 DEF Frames
<1>5. fr.at <= Len(fs[fr.file]) /\ 1 .. 0 = {}
  BY <1>4 DEF FilesTyped
<1>6. ~b.isMatch
  BY DEF b, Read!NoBlock
<1>7. FrameIs(fs, fr)
  BY <1>4, <1>5, <1>6 DEF FrameIs, b
<1>8. QED
  BY <1>4, <1>7 DEF fr, b

\* The next of the paths is begun.
LEMMA ReadsNext ==
    ASSUME NEW fs, FilesTyped(fs), NEW un, NEW bs, Reads(fs, <<>>, un, bs), un # <<>>
    PROVE  Reads(fs, <<Read!Frame(Head(un), <<>>)>>, Tail(un), bs)
<1> DEFINE fr == Read!Frame(Head(un), <<>>)
           u == <<fr>>
           none == <<>>
           rest == Tail(un)
<1>1. /\ PathsIs(none, un) /\ MaxIncludeDepth \in Nat
      /\ Paths \in Seq(Files) /\ bs \in Seq(GoodBlocks) /\ un \in Seq(Files)
      /\ Len(Paths) \in Nat
  BY ReadAssumption DEF Reads, PathsIs
<1>2. Head(un) \in Files /\ <<>> \in Seq(SUBSET Patterns)
  BY <1>1
<1>3. /\ FrameIs(fs, fr) /\ fr \in Frames /\ fr.file = Head(un) /\ fr.at = 0
      /\ fr.enclosing = <<>> /\ fr.blocks = <<>> /\ fr.global = <<>>
      /\ fr.current = Read!NoBlock
  BY <1>2, FrameBegins
<1> HIDE DEF fr
<1>4. /\ u \in Seq(Frames) /\ Len(u) = 1 /\ u[1] = fr /\ u # none
      /\ 1 .. 1 = {1} /\ 1 .. (1 - 1) = {} /\ 1 .. 0 = {}
  <2>1. 1 .. 1 = {1}
    OBVIOUS
  <2>2. 1 .. (1 - 1) = {} /\ 1 .. 0 = {}
    OBVIOUS
  <2>3. QED
    BY <1>3, <2>1, <2>2
<1> HIDE DEF u
<1>5. StackIs(fs, u)
  BY <1>1, <1>3, <1>4 DEF StackIs
<1>6. /\ rest \in Seq(Files) /\ Len(rest) = Len(un) - 1 /\ Len(un) \in Nat /\ Len(un) # 0
      /\ Head(un) = un[1] /\ \A i \in 1 .. Len(rest) : rest[i] = un[i + 1]
  BY <1>1
<1> HIDE DEF rest
<1>7. Begun(rest) = Begun(un) + 1 /\ Begun(un) \in 0 .. Len(Paths)
      /\ (\A i \in 1 .. Len(un) : un[i] = Paths[Begun(un) + i]) /\ Begun(rest) - 1 = Begun(un)
  BY <1>1, <1>6 DEF Begun, PathsIs
<1>8. PathsIs(u, rest)
  <2>1. Begun(rest) \in 0 .. Len(Paths) /\ Begun(rest) # 0
    BY <1>1, <1>6, <1>7 DEF Begun
  <2>2. ASSUME NEW i \in 1 .. Len(rest) PROVE rest[i] = Paths[Begun(rest) + i]
    <3>1. i + 1 \in 1 .. Len(un) /\ Begun(un) + (i + 1) = Begun(rest) + i
      BY <1>1, <1>6, <1>7
    <3>2. QED
      BY <1>6, <1>7, <3>1
  <2>3. un[1] = Paths[Begun(rest)]
    BY <1>6, <1>7
  <2>4. QED
    BY <1>3, <1>4, <1>6, <2>1, <2>2, <2>3 DEF PathsIs
<1>9. ASSUME NEW what \in Kinds, NEW a \in Apart(fs)
      PROVE  StackRight(fs, u, what, a) /\ PathsRight(fs, u, rest, bs, what, a)
  <2>1. PathsRight(fs, none, un, bs, what, a)
    BY DEF Reads
  <2>2. FrameRight(fs, 1, fr, 0, what, a)
    BY <1>1, <1>3, FileBegins
  <2>3. StackRight(fs, u, what, a)
    BY <1>3, <1>4, <2>2 DEF StackRight
  <2>4. PathsRight(fs, u, rest, bs, what, a)
    BY <1>4, <1>7, <2>1 DEF PathsRight
  <2>5. QED
    BY <2>3, <2>4
<1>10. StackNests(fs, u)
  BY <1>3, <1>4 DEF StackNests, Shallow
<1>11. PathsNest(fs, u, rest)
  BY <1>4, <1>7 DEF Reads, PathsNest
<1>12. Reads(fs, u, rest, bs)
  BY <1>1, <1>5, <1>8, <1>9, <1>10, <1>11 DEF Reads
<1>13. QED
  BY <1>12 DEF u, fr, rest

\* Nothing is read at the start.
LEMMA ReadsNone ==
    ASSUME NEW fs, FilesTyped(fs)
    PROVE  Reads(fs, <<>>, Paths, <<>>)
<1> DEFINE none == <<>>
<1>1. MaxIncludeDepth \in Nat /\ Paths \in Seq(Files) /\ Len(Paths) \in Nat
  BY ReadAssumption
<1>2. none = <<>> /\ Len(none) = 0 /\ 1 .. 0 = {} /\ 1 .. (0 - 1) = {}
  OBVIOUS
<1>3. none \in Seq(Frames) /\ none \in Seq(GoodBlocks)
  OBVIOUS
<1>4. Begun(Paths) = 0
  BY <1>1 DEF Begun
<1>5. \A what \in Kinds, a \in Apart(fs) : Got(what, none, a) = <<>> /\ PathsFound(fs, what, a, 0) = <<>>
  BY <1>1, GotOfNone, PathsAre
<1> HIDE DEF none
<1>6. StackIs(fs, none)
  BY <1>1, <1>2, <1>3 DEF StackIs
<1>7. PathsIs(none, Paths)
  <2>1. \A i \in 1 .. Len(Paths) : 0 + i = i
    BY <1>1
  <2>2. 0 \in 0 .. Len(Paths)
    BY <1>1
  <2>3. QED
    BY <1>1, <1>2, <1>4, <2>1, <2>2 DEF PathsIs
<1>8. StackNests(fs, none) /\ PathsNest(fs, none, Paths)
  BY <1>2, <1>4 DEF StackNests, PathsNest
<1>9. \A what \in Kinds, a \in Apart(fs) :
         StackRight(fs, none, what, a) /\ PathsRight(fs, none, Paths, none, what, a)
  BY <1>2, <1>4, <1>5 DEF StackRight, PathsRight, Same
<1>10. Reads(fs, none, Paths, none)
  BY <1>3, <1>6, <1>7, <1>8, <1>9 DEF Reads
<1>11. QED
  BY <1>10 DEF none

-----------------------------------------------------------------------------
(* Every step of the reading keeps the invariant.                          *)

\* An Include closes the open block when it has values, to go on with it after.
LEMMA IncludingIs ==
    ASSUME NEW fs, FilesTyped(fs), NEW fr, FrameIs(fs, fr), fr.at < Len(fs[fr.file]),
           fs[fr.file][fr.at + 1].kind \in {"include", "nothing"}
    PROVE  LET nf == Including(fr)
           IN  /\ FrameIs(fs, nf)
               /\ nf.at = fr.at + 1 /\ nf.file = fr.file /\ nf.enclosing = fr.enclosing
               /\ nf.global = fr.global /\ nf.current.values = <<>>
               /\ IF fr.current # Read!NoBlock /\ fr.current.values # <<>>
                  THEN /\ nf.blocks = Append(fr.blocks, fr.current)
                       /\ nf.current # Read!NoBlock
                       /\ nf.current.isMatch = fr.current.isMatch
                       /\ nf.current.patterns = fr.current.patterns
                       /\ nf.current.line = fr.current.line
                       /\ nf.current.enclosing = fr.current.enclosing
                       /\ nf.current.values = <<>>
                  ELSE nf.blocks = fr.blocks /\ nf.current = fr.current
               /\ Read!Inner(nf) = Read!Inner(fr)
<1> DEFINE nf == Including(fr)
<1>1. /\ fr \in Frames /\ fr.current \in Blocks /\ fr.blocks \in Seq(GoodBlocks)
      /\ fr.current # Read!NoBlock => fr.current \in GoodBlocks /\ fr.current.line \in Lines
  BY DEF FrameIs, Frames
<1>2. CASE fr.current # Read!NoBlock /\ fr.current.values # <<>>
  <2> DEFINE b == fr.current
             more == Append(fr.blocks, b)
             c == [b EXCEPT !.values = <<>>]
             mf == [fr EXCEPT !.blocks = more, !.current = c]
  <2>1. more \in Seq(GoodBlocks)
    BY <1>1, <1>2
  <2>2. nf = Onward(mf)
    BY <1>2 DEF Including, Read!Split
  <2> HIDE DEF more
  <2>3. /\ c \in Blocks /\ c.values = <<>> /\ c.isMatch = b.isMatch
        /\ c.patterns = b.patterns /\ c.line = b.line /\ c.enclosing = b.enclosing
    <3>1. <<>> \in Seq(Lines)
      OBVIOUS
    <3>2. QED
      BY <1>1, <3>1 DEF Blocks
  <2> HIDE DEF c
  <2>4. c # Read!NoBlock
    <3>1. b.line \in Lines
      BY <1>1, <1>2
    <3>2. QED
      BY <2>3, <3>1, LinesAreSomewhere, NoBlockIs
  <2>5. /\ mf \in Frames /\ mf.file = fr.file /\ mf.enclosing = fr.enclosing /\ mf.at = fr.at
        /\ mf.global = fr.global /\ mf.blocks = more /\ mf.current = c
    BY <1>1, <2>1, <2>3 DEF Frames
  <2> HIDE DEF mf, nf
  <2>6. /\ nf \in Frames /\ nf.file = fr.file /\ nf.enclosing = fr.enclosing /\ nf.at = fr.at + 1
        /\ nf.global = fr.global /\ nf.blocks = more /\ nf.current = c
    BY <2>2, <2>5, OnwardIs
  <2>7. FrameIs(fs, nf)
    BY <1>2, <2>3, <2>4, <2>6, GoesOn
  <2>8. Read!Inner(nf) = Read!Inner(fr)
    BY <1>2, <2>3, <2>4, <2>6 DEF Read!Inner
  <2>9. QED
    BY <1>2, <2>3, <2>4, <2>6, <2>7, <2>8 DEF nf, more
<1>3. CASE ~(fr.current # Read!NoBlock /\ fr.current.values # <<>>)
  <2>1. nf = Onward(fr)
    BY <1>3, Zenon DEF Including, Read!Split
  <2> HIDE DEF nf
  <2>2. /\ nf \in Frames /\ nf.file = fr.file /\ nf.enclosing = fr.enclosing /\ nf.at = fr.at + 1
        /\ nf.global = fr.global /\ nf.blocks = fr.blocks /\ nf.current = fr.current
    BY <1>1, <2>1, OnwardIs
  <2>3. nf.current.values = <<>>
    BY <1>3, <2>2, NoBlockIs
  <2>4. FrameIs(fs, nf)
    BY <2>2, GoesOn
  <2>5. Read!Inner(nf) = Read!Inner(fr)
    BY <2>2 DEF Read!Inner
  <2>6. QED
    BY <1>3, <2>2, <2>3, <2>4, <2>5 DEF nf
<1>4. QED
  BY <1>2, <1>3

\* What encloses an included file is a list of sets of patterns.
LEMMA InnerIs ==
    ASSUME NEW fs, NEW fr, FrameIs(fs, fr)
    PROVE  Read!Inner(fr) \in Seq(SUBSET Patterns)
<1>1. fr.enclosing \in Seq(SUBSET Patterns) /\ fr.current.patterns \in SUBSET Patterns
  BY DEF FrameIs, Frames, Blocks
<1>2. QED
  BY <1>1 DEF Read!Inner

\* What is known of the innermost frame, at a line.
AtTop(fs, st, un, bs) ==
    /\ FilesTyped(fs) /\ Reads(fs, st, un, bs) /\ st # <<>>
    /\ st[Len(st)].at < Len(fs[st[Len(st)].file])

\* A line that is about to be read, and the file it is in.
LEMMA AtTopIs ==
    ASSUME NEW fs, NEW st, NEW un, NEW bs, AtTop(fs, st, un, bs)
    PROVE  LET fr == st[Len(st)]
           IN  /\ FilesTyped(fs) /\ MaxIncludeDepth \in Nat
               /\ FrameIs(fs, fr) /\ fr \in Frames /\ fr.file \in Files /\ fr.at \in Nat
               /\ fr.at < Len(fs[fr.file]) /\ fr.at + 1 \in 1 .. Len(fs[fr.file])
               /\ Len(st) \in 1 .. (MaxIncludeDepth + 1)
<1> DEFINE fr == st[Len(st)]
<1>1. StackIs(fs, st) /\ st # <<>> /\ FilesTyped(fs) /\ MaxIncludeDepth \in Nat
  BY ReadAssumption DEF AtTop, Reads
<1>2. Len(st) \in 1 .. (MaxIncludeDepth + 1) /\ FrameIs(fs, fr) /\ fr \in Frames
  BY <1>1, TopIs
<1>3. fr.at < Len(fs[fr.file])
  BY DEF AtTop
<1> HIDE DEF fr
<1>4. fr.file \in Files /\ fr.at \in Nat /\ Len(fs[fr.file]) \in Nat
  BY <1>1, <1>2 DEF Frames, FilesTyped
<1>5. fr.at + 1 \in 1 .. Len(fs[fr.file])
  BY <1>3, <1>4
<1>6. QED
  BY <1>1, <1>2, <1>3, <1>4, <1>5 DEF fr

\* The reading goes on as ssh does past a Host or Match line.
LEMMA OpensBlock ==
    ASSUME NEW fs, NEW st, NEW un, NEW bs, AtTop(fs, st, un, bs), NEW isMatch \in BOOLEAN,
           fs[st[Len(st)].file][st[Len(st)].at + 1].kind = (IF isMatch THEN "match" ELSE "host"),
           NEW patterns,
           patterns = (IF isMatch THEN {} ELSE fs[st[Len(st)].file][st[Len(st)].at + 1].patterns)
    PROVE  Reads(fs, [st EXCEPT ![Len(st)] = Opened(st[Len(st)], patterns, isMatch)], un, bs)
<1> DEFINE n == Len(st)
           fr == st[n]
           nf == Opened(fr, patterns, isMatch)
           line == fs[fr.file][fr.at + 1]
<1>1. /\ FilesTyped(fs) /\ MaxIncludeDepth \in Nat
      /\ FrameIs(fs, fr) /\ fr \in Frames /\ fr.file \in Files /\ fr.at \in Nat
      /\ fr.at < Len(fs[fr.file]) /\ fr.at + 1 \in 1 .. Len(fs[fr.file])
      /\ n \in 1 .. (MaxIncludeDepth + 1)
  BY AtTopIs
<1>2. line.patterns \in SUBSET Patterns /\ (line.kind = "host" => line.patterns # {})
  BY <1>1, LineIs
<1>3. line.kind = (IF isMatch THEN "match" ELSE "host")
      /\ patterns = (IF isMatch THEN {} ELSE line.patterns)
  OBVIOUS
<1>4. patterns \in SUBSET Patterns /\ (~isMatch => patterns # {})
      /\ (isMatch => fs[fr.file][fr.at + 1].kind = "match")
  BY <1>2, <1>3
<1>5. /\ FrameIs(fs, nf)
      /\ nf.at = fr.at + 1 /\ nf.file = fr.file /\ nf.enclosing = fr.enclosing
      /\ nf.global = fr.global /\ nf.blocks = Read!Closed(fr)
      /\ nf.current \in GoodBlocks /\ nf.current # Read!NoBlock
      /\ nf.current.isMatch = isMatch /\ nf.current.patterns = patterns
      /\ nf.current.values = <<>> /\ nf.current.line = <<fr.file, fr.at + 1>>
      /\ nf.current.enclosing = fr.enclosing
  <2> DEFINE place == <<fr.file, fr.at + 1>>
  <2>1. place = <<fr.file, fr.at + 1>>
    OBVIOUS
  <2> HIDE DEF fr, line, place
  <2>2. IsOpened(fs, fr, Opened(fr, patterns, isMatch), patterns, isMatch, place)
    BY <1>1, <1>4, <2>1, OpenedIs
  <2> HIDE DEF nf
  <2>3. IsOpened(fs, fr, nf, patterns, isMatch, place)
    BY <2>2 DEF nf
  <2>4. QED
    BY <2>1, <2>3 DEF IsOpened
<1> HIDE DEF nf
<1>6. ASSUME NEW what \in Kinds, NEW a \in Apart(fs), FrameRight(fs, n, fr, fr.at, what, a)
      PROVE  FrameRight(fs, n, nf, nf.at, what, a)
  <2>1. fs[fr.file][fr.at + 1].kind = (IF isMatch THEN "match" ELSE "host")
        /\ nf.current.patterns = (IF isMatch THEN {} ELSE fs[fr.file][fr.at + 1].patterns)
    BY <1>3, <1>5
  <2> HIDE DEF fr, n, line
  <2>2. FrameRight(fs, n, nf, fr.at + 1, what, a)
    BY <1>1, <1>5, <1>6, <2>1, BlockOpens
  <2>3. QED
    BY <1>5, <2>2
<1>7. Reads(fs, st, un, bs) /\ st # <<>>
  BY DEF AtTop
<1>8. fs[nf.file][nf.at].kind \notin {"include", "broken"}
  BY <1>3, <1>5
<1>9. Reads(fs, [st EXCEPT ![Len(st)] = nf], un, bs)
  BY <1>5, <1>6, <1>7, <1>8, ReadsOn
<1>10. QED
  BY <1>9 DEF nf

\* The reading goes on as ssh does past a line that gives a value.
LEMMA GivesValue ==
    ASSUME NEW fs, NEW st, NEW un, NEW bs, AtTop(fs, st, un, bs),
           fs[st[Len(st)].file][st[Len(st)].at + 1].kind = "set"
    PROVE  Reads(fs, [st EXCEPT ![Len(st)] = Given(st[Len(st)])], un, bs)
<1> DEFINE n == Len(st)
           fr == st[n]
           nf == Given(fr)
<1>1. /\ FilesTyped(fs) /\ MaxIncludeDepth \in Nat
      /\ FrameIs(fs, fr) /\ fr \in Frames /\ fr.file \in Files /\ fr.at \in Nat
      /\ fr.at < Len(fs[fr.file]) /\ fr.at + 1 \in 1 .. Len(fs[fr.file])
      /\ n \in 1 .. (MaxIncludeDepth + 1)
  BY AtTopIs
<1>2. fs[fr.file][fr.at + 1].kind = "set"
  OBVIOUS
<1>3. Reads(fs, st, un, bs) /\ st # <<>>
  BY DEF AtTop
<1>4. /\ FrameIs(fs, nf)
      /\ nf.at = fr.at + 1 /\ nf.file = fr.file /\ nf.enclosing = fr.enclosing
      /\ nf.blocks = fr.blocks
      /\ IF fr.current = Read!NoBlock
         THEN nf.current = fr.current /\ nf.global = Append(fr.global, <<fr.file, fr.at + 1>>)
         ELSE /\ nf.global = fr.global
              /\ nf.current # Read!NoBlock
              /\ nf.current.isMatch = fr.current.isMatch
              /\ nf.current.patterns = fr.current.patterns
              /\ nf.current.line = fr.current.line
              /\ nf.current.enclosing = fr.current.enclosing
              /\ nf.current.values = Append(fr.current.values, <<fr.file, fr.at + 1>>)
  <2> HIDE DEF fr
  <2>1. QED
    BY <1>1, <1>2, GivenIs
<1> HIDE DEF nf
<1>5. ASSUME NEW what \in Kinds, NEW a \in Apart(fs), FrameRight(fs, n, fr, fr.at, what, a)
      PROVE  FrameRight(fs, n, nf, nf.at, what, a)
  <2> HIDE DEF fr, n
  <2>1. FrameRight(fs, n, nf, fr.at + 1, what, a)
    BY <1>1, <1>2, <1>4, <1>5, DirectiveGiven
  <2>2. QED
    BY <1>4, <2>1
<1>6. fs[nf.file][nf.at].kind \notin {"include", "broken"}
  BY <1>2, <1>4
<1>7. Reads(fs, [st EXCEPT ![Len(st)] = nf], un, bs)
  BY <1>3, <1>4, <1>5, <1>6, ReadsOn, SMTT(20)
<1>8. QED
  BY <1>7 DEF nf

\* The reading goes on as ssh does into an included file.
LEMMA IncludesFile ==
    ASSUME NEW fs, NEW st, NEW un, NEW bs, AtTop(fs, st, un, bs), Len(st) <= MaxIncludeDepth,
           fs[st[Len(st)].file][st[Len(st)].at + 1].kind = "include",
           NEW next,
           next = Read!Frame(fs[st[Len(st)].file][st[Len(st)].at + 1].file,
                             Read!Inner(st[Len(st)]))
    PROVE  Reads(fs, Append([st EXCEPT ![Len(st)] = Including(st[Len(st)])], next), un, bs)
<1> DEFINE n == Len(st)
           fr == st[n]
           nf == Including(fr)
           line == fs[fr.file][fr.at + 1]
<1>1. /\ FilesTyped(fs) /\ MaxIncludeDepth \in Nat
      /\ FrameIs(fs, fr) /\ fr \in Frames /\ fr.file \in Files /\ fr.at \in Nat
      /\ fr.at < Len(fs[fr.file]) /\ fr.at + 1 \in 1 .. Len(fs[fr.file])
      /\ n \in 1 .. (MaxIncludeDepth + 1)
  BY AtTopIs, SMTT(20)
<1>2. line.kind = "include" /\ next = Read!Frame(line.file, Read!Inner(fr))
  BY SMTT(20)
<1>3. line.file \in Files
  BY <1>1, <1>2, LineIs
<1>4. Read!Inner(fr) \in Seq(SUBSET Patterns)
  BY <1>1, InnerIs
<1>5. /\ FrameIs(fs, next) /\ next \in Frames /\ next.file = line.file /\ next.at = 0
      /\ next.enclosing = Read!Inner(fr) /\ next.blocks = <<>> /\ next.global = <<>>
      /\ next.current = Read!NoBlock
  <2> HIDE DEF line, fr
  <2>1. QED
    BY <1>1, <1>2, <1>3, <1>4, FrameBegins
<1>6. Reads(fs, st, un, bs) /\ st # <<>>
  BY DEF AtTop
<1>7. /\ FrameIs(fs, nf)
      /\ nf.at = fr.at + 1 /\ nf.file = fr.file /\ nf.enclosing = fr.enclosing
      /\ nf.global = fr.global /\ nf.current.values = <<>>
      /\ IF fr.current # Read!NoBlock /\ fr.current.values # <<>>
         THEN /\ nf.blocks = Append(fr.blocks, fr.current)
              /\ nf.current # Read!NoBlock
              /\ nf.current.isMatch = fr.current.isMatch
              /\ nf.current.patterns = fr.current.patterns
              /\ nf.current.line = fr.current.line
              /\ nf.current.enclosing = fr.current.enclosing
              /\ nf.current.values = <<>>
         ELSE nf.blocks = fr.blocks /\ nf.current = fr.current
      /\ Read!Inner(nf) = Read!Inner(fr)
  <2>1. fs[fr.file][fr.at + 1].kind = "include"
    BY <1>2
  <2> HIDE DEF fr
  <2>2. QED
    BY <1>1, <2>1, IncludingIs
<1> HIDE DEF nf
<1>8. ASSUME NEW what \in Kinds, NEW a \in Apart(fs), FrameRight(fs, n, fr, fr.at, what, a)
      PROVE  FrameRight(fs, n, nf, fr.at, what, a)
  <2> HIDE DEF fr, n
  <2>1. QED
    BY <1>1, <1>7, <1>8, IncludeBegins
<1>9. Below(fs, nf, next)
  <2>1. nf.at # 0
    BY <1>1, <1>7
  <2>2. QED
    BY <1>2, <1>5, <1>7, <2>1 DEF Below
<1>10. Reads(fs, Append([st EXCEPT ![Len(st)] = nf], next), un, bs)
  BY <1>1, <1>5, <1>6, <1>7, <1>8, <1>9, ReadsIn
<1>11. QED
  BY <1>10 DEF nf

\* The reading goes on as ssh does past an Include of no file.
LEMMA PassesNothing ==
    ASSUME NEW fs, NEW st, NEW un, NEW bs, AtTop(fs, st, un, bs),
           fs[st[Len(st)].file][st[Len(st)].at + 1].kind = "nothing"
    PROVE  Reads(fs, [st EXCEPT ![Len(st)] = Including(st[Len(st)])], un, bs)
<1> DEFINE n == Len(st)
           fr == st[n]
           nf == Including(fr)
<1>1. /\ FilesTyped(fs) /\ MaxIncludeDepth \in Nat
      /\ FrameIs(fs, fr) /\ fr \in Frames /\ fr.file \in Files /\ fr.at \in Nat
      /\ fr.at < Len(fs[fr.file]) /\ fr.at + 1 \in 1 .. Len(fs[fr.file])
      /\ n \in 1 .. (MaxIncludeDepth + 1)
  BY AtTopIs
<1>2. fs[fr.file][fr.at + 1].kind = "nothing"
  OBVIOUS
<1>3. Reads(fs, st, un, bs) /\ st # <<>>
  BY DEF AtTop
<1>4. /\ FrameIs(fs, nf)
      /\ nf.at = fr.at + 1 /\ nf.file = fr.file /\ nf.enclosing = fr.enclosing
      /\ nf.global = fr.global
      /\ IF fr.current # Read!NoBlock /\ fr.current.values # <<>>
         THEN /\ nf.blocks = Append(fr.blocks, fr.current)
              /\ nf.current # Read!NoBlock
              /\ nf.current.isMatch = fr.current.isMatch
              /\ nf.current.patterns = fr.current.patterns
              /\ nf.current.line = fr.current.line
              /\ nf.current.enclosing = fr.current.enclosing
              /\ nf.current.values = <<>>
         ELSE nf.blocks = fr.blocks /\ nf.current = fr.current
  <2> HIDE DEF fr
  <2>1. QED
    BY <1>1, <1>2, IncludingIs
<1> HIDE DEF nf
<1>5. ASSUME NEW what \in Kinds, NEW a \in Apart(fs), FrameRight(fs, n, fr, fr.at, what, a)
      PROVE  FrameRight(fs, n, nf, nf.at, what, a)
  <2> HIDE DEF fr, n
  <2>1. FrameRight(fs, n, nf, fr.at, what, a)
    BY <1>1, <1>4, <1>5, IncludeBegins
  <2>2. FrameRight(fs, n, nf, fr.at + 1, what, a)
    BY <1>1, <1>2, <1>4, <2>1, NothingRead
  <2>3. QED
    BY <1>4, <2>2
<1>6. fs[nf.file][nf.at].kind \notin {"include", "broken"}
  BY <1>2, <1>4
<1>7. Reads(fs, [st EXCEPT ![Len(st)] = nf], un, bs)
  BY <1>3, <1>4, <1>5, <1>6, ReadsOn
<1>8. QED
  BY <1>7 DEF nf

\* The files in progress are a chain of Includes from one of the paths.
LEMMA StackLeads ==
    ASSUME NEW fs, NEW st, NEW un, NEW bs, AtTop(fs, st, un, bs)
    PROVE  /\ \A k \in 1 .. Len(st) : st[k].file \in Files
           /\ \A k \in 1 .. (Len(st) - 1) : \E i \in DOMAIN fs[st[k].file] :
                 fs[st[k].file][i].kind = "include" /\ fs[st[k].file][i].file = st[k + 1].file
           /\ Begun(un) \in 1 .. Len(Paths) /\ st[1].file = Paths[Begun(un)]
<1>1. StackIs(fs, st) /\ PathsIs(st, un) /\ st # <<>> /\ FilesTyped(fs)
  BY DEF AtTop, Reads
<1>2. Len(st) \in Nat
  BY <1>1, TopIs
<1>3. \A k \in 1 .. Len(st) : st[k] \in Frames /\ st[k].file \in Files /\ st[k].at <= Len(fs[st[k].file])
  <2>1. \A k \in 1 .. Len(st) : FrameIs(fs, st[k])
    BY <1>1 DEF StackIs
  <2>2. QED
    BY <2>1 DEF FrameIs, Frames
<1>4. ASSUME NEW k \in 1 .. (Len(st) - 1)
      PROVE  \E i \in DOMAIN fs[st[k].file] :
                fs[st[k].file][i].kind = "include" /\ fs[st[k].file][i].file = st[k + 1].file
  <2>1. Below(fs, st[k], st[k + 1])
    BY <1>1 DEF StackIs
  <2>2. k \in 1 .. Len(st)
    BY <1>2
  <2>3. st[k] \in Frames /\ st[k].file \in Files /\ st[k].at <= Len(fs[st[k].file])
    BY <1>3, <2>2
  <2>4. fs[st[k].file] \in Seq(ConfigLines)
    BY <1>1, <2>3 DEF FilesTyped
  <2>5. st[k].at \in Nat /\ st[k].at # 0
    BY <2>1, <2>3 DEF Frames, Below
  <2>6. st[k].at \in DOMAIN fs[st[k].file]
    BY <2>3, <2>4, <2>5
  <2>7. QED
    BY <2>1, <2>6 DEF Below
<1>5. Begun(un) \in 1 .. Len(Paths) /\ st[1].file = Paths[Begun(un)]
  <2>1. Begun(un) \in 0 .. Len(Paths) /\ Begun(un) # 0 /\ st[1].file = Paths[Begun(un)]
    BY <1>1 DEF PathsIs
  <2> DEFINE b == Begun(un)
  <2> HIDE DEF b
  <2>2. b \in 1 .. Len(Paths)
    <3>1. b \in 0 .. Len(Paths) /\ b # 0 /\ Len(Paths) \in Nat
      BY <2>1, ReadAssumption DEF b
    <3>2. QED
      BY <3>1
  <2>3. QED
    BY <2>1, <2>2 DEF b
<1>6. QED
  BY <1>3, <1>4, <1>5

\* An Include deeper than the bound: the files in progress are the chain.
LEMMA TooDeepIs ==
    ASSUME NEW fs, NEW st, NEW un, NEW bs, AtTop(fs, st, un, bs), ~(Len(st) <= MaxIncludeDepth),
           fs[st[Len(st)].file][st[Len(st)].at + 1].kind = "include"
    PROVE  TooDeep(fs)
<1> DEFINE n == Len(st)
           fr == st[n]
           line == fs[fr.file][fr.at + 1]
           chain == [k \in 0 .. (MaxIncludeDepth + 1) |-> IF k = n THEN line.file ELSE st[k + 1].file]
<1>1. /\ FilesTyped(fs) /\ MaxIncludeDepth \in Nat
      /\ fr.file \in Files /\ fr.at + 1 \in 1 .. Len(fs[fr.file])
      /\ n \in 1 .. (MaxIncludeDepth + 1)
  BY AtTopIs
<1>2. line.kind = "include"
  OBVIOUS
<1>3. line.file \in Files
  BY <1>1, <1>2, LineIs
<1>4. /\ \A k \in 1 .. n : st[k].file \in Files
      /\ \A k \in 1 .. (n - 1) : \E i \in DOMAIN fs[st[k].file] :
            fs[st[k].file][i].kind = "include" /\ fs[st[k].file][i].file = st[k + 1].file
      /\ Begun(un) \in 1 .. Len(Paths) /\ st[1].file = Paths[Begun(un)]
  BY StackLeads
<1>5. n = MaxIncludeDepth + 1 /\ n \in Nat /\ n # 0
  BY <1>1
<1>6. chain \in [0 .. n -> Files] /\ chain[0] = st[1].file /\ chain[n] = line.file
      /\ \A k \in 1 .. n : chain[k - 1] = st[k].file
  <2>1. chain = [k \in 0 .. n |-> IF k = n THEN line.file ELSE st[k + 1].file]
    BY <1>5
  <2>2. \A k \in 0 .. n : k # n => k + 1 \in 1 .. n
    BY <1>5
  <2> HIDE DEF chain, line, fr, n
  <2>3. chain \in [0 .. n -> Files]
    BY <1>3, <1>4, <2>1, <2>2
  <2>4. 0 \in 0 .. n /\ 0 # n /\ n \in 0 .. n /\ 0 + 1 = 1
        /\ \A k \in 1 .. n : k - 1 \in 0 .. n /\ k - 1 # n /\ (k - 1) + 1 = k
    BY <1>5
  <2>5. QED
    BY <2>1, <2>3, <2>4
<1> HIDE DEF chain
<1>7. ASSUME NEW k \in 1 .. n
      PROVE  \E i \in DOMAIN fs[chain[k - 1]] :
                fs[chain[k - 1]][i].kind = "include" /\ fs[chain[k - 1]][i].file = chain[k]
  <2>1. CASE k = n
    <3>1. fr.at + 1 \in DOMAIN fs[fr.file]
      BY <1>1 DEF FilesTyped
    <3>2. chain[k - 1] = fr.file /\ chain[k] = line.file
      BY <1>6, <2>1
    <3>3. QED
      BY <1>2, <3>1, <3>2
  <2>2. CASE k # n
    <3>1. k \in 1 .. (n - 1) /\ k + 1 \in 1 .. n /\ (k + 1) - 1 = k
      BY <1>5, <2>2
    <3>2. chain[k - 1] = st[k].file /\ chain[k] = st[k + 1].file
      <4>1. chain[(k + 1) - 1] = st[k + 1].file
        BY <1>6, <3>1
      <4>2. QED
        BY <1>6, <3>1, <4>1
    <3>3. QED
      BY <1>4, <3>1, <3>2
  <2>3. QED
    BY <2>1, <2>2
<1>8. Leads(fs, st[1].file, MaxIncludeDepth + 1)
  BY <1>5, <1>6, <1>7 DEF Leads
<1>9. QED
  BY <1>4, <1>8 DEF TooDeep

\* A line that cannot be read: they lead to it.
LEMMA BrokenIs ==
    ASSUME NEW fs, NEW st, NEW un, NEW bs, AtTop(fs, st, un, bs),
           fs[st[Len(st)].file][st[Len(st)].at + 1].kind = "broken"
    PROVE  Broken(fs)
<1> DEFINE n == Len(st)
           m == n - 1
           fr == st[n]
           chain == [k \in 0 .. m |-> st[k + 1].file]
<1>1. /\ FilesTyped(fs) /\ MaxIncludeDepth \in Nat
      /\ fr.file \in Files /\ fr.at + 1 \in 1 .. Len(fs[fr.file])
      /\ n \in 1 .. (MaxIncludeDepth + 1)
  BY AtTopIs
<1>2. /\ \A k \in 1 .. n : st[k].file \in Files
      /\ \A k \in 1 .. (n - 1) : \E i \in DOMAIN fs[st[k].file] :
            fs[st[k].file][i].kind = "include" /\ fs[st[k].file][i].file = st[k + 1].file
      /\ Begun(un) \in 1 .. Len(Paths) /\ st[1].file = Paths[Begun(un)]
  BY StackLeads
<1>3. \E i \in DOMAIN fs[fr.file] : fs[fr.file][i].kind = "broken"
  <2>1. fr.at + 1 \in DOMAIN fs[fr.file]
    BY <1>1 DEF FilesTyped
  <2>2. QED
    BY <2>1
<1> HIDE DEF n
<1>4. /\ m \in 0 .. MaxIncludeDepth /\ m \in Nat /\ m + 1 = n /\ 0 + 1 = 1
      /\ \A k \in 0 .. m : k + 1 \in 1 .. n
      /\ \A k \in 1 .. m : k \in 1 .. (n - 1) /\ k - 1 \in 0 .. m /\ k \in 0 .. m /\ (k - 1) + 1 = k
      /\ 0 \in 0 .. m /\ m \in 0 .. m
  BY <1>1
<1> HIDE DEF m, fr
<1>5. chain \in [0 .. m -> Files] /\ \A k \in 0 .. m : chain[k] = st[k + 1].file
  BY <1>2, <1>4
<1> HIDE DEF chain
<1>6. chain[0] = Paths[Begun(un)] /\ chain[m] = fr.file
  BY <1>2, <1>4, <1>5 DEF fr
<1>7. ASSUME NEW k \in 1 .. m
      PROVE  \E i \in DOMAIN fs[chain[k - 1]] :
                fs[chain[k - 1]][i].kind = "include" /\ fs[chain[k - 1]][i].file = chain[k]
  <2>1. chain[k - 1] = st[k].file /\ chain[k] = st[k + 1].file
    <3>1. k - 1 \in 0 .. m /\ k \in 0 .. m /\ (k - 1) + 1 = k
      BY <1>4
    <3>2. QED
      BY <1>5, <3>1
  <2>2. k \in 1 .. (n - 1)
    BY <1>4
  <2>3. QED
    BY <1>2, <2>1, <2>2
<1>8. \E p \in 1 .. Len(Paths) : Paths[p] = chain[0]
  BY <1>2, <1>6
<1>9. \E i \in DOMAIN fs[chain[m]] : fs[chain[m]][i].kind = "broken"
  BY <1>3, <1>6
<1>10. QED
  BY <1>4, <1>5, <1>7, <1>8, <1>9 DEF Broken

\* A step that leaves the files alone keeps the invariant when it keeps the reading.
LEMMA ReadKept ==
    ASSUME ReadInv, UNCHANGED files, Reads(files, stack', unread', blocks'),
           status' = "reading"
    PROVE  ReadInv'
  BY DEF ReadInv

\* Every step of the reading keeps the invariant.
LEMMA ReadStep ==
    ASSUME ReadInv, Read!Next PROVE ReadInv'
<1> DEFINE n == Len(stack)
           fr == stack[n]
           line == files[fr.file][fr.at + 1]
<1>1. FilesTyped(files) /\ Reads(files, stack, unread, blocks)
  BY ReadAssumption DEF ReadInv, FilesTyped
<1>2. ASSUME NEW kind, Read!AtLine(kind)
      PROVE  status = "reading" /\ AtTop(files, stack, unread, blocks) /\ line.kind = kind
  BY <1>1, <1>2 DEF Read!AtLine, Read!Top, Read!Line, AtTop
<1>3. CASE Read!HostLine
  <2>1. status = "reading" /\ AtTop(files, stack, unread, blocks) /\ line.kind = "host"
    BY <1>2, <1>3 DEF Read!HostLine
  <2> DEFINE nf == Opened(fr, line.patterns, FALSE)
             st == [stack EXCEPT ![n] = nf]
  <2>2. stack' = st /\ UNCHANGED <<files, unread, blocks, status>>
    BY <1>3, Zenon DEF Read!HostLine, Read!Advance, Read!Open, Read!Here, Read!Top, Read!Line,
                       Opened, Onward
  <2>3. Reads(files, st, unread, blocks)
    <3> DEFINE isMatch == FALSE
    <3>1. isMatch \in BOOLEAN /\ ~isMatch
      OBVIOUS
    <3> HIDE DEF isMatch
    <3>2. Reads(files, [stack EXCEPT ![n] = Opened(fr, line.patterns, isMatch)], unread, blocks)
      BY <2>1, <3>1, OpensBlock
    <3>3. QED
      BY <3>2 DEF isMatch
  <2> HIDE DEF st
  <2>4. QED
    BY <2>1, <2>2, <2>3, ReadKept
<1>4. CASE Read!MatchLine
  <2>1. status = "reading" /\ AtTop(files, stack, unread, blocks) /\ line.kind = "match"
    BY <1>2, <1>4 DEF Read!MatchLine
  <2> DEFINE nf == Opened(fr, {}, TRUE)
             st == [stack EXCEPT ![n] = nf]
  <2>2. stack' = st /\ UNCHANGED <<files, unread, blocks, status>>
    BY <1>4, Zenon DEF Read!MatchLine, Read!Advance, Read!Open, Read!Here, Read!Top, Read!Line,
                       Opened, Onward
  <2>3. Reads(files, st, unread, blocks)
    <3> DEFINE isMatch == TRUE
    <3>1. isMatch \in BOOLEAN /\ isMatch
      OBVIOUS
    <3> HIDE DEF isMatch
    <3>2. Reads(files, [stack EXCEPT ![n] = Opened(fr, {}, isMatch)], unread, blocks)
      BY <2>1, <3>1, OpensBlock
    <3>3. QED
      BY <3>2 DEF isMatch
  <2> HIDE DEF st
  <2>4. QED
    BY <2>1, <2>2, <2>3, ReadKept
<1>5. CASE Read!DirectiveLine
  <2>1. status = "reading" /\ AtTop(files, stack, unread, blocks) /\ line.kind = "set"
    BY <1>2, <1>5 DEF Read!DirectiveLine
  <2> DEFINE st == [stack EXCEPT ![n] = Given(fr)]
  <2>2. stack' = st /\ UNCHANGED <<files, unread, blocks, status>>
    BY <1>5, Zenon DEF Read!DirectiveLine, Read!Advance, Read!Here, Read!Top, Given, Onward
  <2>3. Reads(files, st, unread, blocks)
    BY <2>1, GivesValue
  <2> HIDE DEF st
  <2>4. QED
    BY <2>1, <2>2, <2>3, ReadKept
<1>6. CASE Read!IncludeLine
  <2>1. /\ status = "reading" /\ AtTop(files, stack, unread, blocks) /\ line.kind = "include"
        /\ n <= MaxIncludeDepth
    BY <1>2, <1>6 DEF Read!IncludeLine
  <2> DEFINE st == Append([stack EXCEPT ![n] = Including(fr)],
                          Read!Frame(line.file, Read!Inner(fr)))
  <2>2. stack' = st /\ UNCHANGED <<files, unread, blocks, status>>
    BY <1>6, Zenon DEF Read!IncludeLine, Read!Descend, Read!Top, Read!Line, Including, Onward
  <2>3. Reads(files, st, unread, blocks)
    BY <2>1, IncludesFile
  <2> HIDE DEF st
  <2>4. QED
    BY <2>1, <2>2, <2>3, ReadKept
<1>7. CASE Read!IncludeNothing
  <2>1. status = "reading" /\ AtTop(files, stack, unread, blocks) /\ line.kind = "nothing"
    BY <1>2, <1>7 DEF Read!IncludeNothing
  <2> DEFINE st == [stack EXCEPT ![n] = Including(fr)]
  <2>2. stack' = st /\ UNCHANGED <<files, unread, blocks, status>>
    BY <1>7, Zenon DEF Read!IncludeNothing, Read!Advance, Read!Top, Including, Onward
  <2>3. Reads(files, st, unread, blocks)
    BY <2>1, PassesNothing
  <2> HIDE DEF st
  <2>4. QED
    BY <2>1, <2>2, <2>3, ReadKept
<1>8. CASE Read!Unreadable
  <2>1. AtTop(files, stack, unread, blocks) /\ line.kind = "broken"
    BY <1>2, <1>8 DEF Read!Unreadable
  <2>2. Broken(files)
    BY <2>1, BrokenIs
  <2>3. status' = "failed" /\ UNCHANGED <<files, unread, stack, blocks>>
    BY <1>8 DEF Read!Unreadable, Read!Refuse
  <2>4. QED
    BY <2>2, <2>3 DEF ReadInv
<1>9. CASE Read!IncludeTooDeep
  <2>1. /\ AtTop(files, stack, unread, blocks) /\ line.kind = "include"
        /\ ~(n <= MaxIncludeDepth)
    <3>1. n > MaxIncludeDepth
      BY <1>9 DEF Read!IncludeTooDeep
    <3>2. AtTop(files, stack, unread, blocks) /\ line.kind = "include"
      BY <1>2, <1>9 DEF Read!IncludeTooDeep
    <3>3. n \in Nat /\ MaxIncludeDepth \in Nat
      BY <3>2, AtTopIs
    <3>4. QED
      BY <3>1, <3>2, <3>3
  <2>2. TooDeep(files)
    BY <2>1, TooDeepIs
  <2>3. status' = "failed" /\ UNCHANGED <<files, unread, stack, blocks>>
    BY <1>9 DEF Read!IncludeTooDeep, Read!Refuse
  <2>4. QED
    BY <2>2, <2>3 DEF ReadInv
<1>10. CASE Read!EndOfFile
  <2>1. /\ status = "reading" /\ stack # <<>> /\ fr.at = Len(files[fr.file])
        /\ UNCHANGED <<files, unread, status>>
    BY <1>10 DEF Read!EndOfFile, Read!Top
  <2>2. n \in Nat /\ n # 0
    <3>1. StackIs(files, stack)
      BY <1>1 DEF Reads
    <3>2. QED
      BY <2>1, <3>1, TopIs
  <2>3. CASE n > 1
    <3> DEFINE st == [k \in 1 .. (Len(stack) - 1) |->
                        IF k = Len(stack) - 1 THEN Included(stack[k], stack[Len(stack)])
                        ELSE stack[k]]
    <3>1. stack' = st /\ UNCHANGED blocks
      BY <1>10, <2>3, Zenon DEF Read!EndOfFile, Read!Top, Included
    <3>2. Reads(files, st, unread, blocks)
      BY <1>1, <2>1, <2>3, ReadsOut
    <3> HIDE DEF st
    <3>3. QED
      BY <2>1, <3>1, <3>2, ReadKept
  <2>4. CASE ~(n > 1)
    <3>1. n = 1
      <4> HIDE DEF n
      <4>1. QED
        BY <2>2, <2>4
    <3> DEFINE bs == blocks \o Read!Parsed(fr)
    <3>2. stack' = <<>> /\ blocks' = bs
      BY <1>10, <2>4, Zenon DEF Read!EndOfFile, Read!Top
    <3>3. Reads(files, <<>>, unread, bs)
      BY <1>1, <2>1, <3>1, ReadsPath
    <3> HIDE DEF bs
    <3>4. QED
      BY <2>1, <3>2, <3>3, ReadKept
  <2>5. QED
    BY <2>3, <2>4
<1>11. CASE Read!NextPath
  <2>1. status = "reading" /\ stack = <<>> /\ UNCHANGED <<files, blocks>>
    BY <1>11 DEF Read!NextPath
  <2>2. CASE unread = <<>>
    <3>1. status' = "read" /\ UNCHANGED <<unread, stack>>
      BY <1>11, <2>2 DEF Read!NextPath
    <3>2. QED
      BY <2>1, <2>2, <3>1 DEF ReadInv
  <2>3. CASE unread # <<>>
    <3> DEFINE st == <<Read!Frame(Head(unread), <<>>)>>
               un == Tail(unread)
    <3>1. stack' = st /\ unread' = un /\ UNCHANGED status
      BY <1>11, <2>3 DEF Read!NextPath
    <3>2. Reads(files, st, un, blocks)
      BY <1>1, <2>1, <2>3, ReadsNext
    <3> HIDE DEF st, un
    <3>3. QED
      BY <2>1, <3>1, <3>2, ReadKept
  <2>4. QED
    BY <2>2, <2>3
<1>12. QED
  BY <1>3, <1>4, <1>5, <1>6, <1>7, <1>8, <1>9, <1>10, <1>11 DEF Read!Next

\* The invariant holds when the reading begins.
LEMMA ReadBegins ==
    ASSUME Read!Init PROVE ReadInv
<1> DEFINE st == <<Read!Frame(Head(Paths), <<>>)>>
           un == Tail(Paths)
           bs == <<>>
<1>1. /\ files \in Contents /\ unread = un /\ stack = st /\ blocks = bs /\ status = "reading"
  BY DEF Read!Init
<1>2. FilesTyped(files) /\ Paths # <<>>
  BY <1>1, ReadAssumption DEF FilesTyped
<1>3. Reads(files, st, un, bs)
  BY <1>2, ReadsNone, ReadsNext
<1> HIDE DEF st, un, bs
<1>4. Reads(files, stack, unread, blocks)
  BY <1>1, <1>3
<1>5. QED
  BY <1>1, <1>4 DEF ReadInv

-----------------------------------------------------------------------------
(* What it says of the blocks, and of the configs refused.                 *)

\* Among files that each include one of them, Includes lead as deep as one likes.
LEMMA LoopsLead ==
    ASSUME NEW fs, FilesTyped(fs), NEW loop \in SUBSET Files,
           \A f \in loop : \E g \in loop :
              \E i \in DOMAIN fs[f] : fs[f][i].kind = "include" /\ fs[f][i].file = g
    PROVE  \A d \in Nat : \A f \in loop : Leads(fs, f, d)
<1> DEFINE T == {d \in Nat : \A f \in loop : Leads(fs, f, d)}
<1>1. 0 \in T
  <2>1. ASSUME NEW f \in loop PROVE Leads(fs, f, 0)
    <3> DEFINE chain == [k \in 0 .. 0 |-> f]
    <3>1. chain \in [0 .. 0 -> Files] /\ chain[0] = f /\ 1 .. 0 = {}
      OBVIOUS
    <3> HIDE DEF chain
    <3>2. QED
      BY <3>1 DEF Leads
  <2>2. QED
    BY <2>1
<1>2. ASSUME NEW d \in Nat, d \in T PROVE d + 1 \in T
  <2>1. ASSUME NEW f \in loop PROVE Leads(fs, f, d + 1)
    <3>1. PICK g \in loop :
            \E i \in DOMAIN fs[f] : fs[f][i].kind = "include" /\ fs[f][i].file = g
      OBVIOUS
    <3>2. PICK chain \in [0 .. d -> Files] :
            /\ chain[0] = g
            /\ \A k \in 1 .. d : \E i \in DOMAIN fs[chain[k - 1]] :
                  /\ fs[chain[k - 1]][i].kind = "include"
                  /\ fs[chain[k - 1]][i].file = chain[k]
      BY <1>2 DEF Leads
    <3> DEFINE more == [k \in 0 .. (d + 1) |-> IF k = 0 THEN f ELSE chain[k - 1]]
    <3>3. more \in [0 .. (d + 1) -> Files] /\ more[0] = f
      OBVIOUS
    <3>4. \A k \in 1 .. (d + 1) : more[k] = chain[k - 1]
      OBVIOUS
    <3> HIDE DEF more
    <3>5. ASSUME NEW k \in 1 .. (d + 1)
          PROVE  \E i \in DOMAIN fs[more[k - 1]] :
                    fs[more[k - 1]][i].kind = "include" /\ fs[more[k - 1]][i].file = more[k]
      <4>1. CASE k = 1
        <5>1. more[k - 1] = f /\ more[k] = g
          <6>1. 1 - 1 = 0 /\ 1 \in 1 .. (d + 1)
            OBVIOUS
          <6>2. QED
            BY <3>2, <3>3, <3>4, <4>1, <6>1
        <5>2. QED
          BY <3>1, <5>1
      <4>2. CASE k # 1
        <5>1. k - 1 \in 1 .. (d + 1) /\ k - 1 \in 1 .. d
          BY <4>2
        <5>2. more[k - 1] = chain[(k - 1) - 1] /\ more[k] = chain[k - 1]
          BY <3>4, <5>1
        <5>3. QED
          BY <3>2, <5>1, <5>2
      <4>3. QED
        BY <4>1, <4>2
    <3>6. QED
      BY <3>3, <3>5 DEF Leads
  <2>2. QED
    BY <2>1
<1> HIDE DEF T
<1>3. Nat \subseteq T
  BY <1>1, <1>2, AllNumbers
<1>4. QED
  BY <1>3 DEF T

\* The nesting that is refused is that of the property, and so are the lines.
LEMMA RefusedIs ==
    /\ Read!NestTooDeep <=> TooDeep(files)
    /\ Read!ReachesBroken <=> Broken(files)
<1>1. DOMAIN Paths = 1 .. Len(Paths)
  BY ReadAssumption
<1>2. Read!NestTooDeep <=> TooDeep(files)
  BY <1>1 DEF Read!NestTooDeep, Read!Chains, Read!Includes, TooDeep, Leads
<1>3. Read!ReachesBroken <=> Broken(files)
  <2> DEFINE ends(m, chain) == \E i \in DOMAIN files[chain[m]] : files[chain[m]][i].kind = "broken"
             leads(m, chain) ==
                /\ \E p \in 1 .. Len(Paths) : Paths[p] = chain[0]
                /\ \A k \in 1 .. m : \E i \in DOMAIN files[chain[k - 1]] :
                      /\ files[chain[k - 1]][i].kind = "include"
                      /\ files[chain[k - 1]][i].file = chain[k]
  <2>1. \A m : Read!Chains(m) = {chain \in [0 .. m -> Files] : leads(m, chain)}
    BY <1>1 DEF Read!Chains, Read!Includes
  <2>2. Read!ReachesBroken
          <=> \E m \in 0 .. MaxIncludeDepth : \E chain \in Read!Chains(m) : ends(m, chain)
    BY DEF Read!ReachesBroken
  <2>3. Broken(files)
          <=> \E m \in 0 .. MaxIncludeDepth : \E chain \in [0 .. m -> Files] :
                 leads(m, chain) /\ ends(m, chain)
    BY DEF Broken
  <2> HIDE DEF leads, ends
  <2>4. \A m : (\E chain \in Read!Chains(m) : ends(m, chain))
                <=> \E chain \in [0 .. m -> Files] : leads(m, chain) /\ ends(m, chain)
    BY <2>1
  <2>5. QED
    BY <2>2, <2>3, <2>4, Zenon
<1>4. QED
  BY <1>2, <1>3

\* A config is refused for its nesting or such a line alone, and a loop is refused.
LEMMA ReadRefuses ==
    ASSUME ReadInv PROVE Read!LoopsAreRefused
<1>1. FilesTyped(files) /\ Reads(files, stack, unread, blocks) /\ MaxIncludeDepth \in Nat
  BY ReadAssumption DEF ReadInv, FilesTyped
<1>2. status = "failed" => TooDeep(files) \/ Broken(files)
  BY DEF ReadInv
<1>3. ASSUME status = "read" PROVE ~TooDeep(files) /\ ~Broken(files)
  <2>1. stack = <<>> /\ unread = <<>>
    BY <1>3 DEF ReadInv
  <2>2. Begun(unread) = Len(Paths)
    BY <2>1, ReadAssumption DEF Begun
  <2>3. \A m \in 1 .. Len(Paths) : ~Dead(files, Paths[m], MaxIncludeDepth + 1)
    BY <1>1, <2>1, <2>2 DEF Reads, PathsNest
  <2>4. ~TooDeep(files)
    BY <2>3 DEF TooDeep, Dead
  <2>5. Broken(files) => \E m \in 1 .. Len(Paths) : Breaks(files, Paths[m])
    <3>1. \A m \in 0 .. MaxIncludeDepth : m \in Nat
      BY <1>1
    <3>2. QED
      BY <3>1 DEF Broken, Breaks
  <2>6. QED
    BY <2>3, <2>4, <2>5 DEF Dead
<1>4. Read!IncludesLoop => TooDeep(files)
  <2> SUFFICES ASSUME Read!IncludesLoop PROVE TooDeep(files)
    OBVIOUS
  <2>1. PICK loop \in SUBSET Files :
          /\ \E m \in DOMAIN Paths : Paths[m] \in loop
          /\ \A f \in loop : \E g \in loop : Read!Includes(f, g)
    BY DEF Read!IncludesLoop
  <2>2. \A f \in loop : \E g \in loop :
           \E i \in DOMAIN files[f] : files[f][i].kind = "include" /\ files[f][i].file = g
    BY <2>1 DEF Read!Includes
  <2>3. \A d \in Nat : \A f \in loop : Leads(files, f, d)
    BY <1>1, <2>2, LoopsLead
  <2>4. PICK m \in 1 .. Len(Paths) : Paths[m] \in loop
    BY <2>1, ReadAssumption
  <2>5. MaxIncludeDepth + 1 \in Nat
    BY <1>1
  <2>6. QED
    BY <2>3, <2>4, <2>5 DEF TooDeep
<1>5. status \in {"reading", "read", "failed"}
  BY DEF ReadInv
<1>6. QED
  BY <1>2, <1>3, <1>4, <1>5, RefusedIs DEF Read!LoopsAreRefused

\* What has been read is what ssh finds.
LEMMA ReadFound ==
    ASSUME ReadInv, status = "read", NEW what \in Kinds, NEW a \in Apart(files)
    PROVE  Same(files, what, Got(what, blocks, a), Read!Ssh(what, a)) /\ blocks \in Seq(GoodBlocks)
<1>1. FilesTyped(files) /\ Reads(files, stack, unread, blocks) /\ MaxIncludeDepth \in Nat
      /\ Paths \in Seq(Files)
  BY ReadAssumption DEF ReadInv, FilesTyped
<1>2. stack = <<>> /\ unread = <<>>
  BY DEF ReadInv
<1>3. Begun(unread) = Len(Paths)
  BY <1>1, <1>2 DEF Begun
<1>4. Same(files, what, Got(what, blocks, a), PathsFound(files, what, a, Len(Paths)))
  BY <1>1, <1>2, <1>3 DEF Reads, PathsRight
<1>5. Read!Ssh(what, a) = PathsFound(files, what, a, Len(Paths))
  BY <1>1, SshIs
<1>6. QED
  BY <1>1, <1>4, <1>5 DEF Reads

\* Some block gives a value when, and only when, all together do.
LEMMA GivenAre ==
    ASSUME NEW bs \in Seq(GoodBlocks), NEW what \in Kinds, NEW a \in Aliases
    PROVE  Got(what, bs, a) # <<>> <=> \E k \in DOMAIN bs : Pick(what, bs[k], a) # <<>>
<1> DEFINE S == Givers(what, bs, a)
<1>1. S \in SUBSET (1 .. Len(bs)) /\ Len(bs) \in Nat
  BY DEF Givers
<1>2. S = {} => Got(what, bs, a) = <<>>
  BY DEF Got
<1>3. S # {} => Got(what, bs, a) = Pick(what, bs[Read!Earliest(S)], a)
  BY DEF Got
<1> HIDE DEF S
<1>4. S # {} => Read!Earliest(S) \in S
  BY <1>1, EarliestIs
<1>5. QED
  BY <1>2, <1>3, <1>4 DEF S, Givers

\* The hosts that are offered are those ssh is told of.
LEMMA ReadNames ==
    ASSUME ReadInv PROVE Read!NamesAsSsh
<1> SUFFICES ASSUME status = "read", NEW a \in Aliases, Read!MatchApart(a)
             PROVE  /\ a \in Read!Offered <=> Read!Ssh("declared", a) # <<>>
                    /\ Read!Defined(a) <=> Read!Ssh("defined", a) # <<>>
  BY DEF Read!NamesAsSsh
<1>1. "declared" \in Kinds /\ "defined" \in Kinds /\ a \in Apart(files)
  BY DEF Kinds, Apart, Read!MatchApart
<1>2. /\ blocks \in Seq(GoodBlocks)
      /\ Got("declared", blocks, a) # <<>> <=> Read!Ssh("declared", a) # <<>>
      /\ Got("defined", blocks, a) # <<>> <=> Read!Ssh("defined", a) # <<>>
  BY <1>1, ReadFound DEF Same
<1>3. \A k \in DOMAIN blocks : blocks[k] \in GoodBlocks
  BY <1>2
<1>4. Read!CatchAll.kind = "all" /\ Read!Alias(a).kind = "alias" /\ Read!Alias(a).neg = FALSE
      /\ Read!CatchAll.neg = FALSE
  BY DEF Read!CatchAll, Read!Alias
<1>5. ASSUME NEW k \in DOMAIN blocks
      PROVE  Pick("declared", blocks[k], a) # <<>>
               <=> /\ ~blocks[k].isMatch /\ Read!Alias(a) \in blocks[k].patterns
                   /\ Read!EnclosingMatches(blocks[k].enclosing, a)
  <2> DEFINE b == blocks[k]
  <2>1. b \in GoodBlocks
    BY <1>3
  <2> HIDE DEF b
  <2>2. Read!Alias(a) \in b.patterns => b.line # <<>>
    BY <1>4, <2>1, LinesAreSomewhere DEF GoodBlocks
  <2>3. Pick("declared", b, a)
          = IF ~b.isMatch /\ Read!EnclosingMatches(b.enclosing, a) /\ Read!Alias(a) \in b.patterns
            THEN b.line ELSE <<>>
    BY DEF Pick
  <2>4. QED
    BY <2>2, <2>3 DEF b
<1>6. ASSUME NEW k \in DOMAIN blocks
      PROVE  Pick("defined", blocks[k], a) # <<>>
               <=> Read!Applies(blocks[k], a) /\ ~Read!IsCatchAll(blocks[k].patterns)
  <2> DEFINE b == blocks[k]
  <2>1. b \in GoodBlocks
    BY <1>3
  <2> HIDE DEF b
  <2>2. ~Read!IsCatchAll(b.patterns) => b.line # <<>>
    BY <2>1, LinesAreSomewhere DEF GoodBlocks, Read!IsCatchAll
  <2>3. Pick("defined", b, a)
          = IF Read!Applies(b, a) /\ ~Read!IsCatchAll(b.patterns) THEN b.line ELSE <<>>
    BY DEF Pick, Read!Applies
  <2>4. QED
    BY <2>2, <2>3 DEF b
<1>7. a \in Read!Offered <=> Got("declared", blocks, a) # <<>>
  BY <1>1, <1>2, <1>5, GivenAre DEF Read!Offered
<1>8. Read!Defined(a) <=> Got("defined", blocks, a) # <<>>
  BY <1>1, <1>2, <1>6, GivenAre DEF Read!Defined
<1>9. QED
  BY <1>2, <1>7, <1>8

\* The values of a host are those ssh gives it.
LEMMA ReadValues ==
    ASSUME ReadInv PROVE Read!ValuesAsSsh
<1> SUFFICES ASSUME status = "read", Read!DefaultsLead, NEW a \in Aliases, Read!MatchApart(a)
             PROVE  Read!Value(a) = Read!Ssh("value", a)
  BY DEF Read!ValuesAsSsh
<1>1. "value" \in Kinds /\ a \in Apart(files)
  BY DEF Kinds, Apart, Read!MatchApart
<1>2. Leading(files)
  BY DEF Read!DefaultsLead, Leading
<1>3. blocks \in Seq(GoodBlocks) /\ Got("value", blocks, a) = Read!Ssh("value", a)
  BY <1>1, <1>2, ReadFound DEF Same
<1>4. ASSUME NEW k \in DOMAIN blocks
      PROVE  /\ Pick("value", blocks[k], a) # <<>>
                  <=> Read!Applies(blocks[k], a) /\ blocks[k].values # <<>>
             /\ Pick("value", blocks[k], a) # <<>> => Pick("value", blocks[k], a) = Head(blocks[k].values)
  <2> DEFINE b == blocks[k]
  <2>1. b \in GoodBlocks
    BY <1>3
  <2> HIDE DEF b
  <2>2. b.values \in Seq(Lines)
    BY <2>1 DEF GoodBlocks, Blocks
  <2>3. b.values # <<>> => Head(b.values) # <<>>
    BY <2>2, LinesAreSomewhere
  <2>4. Pick("value", b, a)
          = IF Read!Applies(b, a) /\ b.values # <<>> THEN Head(b.values) ELSE <<>>
    BY DEF Pick
  <2>5. QED
    BY <2>3, <2>4 DEF b
<1> DEFINE S == {k \in DOMAIN blocks : Read!Applies(blocks[k], a) /\ blocks[k].values # <<>>}
<1>5. S = Givers("value", blocks, a)
  BY <1>4 DEF Givers
<1>6. Read!Value(a) = IF S = {} THEN <<>> ELSE Head(blocks[Read!Earliest(S)].values)
  BY DEF Read!Value
<1>7. Got("value", blocks, a)
        = IF S = {} THEN <<>> ELSE Pick("value", blocks[Read!Earliest(S)], a)
  BY <1>5 DEF Got
<1>8. S \in SUBSET (1 .. Len(blocks)) /\ Len(blocks) \in Nat /\ S \subseteq Givers("value", blocks, a)
  BY <1>3, <1>5
<1> HIDE DEF S
<1>9. S # {} => Read!Earliest(S) \in S
  BY <1>8, EarliestIs
<1>10. S # {} => Pick("value", blocks[Read!Earliest(S)], a) = Head(blocks[Read!Earliest(S)].values)
  BY <1>4, <1>8, <1>9 DEF Givers
<1>11. QED
  BY <1>3, <1>6, <1>7, <1>10

\* The reading is well typed.
LEMMA ReadTypes ==
    ASSUME ReadInv PROVE Read!SSHConfigTypeOK
<1>1. StackIs(files, stack) /\ blocks \in Seq(GoodBlocks) /\ FilesTyped(files)
      /\ MaxIncludeDepth \in Nat
  BY ReadAssumption DEF ReadInv, Reads, FilesTyped
<1>2. stack \in Seq(Frames) /\ Len(stack) <= MaxIncludeDepth + 1
      /\ \A k \in 1 .. Len(stack) : FrameIs(files, stack[k])
  BY <1>1 DEF StackIs
<1>3. Len(stack) \in 0 .. (MaxIncludeDepth + 1)
  BY <1>1, <1>2
<1>4. ASSUME NEW k \in DOMAIN stack PROVE stack[k].at \in 0 .. Len(files[stack[k].file])
  <2>1. FrameIs(files, stack[k])
    BY <1>2
  <2>2. stack[k].file \in Files /\ stack[k].at \in Nat /\ stack[k].at <= Len(files[stack[k].file])
    BY <2>1 DEF FrameIs, Frames
  <2>3. Len(files[stack[k].file]) \in Nat
    BY <1>1, <2>2 DEF FilesTyped
  <2>4. QED
    BY <2>2, <2>3
<1>5. ASSUME NEW k \in DOMAIN blocks PROVE blocks[k].isMatch \/ blocks[k].patterns # {}
  <2>1. blocks[k] \in GoodBlocks
    BY <1>1
  <2>2. QED
    BY <2>1 DEF GoodBlocks
<1>6. QED
  BY <1>3, <1>4, <1>5 DEF ReadInv, Read!SSHConfigTypeOK

\* Whatever the files hold: a config is refused exactly if its Includes nest too deep or
\* a part of it cannot be read, and what another is read as, for the hosts that no Match
\* block bears on, is what ssh makes of it (sshconfig.go:124-166, 202-207, 344-361,
\* 397-471, 482-484).
THEOREM ConfigReadsAsSsh == Spec => []ReadsAsSsh
<1> DEFINE Inv == part = "read" => ReadInv
<1>1. Init => Inv
  BY ReadBegins DEF Init
<1>2. Inv /\ [Next]_vars => Inv'
  <2> SUFFICES ASSUME Inv, [Next]_vars, part' = "read" PROVE ReadInv'
    OBVIOUS
  <2>1. CASE UNCHANGED vars
    BY <2>1 DEF vars, readVars, ReadInv
  <2>2. CASE Next
    BY <2>2, ReadStep DEF Next
  <2>3. QED
    BY <2>1, <2>2
<1>3. Inv => ReadsAsSsh
  BY ReadRefuses, ReadNames, ReadValues DEF ReadsAsSsh, Read!ReadsAsSsh
<1>4. QED
  BY <1>1, <1>2, <1>3, PTL DEF Spec

-----------------------------------------------------------------------------
(* The hosts file: its lines, and what it means with one line more.        *)

Says == SUBSET (Aliases \union {AnyHost} \union Values \union Tags)

\* Lines as they are written, whatever they say.
AnyLines ==
    [kind : {"blank", "comment", "tags", "host", "match", "set"}, says : Says, quoted : BOOLEAN]

\* A line is one of the kinds, and an empty line says nothing.
LEMMA HostsLineIs ==
    ASSUME NEW line \in HostsLines
    PROVE  /\ line \in AnyLines
           /\ line.kind \in {"blank", "comment", "tags", "host", "match", "set"}
           /\ line.says \in Says
           /\ line.kind = "host" => line.says # {}
           /\ line.kind = "blank" => line = Edit!Blank
  BY DEF HostsLines, AnyLines, Says

\* The empty line is a line.
LEMMA BlankIs ==
    Edit!Blank \in HostsLines /\ Edit!Blank.kind = "blank"
  BY DEF HostsLines, Edit!Blank, Edit!TextLine

\* The first lines of a file, and one more.
LEMMA OneMore ==
    ASSUME NEW S, NEW s \in Seq(S), NEW i \in 1 .. Len(s)
    PROVE  /\ SubSeq(s, 1, i) = Append(SubSeq(s, 1, i - 1), s[i])
           /\ SubSeq(s, 1, i) \in Seq(S) /\ SubSeq(s, 1, i - 1) \in Seq(S)
           /\ s[i] \in S
  OBVIOUS

\* All the lines of a file, and none of them.
LEMMA AllOfThem ==
    ASSUME NEW S, NEW s \in Seq(S)
    PROVE  SubSeq(s, 1, Len(s)) = s /\ SubSeq(s, 1, 0) = <<>>
  OBVIOUS

-----------------------------------------------------------------------------
(* What a file means to a host.                                            *)

Readings == [file : Seq(Says), own : Seq(Says), scope : {"file", "own", "other"},
             pending : Says, tags : Says]

\* Reading a line leaves a reading.
LEMMA ReadLineTyped ==
    ASSUME NEW r \in Readings, NEW line \in HostsLines, NEW a
    PROVE  Edit!ReadLine(r, line, a) \in Readings
<1>1. /\ line.kind \in {"blank", "comment", "tags", "host", "match", "set"} /\ line.says \in Says
      /\ {} \in Says
  BY HostsLineIs DEF Says
<1>2. /\ r.file \in Seq(Says) /\ r.own \in Seq(Says) /\ r.scope \in {"file", "own", "other"}
      /\ r.pending \in Says /\ r.tags \in Says
      /\ DOMAIN r = {"file", "own", "scope", "pending", "tags"}
  BY DEF Readings
<1>3. CASE Edit!Starts(line)
  <2> DEFINE scope == IF Edit!Covers(line, a) THEN "own" ELSE "other"
             tags == IF Edit!Covers(line, a) /\ r.tags = {} THEN r.pending ELSE r.tags
  <2>1. scope \in {"file", "own", "other"} /\ tags \in Says
    BY <1>2
  <2>2. Edit!ReadLine(r, line, a) = [r EXCEPT !.scope = scope, !.tags = tags, !.pending = {}]
    BY <1>3, Zenon DEF Edit!ReadLine, Edit!Starts
  <2> HIDE DEF scope, tags
  <2>3. QED
    BY <1>1, <2>1, <2>2 DEF Readings
<1>4. CASE ~Edit!Starts(line) /\ line.kind \in {"tags", "set"}
  <2>1. CASE line.kind = "tags"
    BY <1>1, <1>4, <2>1 DEF Edit!ReadLine, Readings
  <2>2. CASE line.kind = "set"
    <3> DEFINE file == IF r.scope = "file" THEN Append(r.file, line.says) ELSE r.file
               own == IF r.scope = "own" THEN Append(r.own, line.says) ELSE r.own
    <3>1. file \in Seq(Says) /\ own \in Seq(Says)
      BY <1>1, <1>2
    <3>2. Edit!ReadLine(r, line, a) = [r EXCEPT !.file = file, !.own = own]
      BY <1>4, <2>2 DEF Edit!ReadLine
    <3> HIDE DEF file, own
    <3>3. QED
      BY <3>1, <3>2 DEF Readings
  <2>3. QED
    BY <1>4, <2>1, <2>2
<1>5. CASE line.kind \in {"blank", "comment"}
  BY <1>5 DEF Edit!ReadLine, Edit!Starts
<1>6. QED
  BY <1>1, <1>3, <1>4, <1>5 DEF Edit!Starts

ReadingStep(a) == [p \in Readings \X HostsLines |-> Edit!ReadLine(p[1], p[2], a)]

\* Nothing read is a reading.
LEMMA UnreadTyped == Edit!Unread \in Readings
  BY DEF Edit!Unread, Readings, Says

\* What a file means is what its lines come to, one by one.
LEMMA ReadForIs ==
    ASSUME NEW lines \in Seq(HostsLines), NEW a
    PROVE  Edit!ReadFor(lines, a) = Traced(Readings, ReadingStep(a), Edit!Unread, lines)
<1> DEFINE n == Len(lines)
           E == HostsLines
           seq == lines
           base == Edit!Unread
           g == ReadingStep(a)
           iter == CHOOSE iter : iter = [s \in SUBSET DOMAIN lines |->
                      IF s = {} THEN Edit!Unread
                      ELSE Edit!ReadLine(iter[s \ {Max(s)}], lines[Max(s)], a)]
<1>1. n \in Nat /\ DOMAIN lines = 1 .. n /\ lines \in [1 .. n -> HostsLines]
  OBVIOUS
<1>3. base \in Readings
  BY UnreadTyped
<1>4. g \in [Readings \X E -> Readings]
  BY ReadLineTyped DEF ReadingStep
<1>5. \A s \in Readings, l \in E : g[<<s, l>>] = Edit!ReadLine(s, l, a)
  BY DEF ReadingStep
<1>6. Edit!ReadFor(lines, a) = iter[DOMAIN lines]
  BY DEF Edit!ReadFor, Edit!FoldLeft, Edit!MapThenFoldSet, Edit!Max, Max
<1> HIDE DEF n, E, base, g
<1>8. iter = [s \in SUBSET DOMAIN lines |->
                 IF s = {} THEN Edit!Unread
                 ELSE Edit!ReadLine(iter[s \ {Max(s)}], lines[Max(s)], a)]
  <2>2. PICK h : IsFold(h, Readings, g, base, seq, n)
    BY <1>1, <1>3, <1>4, FoldExists DEF E
  <2>3. ASSUME NEW s \in SUBSET (1 .. n)
        PROVE  h[s] = IF s = {} THEN Edit!Unread
                      ELSE Edit!ReadLine(h[s \ {Max(s)}], lines[Max(s)], a)
    <3>1. CASE s = {}
      BY <2>2, <3>1 DEF IsFold, base
    <3>2. CASE s # {}
      <4>1. Max(s) \in 1 .. n
        BY <1>1, <3>2, MaxIn
      <4>2. h[s \ {Max(s)}] \in Readings /\ seq[Max(s)] \in E
        BY <1>1, <2>2, <4>1 DEF IsFold, E
      <4>3. h[s] = g[<<h[s \ {Max(s)}], seq[Max(s)]>>]
        BY <2>2, <3>2 DEF IsFold
      <4>4. QED
        BY <1>5, <3>2, <4>2, <4>3
    <3>3. QED
      BY <3>1, <3>2
  <2>4. h = [s \in SUBSET DOMAIN lines |->
               IF s = {} THEN Edit!Unread
               ELSE Edit!ReadLine(h[s \ {Max(s)}], lines[Max(s)], a)]
    BY <1>1, <2>2, <2>3 DEF IsFold
  <2>5. QED
    BY <2>4
<1> HIDE DEF iter
<1>9. iter[{}] = base
  BY <1>8 DEF base
<1>10. ASSUME NEW i \in 1 .. n, iter[1 .. (i - 1)] \in Readings
       PROVE  iter[1 .. i] = g[<<iter[1 .. (i - 1)], seq[i]>>]
  <2>1. /\ Max(1 .. i) = i /\ (1 .. i) \ {i} = 1 .. (i - 1) /\ 1 .. i # {}
        /\ 1 .. i \in SUBSET DOMAIN seq /\ seq[i] \in E
    BY <1>1, UpTo DEF E
  <2>2. iter[1 .. i] = Edit!ReadLine(iter[1 .. (i - 1)], seq[i], a)
    BY <1>8, <2>1
  <2>3. QED
    BY <1>5, <1>10, <2>1, <2>2
<1>11. iter[DOMAIN seq] = Traced(Readings, g, base, seq)
  <2>1. Steps(iter, Readings, g, base, seq)
    BY <1>9, <1>10 DEF Steps, n
  <2>2. seq \in Seq(E)
    BY DEF E
  <2>3. Ends(iter, Readings, g, base, seq)
    BY <1>3, <1>4, <2>1, <2>2, FoldIsTraced
  <2>4. QED
    BY <1>1, <2>3 DEF Ends, n
<1>12. QED
  BY <1>6, <1>11 DEF g, base

\* A file means what it did, and what one more line makes of that.
LEMMA ReadMore ==
    ASSUME NEW lines \in Seq(HostsLines), NEW a
    PROVE  /\ Edit!ReadFor(lines, a) \in Readings
           /\ Edit!ReadFor(<<>>, a) = Edit!Unread
           /\ \A line \in HostsLines :
                 Edit!ReadFor(Append(lines, line), a)
                   = Edit!ReadLine(Edit!ReadFor(lines, a), line, a)
<1> DEFINE g == ReadingStep(a)
           none == <<>>
<1>1. g \in [Readings \X HostsLines -> Readings]
  BY ReadLineTyped DEF ReadingStep
<1>2. \A s \in Readings, l \in HostsLines : g[<<s, l>>] = Edit!ReadLine(s, l, a)
  BY DEF ReadingStep
<1>3. none \in Seq(HostsLines)
  OBVIOUS
<1> HIDE DEF none
<1>4. /\ Edit!ReadFor(lines, a) = Traced(Readings, g, Edit!Unread, lines)
      /\ Edit!ReadFor(none, a) = Traced(Readings, g, Edit!Unread, none)
  BY <1>3, ReadForIs
<1> HIDE DEF g
<1>5. /\ Traced(Readings, g, Edit!Unread, lines) \in Readings
      /\ Traced(Readings, g, Edit!Unread, <<>>) = Edit!Unread
      /\ \A x \in HostsLines : Traced(Readings, g, Edit!Unread, Append(lines, x))
                             = g[<<Traced(Readings, g, Edit!Unread, lines), x>>]
  <2> DEFINE S == Readings
             E == HostsLines
             base == Edit!Unread
  <2>1. base \in S /\ lines \in Seq(E) /\ g \in [S \X E -> S]
    BY <1>1, UnreadTyped
  <2> HIDE DEF S, E, base
  <2>2. FoldsOn(S, E, g, base, lines)
    BY <2>1, TracedIs
  <2>3. QED
    BY <2>2 DEF S, E, base, FoldsOn
<1>6. ASSUME NEW line \in HostsLines
      PROVE  Edit!ReadFor(Append(lines, line), a)
               = Edit!ReadLine(Edit!ReadFor(lines, a), line, a)
  <2>1. Append(lines, line) \in Seq(HostsLines)
    OBVIOUS
  <2>2. Edit!ReadFor(Append(lines, line), a) = Traced(Readings, g, Edit!Unread, Append(lines, line))
    BY <2>1, ReadForIs DEF g
  <2>3. QED
    BY <1>2, <1>4, <1>5, <2>2
<1>7. QED
  BY <1>4, <1>5, <1>6 DEF none

\* What a line does to a reading.
LEMMA ReadLineIs ==
    ASSUME NEW r \in Readings, NEW line \in HostsLines, NEW a,
           NEW s, s = Edit!ReadLine(r, line, a)
    PROVE  /\ s \in Readings
           /\ Edit!Starts(line) =>
                /\ s.file = r.file /\ s.own = r.own
                /\ s.scope = (IF Edit!Covers(line, a) THEN "own" ELSE "other")
                /\ s.tags = (IF Edit!Covers(line, a) /\ r.tags = {} THEN r.pending ELSE r.tags)
                /\ s.pending = {}
           /\ ~Edit!Starts(line) => s.scope = r.scope /\ s.tags = r.tags
           /\ line.kind = "tags" => s.file = r.file /\ s.own = r.own /\ s.pending = line.says
           /\ line.kind = "set" =>
                /\ s.file = (IF r.scope = "file" THEN Append(r.file, line.says) ELSE r.file)
                /\ s.own = (IF r.scope = "own" THEN Append(r.own, line.says) ELSE r.own)
                /\ s.pending = r.pending
           /\ line.kind \in {"blank", "comment"} => s = r
<1>1. /\ line.kind \in {"blank", "comment", "tags", "host", "match", "set"}
      /\ DOMAIN r = {"file", "own", "scope", "pending", "tags"} /\ s \in Readings
  BY HostsLineIs, ReadLineTyped DEF Readings
<1>2. CASE Edit!Starts(line)
  <2> DEFINE scope == IF Edit!Covers(line, a) THEN "own" ELSE "other"
             tags == IF Edit!Covers(line, a) /\ r.tags = {} THEN r.pending ELSE r.tags
  <2>1. s = [r EXCEPT !.scope = scope, !.tags = tags, !.pending = {}]
    BY <1>2, Zenon DEF Edit!ReadLine, Edit!Starts
  <2> HIDE DEF scope, tags
  <2>2. /\ s.file = r.file /\ s.own = r.own /\ s.scope = scope /\ s.tags = tags /\ s.pending = {}
    BY <1>1, <2>1
  <2>3. line.kind \in {"host", "match"}
    BY <1>2 DEF Edit!Starts
  <2>4. QED
    BY <1>1, <1>2, <2>2, <2>3 DEF scope, tags
<1>3. CASE line.kind = "tags"
  <2>1. s = [r EXCEPT !.pending = line.says]
    BY <1>3, Zenon DEF Edit!ReadLine, Edit!Starts
  <2>2. ~Edit!Starts(line)
    BY <1>3 DEF Edit!Starts
  <2>3. QED
    BY <1>1, <1>3, <2>1, <2>2
<1>4. CASE line.kind = "set"
  <2> DEFINE file == IF r.scope = "file" THEN Append(r.file, line.says) ELSE r.file
             own == IF r.scope = "own" THEN Append(r.own, line.says) ELSE r.own
  <2>1. s = [r EXCEPT !.file = file, !.own = own]
    BY <1>4, Zenon DEF Edit!ReadLine, Edit!Starts
  <2>2. ~Edit!Starts(line)
    BY <1>4 DEF Edit!Starts
  <2> HIDE DEF file, own
  <2>3. /\ s.file = file /\ s.own = own /\ s.scope = r.scope /\ s.tags = r.tags
        /\ s.pending = r.pending
    BY <1>1, <2>1
  <2>4. QED
    BY <1>1, <1>4, <2>2, <2>3 DEF file, own
<1>5. CASE line.kind \in {"blank", "comment"}
  <2>1. s = r
    BY <1>5, Zenon DEF Edit!ReadLine, Edit!Starts
  <2>2. ~Edit!Starts(line)
    BY <1>5 DEF Edit!Starts
  <2>3. QED
    BY <1>1, <1>5, <2>1, <2>2
<1>6. QED
  BY <1>1, <1>2, <1>3, <1>4, <1>5 DEF Edit!Starts

-----------------------------------------------------------------------------
(* A file but for its blank lines and tags.                                *)

WithLine(r, line) == IF line.kind \in {"blank", "tags"} THEN r ELSE Append(r, line)

WrittenStep == [p \in Seq(AnyLines) \X AnyLines |-> WithLine(p[1], p[2])]

\* A line more leaves lines.
LEMMA WrittenTyped == WrittenStep \in [Seq(AnyLines) \X AnyLines -> Seq(AnyLines)]
  BY DEF WrittenStep, WithLine

\* What is written by hand is what the lines come to, one by one.
LEMMA HandWrittenIs ==
    ASSUME NEW lines \in Seq(AnyLines)
    PROVE  Edit!HandWritten(lines) = Traced(Seq(AnyLines), WrittenStep, <<>>, lines)
<1> DEFINE n == Len(lines)
           E == AnyLines
           seq == lines
           base == <<>>
           g == WrittenStep
           iter == CHOOSE iter : iter = [s \in SUBSET DOMAIN lines |->
                      IF s = {} THEN <<>>
                      ELSE WithLine(iter[s \ {Max(s)}], lines[Max(s)])]
<1>1. n \in Nat /\ DOMAIN lines = 1 .. n /\ lines \in [1 .. n -> AnyLines]
  OBVIOUS
<1>3. base \in Seq(AnyLines)
  OBVIOUS
<1>4. g \in [Seq(AnyLines) \X E -> Seq(AnyLines)]
  BY WrittenTyped
<1>5. \A s \in Seq(AnyLines), l \in E : g[<<s, l>>] = WithLine(s, l)
  BY DEF WrittenStep
<1>6. Edit!HandWritten(lines) = iter[DOMAIN lines]
  BY DEF WithLine, Edit!HandWritten, Edit!FoldLeft, Edit!MapThenFoldSet, Edit!Max, Max
<1> HIDE DEF n, E, base, g
<1>8. iter = [s \in SUBSET DOMAIN lines |->
                 IF s = {} THEN <<>>
                 ELSE WithLine(iter[s \ {Max(s)}], lines[Max(s)])]
  <2>2. PICK h : IsFold(h, Seq(AnyLines), g, base, seq, n)
    BY <1>1, <1>3, <1>4, FoldExists DEF E
  <2>3. ASSUME NEW s \in SUBSET (1 .. n)
        PROVE  h[s] = IF s = {} THEN <<>>
                      ELSE WithLine(h[s \ {Max(s)}], lines[Max(s)])
    <3>1. CASE s = {}
      BY <2>2, <3>1 DEF IsFold, base
    <3>2. CASE s # {}
      <4>1. Max(s) \in 1 .. n
        BY <1>1, <3>2, MaxIn
      <4>2. h[s \ {Max(s)}] \in Seq(AnyLines) /\ seq[Max(s)] \in E
        BY <1>1, <2>2, <4>1 DEF IsFold, E
      <4>3. h[s] = g[<<h[s \ {Max(s)}], seq[Max(s)]>>]
        BY <2>2, <3>2 DEF IsFold
      <4>4. QED
        BY <1>5, <3>2, <4>2, <4>3
    <3>3. QED
      BY <3>1, <3>2
  <2>4. h = [s \in SUBSET DOMAIN lines |->
               IF s = {} THEN <<>>
               ELSE WithLine(h[s \ {Max(s)}], lines[Max(s)])]
    BY <1>1, <2>2, <2>3 DEF IsFold
  <2>5. QED
    BY <2>4
<1> HIDE DEF iter
<1>9. iter[{}] = base
  BY <1>8 DEF base
<1>10. ASSUME NEW i \in 1 .. n, iter[1 .. (i - 1)] \in Seq(AnyLines)
       PROVE  iter[1 .. i] = g[<<iter[1 .. (i - 1)], seq[i]>>]
  <2>1. /\ Max(1 .. i) = i /\ (1 .. i) \ {i} = 1 .. (i - 1) /\ 1 .. i # {}
        /\ 1 .. i \in SUBSET DOMAIN seq /\ seq[i] \in E
    BY <1>1, UpTo DEF E
  <2>2. iter[1 .. i] = WithLine(iter[1 .. (i - 1)], seq[i])
    BY <1>8, <2>1
  <2>3. QED
    BY <1>5, <1>10, <2>1, <2>2
<1>11. iter[DOMAIN seq] = Traced(Seq(AnyLines), g, base, seq)
  <2>1. Steps(iter, Seq(AnyLines), g, base, seq)
    BY <1>9, <1>10 DEF Steps, n
  <2>2. seq \in Seq(E)
    BY DEF E
  <2>3. Ends(iter, Seq(AnyLines), g, base, seq)
    BY <1>3, <1>4, <2>1, <2>2, FoldIsTraced
  <2>4. QED
    BY <1>1, <2>3 DEF Ends, n
<1>12. QED
  BY <1>6, <1>11 DEF g, base

\* One more line is written below the others, unless it is blank or a tag.
LEMMA HandWrittenMore ==
    ASSUME NEW lines \in Seq(AnyLines)
    PROVE  /\ Edit!HandWritten(lines) \in Seq(AnyLines)
           /\ Edit!HandWritten(<<>>) = <<>>
           /\ \A line \in AnyLines :
                 Edit!HandWritten(Append(lines, line))
                   = WithLine(Edit!HandWritten(lines), line)
<1> DEFINE g == WrittenStep
           none == <<>>
<1>1. g \in [Seq(AnyLines) \X AnyLines -> Seq(AnyLines)]
  BY WrittenTyped
<1>2. \A s \in Seq(AnyLines), l \in AnyLines : g[<<s, l>>] = WithLine(s, l)
  BY DEF WrittenStep
<1>3. none \in Seq(AnyLines)
  OBVIOUS
<1> HIDE DEF none
<1>4. /\ Edit!HandWritten(lines) = Traced(Seq(AnyLines), g, <<>>, lines)
      /\ Edit!HandWritten(none) = Traced(Seq(AnyLines), g, <<>>, none)
  BY <1>3, HandWrittenIs
<1> HIDE DEF g
<1>5. /\ Traced(Seq(AnyLines), g, <<>>, lines) \in Seq(AnyLines)
      /\ Traced(Seq(AnyLines), g, <<>>, <<>>) = <<>>
      /\ \A x \in AnyLines : Traced(Seq(AnyLines), g, <<>>, Append(lines, x))
                             = g[<<Traced(Seq(AnyLines), g, <<>>, lines), x>>]
  <2> DEFINE S == Seq(AnyLines)
             E == AnyLines
             base == <<>>
  <2>1. base \in S /\ lines \in Seq(E) /\ g \in [S \X E -> S]
    BY <1>1
  <2> HIDE DEF S, E, base
  <2>2. FoldsOn(S, E, g, base, lines)
    BY <2>1, TracedIs
  <2>3. QED
    BY <2>2 DEF S, E, base, FoldsOn
<1>6. ASSUME NEW line \in AnyLines
      PROVE  Edit!HandWritten(Append(lines, line))
               = WithLine(Edit!HandWritten(lines), line)
  <2>1. Append(lines, line) \in Seq(AnyLines)
    OBVIOUS
  <2>2. Edit!HandWritten(Append(lines, line)) = Traced(Seq(AnyLines), g, <<>>, Append(lines, line))
    BY <2>1, HandWrittenIs DEF g
  <2>3. QED
    BY <1>2, <1>4, <1>5, <2>2
<1>7. QED
  BY <1>4, <1>5, <1>6 DEF none

-----------------------------------------------------------------------------
(* Where a block begins and where it ends.                                 *)

\* What is looked for from the front is found at its first place.
LEMMA FirstIs ==
    ASSUME NEW n \in Nat, NEW I \in SUBSET (1 .. n),
           NEW k, k = IF I # {} THEN Min(I) ELSE 0
    PROVE  /\ k = 0 => I = {}
           /\ k # 0 => k \in I /\ k \in 1 .. n /\ \A j \in I : k <= j
<1>1. CASE I = {}
  BY <1>1
<1>2. CASE I # {}
  <2> DEFINE m == Min(I)
  <2>1. k = m
    BY <1>2
  <2>2. m \in I /\ \A j \in I : m <= j
    BY <1>2, MinIn
  <2> HIDE DEF m
  <2>3. QED
    BY <2>1, <2>2
<1>3. QED
  BY <1>1, <1>2

\* What is looked for from the back is found at its last place.
LEMMA LastIs ==
    ASSUME NEW n \in Nat, NEW I \in SUBSET (1 .. n),
           NEW k, k = IF I # {} THEN Max(I) ELSE 0
    PROVE  /\ k = 0 => I = {}
           /\ k # 0 => k \in I /\ k \in 1 .. n /\ \A j \in I : k >= j
<1>1. CASE I = {}
  BY <1>1
<1>2. CASE I # {}
  <2> DEFINE m == Max(I)
  <2>1. k = m
    BY <1>2
  <2>2. m \in I /\ \A j \in I : m >= j
    BY <1>2, MaxIn
  <2> HIDE DEF m
  <2>3. QED
    BY <2>1, <2>2
<1>3. QED
  BY <1>1, <1>2

\* The line of the block that the first i lines end in.
LEMMA OwnerIs ==
    ASSUME NEW lines \in Seq(HostsLines), NEW i \in 0 .. Len(lines)
    PROVE  /\ Edit!Owner(lines, i) \in 0 .. i
           /\ Edit!Owner(lines, i) # 0 => Edit!Starts(lines[Edit!Owner(lines, i)])
           /\ \A j \in 1 .. i : Edit!Starts(lines[j]) => j <= Edit!Owner(lines, i)
<1> DEFINE I == {j \in 1 .. i : Edit!Starts(lines[j])}
           k == Edit!Owner(lines, i)
<1>1. k = IF I # {} THEN Max(I) ELSE 0
  BY DEF Edit!Owner, Edit!SelectLastInSubSeq, Edit!Max, Max
<1>2. i \in Nat /\ I \in SUBSET (1 .. i)
  OBVIOUS
<1> HIDE DEF k, I
<1>3. (k = 0 => I = {}) /\ (k # 0 => k \in I /\ k \in 1 .. i /\ \A j \in I : k >= j)
  BY <1>1, <1>2, LastIs
<1>4. k \in 0 .. i /\ (k # 0 => Edit!Starts(lines[k]))
  BY <1>2, <1>3 DEF I
<1>5. ASSUME NEW j \in 1 .. i, Edit!Starts(lines[j]) PROVE j <= k
  <2>1. j \in I
    BY <1>5 DEF I
  <2>2. QED
    BY <1>2, <1>3, <2>1
<1>6. QED
  BY <1>4, <1>5 DEF k

\* A Host or Match line begins a block, and the others are in that of the line above.
LEMMA OwnerStep ==
    ASSUME NEW lines \in Seq(HostsLines), NEW i \in 1 .. Len(lines)
    PROVE  Edit!Owner(lines, i)
             = IF Edit!Starts(lines[i]) THEN i ELSE Edit!Owner(lines, i - 1)
<1> DEFINE k == Edit!Owner(lines, i)
           m == Edit!Owner(lines, i - 1)
           n == Len(lines)
<1>1. n \in Nat /\ i \in 1 .. n /\ i - 1 \in 0 .. n /\ i \in 0 .. n
  OBVIOUS
<1>2. /\ k \in 0 .. i /\ (k # 0 => Edit!Starts(lines[k]))
      /\ \A j \in 1 .. i : Edit!Starts(lines[j]) => j <= k
  BY <1>1, OwnerIs
<1>3. /\ m \in 0 .. (i - 1) /\ (m # 0 => Edit!Starts(lines[m]))
      /\ \A j \in 1 .. (i - 1) : Edit!Starts(lines[j]) => j <= m
  BY <1>1, OwnerIs
<1> HIDE DEF k, m, n
<1>4. CASE Edit!Starts(lines[i])
  BY <1>1, <1>2, <1>4 DEF k
<1>5. CASE ~Edit!Starts(lines[i])
  <2>1. k # i
    BY <1>1, <1>2, <1>5
  <2>2. k \in 0 .. (i - 1) /\ k <= m
    BY <1>1, <1>2, <1>3, <2>1
  <2>3. m <= k
    BY <1>1, <1>2, <1>3
  <2>4. QED
    BY <1>1, <1>3, <1>5, <2>2, <2>3 DEF k, m
<1>6. QED
  BY <1>4, <1>5

\* A block ends above the next Host or Match line.
LEMMA BlockEndIs ==
    ASSUME NEW lines \in Seq(HostsLines), NEW i \in 1 .. Len(lines)
    PROVE  /\ Edit!BlockEnd(lines, i) \in (i + 1) .. (Len(lines) + 1)
           /\ \A j \in (i + 1) .. (Edit!BlockEnd(lines, i) - 1) : ~Edit!Starts(lines[j])
           /\ Edit!BlockEnd(lines, i) # Len(lines) + 1 =>
                 Edit!Starts(lines[Edit!BlockEnd(lines, i)])
<1> DEFINE n == Len(lines)
           I == {j \in (i + 1) .. n : Edit!Starts(lines[j])}
           k == IF I # {} THEN Min(I) ELSE 0
           e == Edit!BlockEnd(lines, i)
<1>1. e = IF k = 0 THEN n + 1 ELSE k
  BY DEF Edit!BlockEnd, Edit!SelectInSubSeq, Edit!Min, Min
<1>2. n \in Nat /\ i \in 1 .. n /\ I \in SUBSET (1 .. n)
  OBVIOUS
<1> HIDE DEF e
<1>3. (k = 0 => I = {}) /\ (k # 0 => k \in I /\ k \in 1 .. n /\ \A j \in I : k <= j)
  <2> HIDE DEF I, n
  <2>1. k = IF I # {} THEN Min(I) ELSE 0
    OBVIOUS
  <2> HIDE DEF k
  <2>2. QED
    BY <1>2, <2>1, FirstIs
<1> HIDE DEF k
<1>4. e \in (i + 1) .. (n + 1) /\ (e # n + 1 => e \in I)
  <2>1. CASE k = 0
    BY <1>1, <1>2, <2>1
  <2>2. CASE k # 0
    BY <1>1, <1>2, <1>3, <2>2
  <2>3. QED
    BY <2>1, <2>2
<1>5. ASSUME NEW j \in (i + 1) .. (e - 1), Edit!Starts(lines[j]) PROVE FALSE
  <2> HIDE DEF n, I
  <2>1. j \in (i + 1) .. n
    BY <1>2, <1>4
  <2>2. j \in I
    BY <1>5, <2>1 DEF I, n
  <2>3. k # 0 /\ k <= j /\ e = k
    BY <1>1, <1>3, <2>2
  <2>4. QED
    BY <1>2, <1>3, <1>4, <2>1, <2>3
<1>6. QED
  BY <1>4, <1>5 DEF e

\* The block's last line that is not blank, a comment or a tag: its Host line at least.
LEMMA BlockStopIs ==
    ASSUME NEW lines \in Seq(HostsLines), NEW i \in 1 .. Len(lines), lines[i].kind = "host",
           NEW stop, stop = Edit!BlockStop(lines, i)
    PROVE  /\ stop \in i .. Len(lines)
           /\ \A j \in (i + 1) .. stop : ~Edit!Starts(lines[j])
           /\ lines[stop].kind \notin {"blank", "tags"}
           /\ stop # i => lines[stop].kind = "set"
           /\ \A j \in (stop + 1) .. Len(lines) : lines[j].kind = "set" =>
                 \E k \in (stop + 1) .. j : Edit!Starts(lines[k])
<1> DEFINE n == Len(lines)
           e == Edit!BlockEnd(lines, i)
           I == {j \in i .. (e - 1) : lines[j].kind \notin {"blank", "comment", "tags"}}
<1>1. stop = IF I # {} THEN Max(I) ELSE 0
  BY DEF Edit!BlockStop, Edit!SelectLastInSubSeq, Edit!Max, Max
<1>2. n \in Nat /\ i \in 1 .. n
  OBVIOUS
<1>3. /\ e \in (i + 1) .. (n + 1) /\ \A j \in (i + 1) .. (e - 1) : ~Edit!Starts(lines[j])
      /\ e # n + 1 => Edit!Starts(lines[e])
  BY BlockEndIs
<1> HIDE DEF e, n
<1>4. I \in SUBSET (1 .. n) /\ i \in I
  <2>1. i \in i .. (e - 1)
    BY <1>2, <1>3
  <2>2. i .. (e - 1) \subseteq 1 .. n
    BY <1>2, <1>3
  <2>3. QED
    BY <2>1, <2>2
<1>5. (stop # 0 => stop \in I /\ stop \in 1 .. n /\ \A j \in I : stop >= j) /\ stop # 0
  <2> HIDE DEF I
  <2>1. (stop = 0 => I = {}) /\ (stop # 0 => stop \in I /\ stop \in 1 .. n /\ \A j \in I : stop >= j)
    BY <1>1, <1>2, <1>4, LastIs
  <2>2. QED
    BY <1>4, <2>1
<1>6. stop \in i .. (e - 1) /\ lines[stop].kind \notin {"blank", "comment", "tags"}
  BY <1>5
<1>7. stop \in i .. n /\ \A j \in (i + 1) .. stop : ~Edit!Starts(lines[j])
  BY <1>2, <1>3, <1>6
<1>8. ASSUME stop # i PROVE lines[stop].kind = "set"
  <2>1. ~Edit!Starts(lines[stop])
    BY <1>2, <1>7, <1>8
  <2>2. lines[stop] \in HostsLines
    BY <1>2, <1>7 DEF n
  <2>3. QED
    BY <1>6, <2>1, <2>2, HostsLineIs DEF Edit!Starts
<1>9. ASSUME NEW j \in (stop + 1) .. n, lines[j].kind = "set"
      PROVE  \E k \in (stop + 1) .. j : Edit!Starts(lines[k])
  <2>1. j \notin I
    BY <1>2, <1>5, <1>7
  <2>2. j >= e
    BY <1>2, <1>3, <1>6, <1>9, <2>1
  <2>3. e \in (stop + 1) .. j /\ e # n + 1
    BY <1>2, <1>3, <1>6, <2>2
  <2>4. QED
    BY <1>3, <2>3
<1>10. QED
  BY <1>6, <1>7, <1>8, <1>9 DEF n

\* Where a removal goes on: at the first line below that is not blank.
NextBelow(lines, stop) ==
    Edit!SelectInSubSeq(lines, stop + 1, Len(lines), LAMBDA l : l # Edit!Blank)

GoesOnAt(lines, stop) == IF NextBelow(lines, stop) = 0 THEN Len(lines) + 1 ELSE NextBelow(lines, stop)

\* It goes on below the block, past blank lines alone.
LEMMA GoesOnAtIs ==
    ASSUME NEW lines \in Seq(HostsLines), NEW stop \in 1 .. Len(lines)
    PROVE  /\ GoesOnAt(lines, stop) \in (stop + 1) .. (Len(lines) + 1)
           /\ NextBelow(lines, stop) = 0 <=> GoesOnAt(lines, stop) = Len(lines) + 1
           /\ \A j \in (stop + 1) .. (GoesOnAt(lines, stop) - 1) : lines[j] = Edit!Blank
<1> DEFINE n == Len(lines)
           I == {j \in (stop + 1) .. n : lines[j] # Edit!Blank}
           k == NextBelow(lines, stop)
           e == GoesOnAt(lines, stop)
<1>1. k = IF I # {} THEN Min(I) ELSE 0
  BY DEF NextBelow, Edit!SelectInSubSeq, Edit!Min, Min
<1>2. n \in Nat /\ stop \in 1 .. n /\ I \in SUBSET (1 .. n)
  OBVIOUS
<1>3. e = IF k = 0 THEN n + 1 ELSE k
  BY DEF GoesOnAt
<1> HIDE DEF e, k
<1>4. (k = 0 => I = {}) /\ (k # 0 => k \in I /\ k \in 1 .. n /\ \A j \in I : k <= j)
  <2> HIDE DEF I, n
  <2>1. QED
    BY <1>1, <1>2, FirstIs
<1>5. e \in (stop + 1) .. (n + 1) /\ (k = 0 <=> e = n + 1)
  <2>1. CASE k = 0
    BY <1>2, <1>3, <2>1
  <2>2. CASE k # 0
    BY <1>2, <1>3, <1>4, <2>2
  <2>3. QED
    BY <2>1, <2>2
<1>6. ASSUME NEW j \in (stop + 1) .. (e - 1), lines[j] # Edit!Blank PROVE FALSE
  <2> HIDE DEF n, I
  <2>1. j \in (stop + 1) .. n
    BY <1>2, <1>5
  <2>2. j \in I
    BY <1>6, <2>1 DEF I, n
  <2>3. k # 0 /\ k <= j /\ e = k
    BY <1>3, <1>4, <2>2
  <2>4. QED
    BY <1>2, <1>4, <1>5, <2>1, <2>3
<1>7. QED
  BY <1>5, <1>6 DEF e, k

\* What is above a block without the blank lines and tags just above it.
LEMMA DropIs ==
    ASSUME NEW kept \in Seq(HostsLines)
    PROVE  \E m \in 0 .. Len(kept) :
              /\ Edit!DropPreamble(kept) = SubSeq(kept, 1, m)
              /\ m # 0 => kept[m].kind \notin {"blank", "tags"}
              /\ \A j \in (m + 1) .. Len(kept) : kept[j].kind \in {"blank", "tags"}
<1> DEFINE n == Len(kept)
           I == {j \in 1 .. n : kept[j].kind \notin {"blank", "tags"}}
           m == IF I # {} THEN Max(I) ELSE 0
<1>1. Edit!DropPreamble(kept) = SubSeq(kept, 1, m)
  BY DEF Edit!DropPreamble, Edit!SelectLastInSeq, Edit!Max, Max
<1>2. n \in Nat /\ I \in SUBSET (1 .. n)
  OBVIOUS
<1>3. (m = 0 => I = {}) /\ (m # 0 => m \in I /\ m \in 1 .. n /\ \A j \in I : m >= j)
  <2> HIDE DEF I, n
  <2>1. m = IF I # {} THEN Max(I) ELSE 0
    OBVIOUS
  <2> HIDE DEF m
  <2>2. QED
    BY <1>2, <2>1, LastIs
<1> HIDE DEF m
<1>4. m \in 0 .. n /\ (m # 0 => kept[m].kind \notin {"blank", "tags"})
  BY <1>2, <1>3
<1>5. ASSUME NEW j \in (m + 1) .. n PROVE kept[j].kind \in {"blank", "tags"}
  <2>1. j \in 1 .. n /\ j > m
    BY <1>2, <1>4
  <2>2. j \notin I
    BY <1>2, <1>3, <1>4, <2>1
  <2>3. QED
    BY <2>1, <2>2
<1>6. QED
  BY <1>1, <1>4, <1>5

-----------------------------------------------------------------------------
(* What a removal makes of a file, line by line.                           *)

Edits == [kept : Seq(HostsLines), at : Nat, refused : BOOLEAN]

\* The line of a removal that stays, with the other names it has.
Left(line, a) == [line EXCEPT !.says = IF line.kind = "host" THEN @ \ {a} ELSE @]

Mentions(line, a) == line.kind = "host" /\ a \in line.says

Keeps(e, f, line) == f.kept = Append(e.kept, line) /\ f.at = e.at /\ f.refused = e.refused

\* A block that goes, and the blank lines below it but for one, if anything is above
\* and anything below.
Drops(lines, e, f, i) ==
    /\ f.at = GoesOnAt(lines, Edit!BlockStop(lines, i)) /\ f.refused = e.refused
    /\ f.kept \in {Edit!DropPreamble(e.kept), Append(Edit!DropPreamble(e.kept), Edit!Blank)}
    /\ f.at = Len(lines) + 1 => f.kept = Edit!DropPreamble(e.kept)

\* What is kept are lines.
LEMMA DropTyped ==
    ASSUME NEW kept \in Seq(HostsLines)
    PROVE  /\ Edit!DropPreamble(kept) \in Seq(HostsLines)
           /\ Append(Edit!DropPreamble(kept), Edit!Blank) \in Seq(HostsLines)
<1>1. PICK m \in 0 .. Len(kept) : Edit!DropPreamble(kept) = SubSeq(kept, 1, m)
  BY DropIs
<1>2. SubSeq(kept, 1, m) \in Seq(HostsLines)
  OBVIOUS
<1>3. Edit!Blank \in HostsLines
  BY BlankIs
<1>4. QED
  BY <1>1, <1>2, <1>3

\* A line that says what it said is the line it was.
LEMMA SameLine ==
    ASSUME NEW line \in AnyLines
    PROVE  [line EXCEPT !.says = line.says] = line
<1> DEFINE says == line.says
<1>1. line = [kind |-> line.kind, says |-> says, quoted |-> line.quoted]
  BY DEF AnyLines
<1> HIDE DEF says
<1>2. [line EXCEPT !.says = says] = [kind |-> line.kind, says |-> says, quoted |-> line.quoted]
  BY DEF AnyLines
<1>3. QED
  BY <1>1, <1>2 DEF says

\* What is left of a line is a line, unless nothing is.
LEMMA LeftTyped ==
    ASSUME NEW line \in HostsLines, NEW a
    PROVE  /\ Left(line, a) \in AnyLines /\ Left(line, a).kind = line.kind
           /\ ~(line.kind = "host" /\ line.says = {a}) => Left(line, a) \in HostsLines
           /\ line.kind = "host" => Left(line, a).says = line.says \ {a}
           /\ ~Mentions(line, a) => Left(line, a) = line
<1>1. /\ line \in AnyLines /\ line.says \in Says
      /\ DOMAIN line = {"kind", "says", "quoted"} /\ line.quoted \in BOOLEAN
      /\ line.kind \in {"blank", "comment", "tags", "host", "match", "set"}
  BY HostsLineIs DEF AnyLines
<1>2. CASE line.kind = "host"
  <2> DEFINE says == line.says \ {a}
  <2>1. says \in Says /\ (line.says # {a} => says # {}) /\ (a \notin line.says => says = line.says)
    BY <1>1, <1>2 DEF Says, HostsLines
  <2>2. Left(line, a) = [line EXCEPT !.says = says]
    BY <1>2 DEF Left
  <2> HIDE DEF says
  <2>3. /\ Left(line, a) \in AnyLines /\ Left(line, a).kind = line.kind
        /\ Left(line, a).says = says
    BY <1>1, <2>1, <2>2 DEF AnyLines
  <2>4. line.says # {a} => Left(line, a) \in HostsLines
    BY <1>1, <1>2, <2>1, <2>2 DEF HostsLines, Says
  <2>5. a \notin line.says => Left(line, a) = line
    BY <1>1, <2>1, <2>2, SameLine
  <2>6. QED
    BY <1>2, <2>3, <2>4, <2>5 DEF says, Mentions
<1>3. CASE line.kind # "host"
  <2>1. Left(line, a) = [line EXCEPT !.says = line.says]
    BY <1>3 DEF Left
  <2>2. Left(line, a) = line
    BY <1>1, <2>1, SameLine
  <2>3. QED
    BY <1>1, <1>3, <2>2 DEF Mentions
<1>4. QED
  BY <1>2, <1>3

\* What the loop makes of a line: it passes it by, keeps it, gives up, keeps what is left
\* of it, or leaves it out with its block.
MadeOf(lines, a, e, f, i) ==
    /\ f \in Edits
    /\ e.refused \/ i < e.at => f = e
    /\ ~e.refused /\ ~(i < e.at) =>
         \/ ~Mentions(lines[i], a) /\ Keeps(e, f, lines[i])
         \/ f.refused /\ Mentions(lines[i], a) /\ lines[i].says # {a}
         \/ /\ Mentions(lines[i], a) /\ lines[i].says # {a}
            /\ Keeps(e, f, Left(lines[i], a))
         \/ Mentions(lines[i], a) /\ lines[i].says = {a} /\ Drops(lines, e, f, i)

\* The loop makes that of a line.
LEMMA WithoutLineIs ==
    ASSUME NEW lines \in Seq(HostsLines), NEW a, NEW e \in Edits, NEW i \in 1 .. Len(lines),
           NEW f, f = Edit!WithoutLine(lines, a, e, i)
    PROVE  MadeOf(lines, a, e, f, i)
<1> SUFFICES /\ f \in Edits
             /\ e.refused \/ i < e.at => f = e
             /\ ~e.refused /\ ~(i < e.at) =>
                  \/ ~Mentions(lines[i], a) /\ Keeps(e, f, lines[i])
                  \/ f.refused /\ Mentions(lines[i], a) /\ lines[i].says # {a}
                  \/ /\ Mentions(lines[i], a) /\ lines[i].says # {a}
                     /\ Keeps(e, f, Left(lines[i], a))
                  \/ Mentions(lines[i], a) /\ lines[i].says = {a} /\ Drops(lines, e, f, i)
  BY DEF MadeOf
<1> DEFINE line == lines[i]
           rest == line.says \ {a}
           after == NextBelow(lines, Edit!BlockStop(lines, i))
           drop == Edit!DropPreamble(e.kept)
           left == [line EXCEPT !.says = rest]
           on == IF after = 0 THEN Len(lines) + 1 ELSE after
           cut == IF after = 0 \/ drop = <<>> THEN drop ELSE Append(drop, Edit!Blank)
<1>1. f = IF e.refused \/ i < e.at THEN e
          ELSE IF line.kind # "host" \/ a \notin line.says
                  THEN [e EXCEPT !.kept = Append(@, line)]
          ELSE IF rest # {} /\ line.quoted
                  THEN [e EXCEPT !.refused = TRUE]
          ELSE IF rest # {}
                  THEN [e EXCEPT !.kept = Append(@, left)]
          ELSE [e EXCEPT !.at = on, !.kept = cut]
  BY Zenon DEF Edit!WithoutLine, NextBelow
<1>2. i <= Len(lines) /\ Len(lines) \in Nat /\ DOMAIN e = {"kept", "at", "refused"}
  BY DEF Edits
<1>3. on = GoesOnAt(lines, Edit!BlockStop(lines, i))
  BY DEF GoesOnAt
<1>4. Mentions(line, a) => left = Left(line, a)
  BY DEF Mentions, Left
<1>5. cut \in {drop, Append(drop, Edit!Blank)}
  OBVIOUS
<1>6. line.says = {a} => rest = {}
  OBVIOUS
<1>7. Mentions(line, a) /\ rest = {} => line.says = {a}
  BY DEF Mentions
<1>8. Mentions(line, a) <=> ~(line.kind # "host" \/ a \notin line.says)
  BY DEF Mentions
<1> DEFINE done == [e EXCEPT !.at = on, !.kept = cut]
           refuses == [e EXCEPT !.refused = TRUE]
           keeps == [e EXCEPT !.kept = Append(@, line)]
           leaves == [e EXCEPT !.kept = Append(@, left)]
<1>9. done.at = on /\ done.kept = cut /\ done.refused = e.refused
      /\ (Mentions(line, a) => done \in Edits)
  <2>1. cut \in Seq(HostsLines)
    <3>1. drop \in Seq(HostsLines) /\ Append(drop, Edit!Blank) \in Seq(HostsLines)
      BY DropTyped DEF Edits
    <3>2. QED
      BY <1>5, <3>1
  <2>2. Mentions(line, a) => on \in Nat
    <3> SUFFICES ASSUME Mentions(line, a) PROVE on \in Nat
      OBVIOUS
    <3> DEFINE stop == Edit!BlockStop(lines, i)
    <3>1. stop \in i .. Len(lines)
      BY BlockStopIs DEF Mentions
    <3>2. on = GoesOnAt(lines, stop)
      BY <1>3
    <3> HIDE DEF stop, on
    <3>3. stop \in 1 .. Len(lines)
      BY <1>2, <3>1
    <3>4. on \in (stop + 1) .. (Len(lines) + 1)
      BY <3>2, <3>3, GoesOnAtIs
    <3>5. QED
      BY <1>2, <3>3, <3>4
  <2> HIDE DEF on, cut
  <2>3. QED
    BY <1>2, <2>1, <2>2 DEF Edits
<1>10. /\ refuses.refused = TRUE /\ Keeps(e, keeps, line) /\ Keeps(e, leaves, left)
       /\ refuses \in Edits /\ keeps \in Edits
       /\ Mentions(line, a) /\ rest # {} => leaves \in Edits
  <2>1. line \in HostsLines
    OBVIOUS
  <2>2. Mentions(line, a) /\ rest # {} => left \in HostsLines
    <3> HIDE DEF line, left
    <3>1. QED
      BY <1>4, <1>6, <2>1, LeftTyped
  <2> HIDE DEF line, left, rest
  <2>3. refuses.refused = TRUE /\ refuses \in Edits
    BY DEF Edits
  <2>4. Keeps(e, keeps, line) /\ Keeps(e, leaves, left)
    BY <1>2 DEF Keeps
  <2>5. keeps \in Edits
    <3> DEFINE kept == Append(e.kept, line)
    <3>1. kept \in Seq(HostsLines) /\ keeps = [e EXCEPT !.kept = kept]
      BY <2>1 DEF Edits
    <3> HIDE DEF kept, keeps
    <3>2. QED
      BY <3>1 DEF Edits
  <2>6. Mentions(line, a) /\ rest # {} => leaves \in Edits
    <3> SUFFICES ASSUME left \in HostsLines PROVE leaves \in Edits
      BY <2>2
    <3> DEFINE kept == Append(e.kept, left)
    <3>1. kept \in Seq(HostsLines) /\ leaves = [e EXCEPT !.kept = kept]
      BY DEF Edits
    <3> HIDE DEF kept, leaves
    <3>2. QED
      BY <3>1 DEF Edits
  <2>7. QED
    BY <2>3, <2>4, <2>5, <2>6
<1>11. Mentions(line, a) /\ on = Len(lines) + 1 => cut = drop
  <2> SUFFICES ASSUME Mentions(line, a), on = Len(lines) + 1 PROVE after = 0
    OBVIOUS
  <2> DEFINE stop == Edit!BlockStop(lines, i)
  <2>1. stop \in 1 .. Len(lines)
    <3>1. stop \in i .. Len(lines)
      BY BlockStopIs DEF Mentions
    <3> HIDE DEF stop
    <3>2. QED
      BY <3>1
  <2>2. after = NextBelow(lines, stop) /\ on = GoesOnAt(lines, stop)
    BY <1>3
  <2> HIDE DEF stop, after, on
  <2>3. QED
    BY <2>1, <2>2, GoesOnAtIs
<1> HIDE DEF line, rest, after, drop, left, on, cut
<1>12. CASE e.refused \/ i < e.at
  BY <1>1, <1>12
<1>13. CASE ~(e.refused \/ i < e.at) /\ ~Mentions(line, a)
  <2>1. f = keeps
    BY <1>1, <1>8, <1>13
  <2> HIDE DEF keeps
  <2>2. QED
    BY <1>10, <1>13, <2>1 DEF line
<1>14. CASE ~(e.refused \/ i < e.at) /\ Mentions(line, a) /\ rest # {} /\ line.quoted
  <2>1. f = refuses
    BY <1>1, <1>8, <1>14
  <2> HIDE DEF refuses
  <2>2. QED
    BY <1>6, <1>10, <1>14, <2>1 DEF line
<1>15. CASE ~(e.refused \/ i < e.at) /\ Mentions(line, a) /\ rest # {} /\ ~line.quoted
  <2>1. f = leaves
    BY <1>1, <1>8, <1>15
  <2> HIDE DEF leaves
  <2>2. QED
    BY <1>4, <1>6, <1>10, <1>15, <2>1 DEF line
<1>16. CASE ~(e.refused \/ i < e.at) /\ Mentions(line, a) /\ rest = {}
  <2>1. f = done
    BY <1>1, <1>8, <1>16
  <2> HIDE DEF done
  <2>4. f \in Edits
    BY <1>9, <1>16, <2>1
  <2>2. Drops(lines, e, f, i)
    BY <1>3, <1>5, <1>9, <1>11, <1>16, <2>1 DEF Drops, drop
  <2>3. QED
    BY <1>7, <1>16, <2>2, <2>4 DEF line
<1>17. QED
  BY <1>12, <1>13, <1>14, <1>15, <1>16

\* Nothing is done yet.
NoEdit == [kept |-> <<>>, at |-> 1, refused |-> FALSE]

\* Nothing done is a removal so far.
LEMMA NoEditTyped == NoEdit \in Edits
<1> DEFINE kept == <<>>
           refused == FALSE
<1>1. kept \in Seq(HostsLines) /\ refused \in BOOLEAN /\ 1 \in Nat
  OBVIOUS
<1>2. NoEdit = [kept |-> kept, at |-> 1, refused |-> refused]
  BY DEF NoEdit
<1> HIDE DEF kept, refused
<1>3. QED
  BY <1>1, <1>2 DEF Edits

\* A line leaves a removal so far.
LEMMA WithoutLineTyped ==
    ASSUME NEW lines \in Seq(HostsLines), NEW a, NEW e \in Edits, NEW i \in 1 .. Len(lines)
    PROVE  Edit!WithoutLine(lines, a, e, i) \in Edits
  BY WithoutLineIs DEF MadeOf

EditStep(lines, a) == [p \in Edits \X (1 .. Len(lines)) |-> Edit!WithoutLine(lines, a, p[1], p[2])]

\* What a removal of a has made of the first i lines.
EditAt(lines, a, i) == Trace(Edits, EditStep(lines, a), NoEdit, Numbers(lines))[i]

\* What a removal has made of the lines, one by one.
LEMMA EditAtIs ==
    ASSUME NEW lines \in Seq(HostsLines), NEW a
    PROVE  /\ \A i \in 0 .. Len(lines) : EditAt(lines, a, i) \in Edits
           /\ EditAt(lines, a, 0) = NoEdit
           /\ \A i \in 1 .. Len(lines) :
                 EditAt(lines, a, i) = Edit!WithoutLine(lines, a, EditAt(lines, a, i - 1), i)
<1> DEFINE n == Len(lines)
           E == 1 .. n
           seq == Numbers(lines)
           base == NoEdit
           g == EditStep(lines, a)
           t == Trace(Edits, g, base, seq)
<1>1. n \in Nat /\ DOMAIN lines = 1 .. n
  OBVIOUS
<1>2. seq \in Seq(E) /\ Len(seq) = n /\ DOMAIN seq = 1 .. n /\ \A i \in 1 .. n : seq[i] = i
  BY <1>1 DEF Numbers
<1>3. base \in Edits
  BY NoEditTyped
<1>4. g \in [Edits \X E -> Edits]
  BY <1>1, WithoutLineTyped DEF EditStep
<1>5. \A s \in Edits, i \in E : g[<<s, i>>] = Edit!WithoutLine(lines, a, s, i)
  BY <1>1 DEF EditStep
<1> HIDE DEF n, E, seq, base, g, t
<1>7. IsTrace(t, Edits, g, base, seq)
  BY <1>2, <1>3, <1>4, TraceExists DEF t
<1>12. \A i \in 0 .. n : t[i] \in Edits
  BY <1>2, <1>7 DEF IsTrace
<1>13. t[0] = base
  <2>1. 0 \in 0 .. Len(seq)
    BY <1>1, <1>2
  <2>2. QED
    BY <1>7, <2>1 DEF IsTrace
<1>14. ASSUME NEW i \in 1 .. n
       PROVE  t[i] = Edit!WithoutLine(lines, a, t[i - 1], i)
  <2>1. i \in 0 .. Len(seq) /\ i # 0 /\ i - 1 \in 0 .. n /\ i \in E
    BY <1>1, <1>2, <1>14 DEF E
  <2>2. t[i] = g[<<t[i - 1], seq[i]>>]
    BY <1>7, <2>1 DEF IsTrace
  <2>3. QED
    BY <1>2, <1>5, <1>12, <2>1, <2>2
<1>15. \A i : EditAt(lines, a, i) = t[i]
  BY DEF EditAt, t, g, base, seq, n
<1>17. QED
  BY <1>12, <1>13, <1>14, <1>15 DEF n, base

\* A removal is what it makes of all the lines.
LEMMA WithoutHostIs ==
    ASSUME NEW lines \in Seq(HostsLines), NEW a
    PROVE  Edit!WithoutHost(lines, a) = EditAt(lines, a, Len(lines))
<1> DEFINE n == Len(lines)
           E == 1 .. n
           seq == Numbers(lines)
           base == NoEdit
           g == EditStep(lines, a)
           t == Trace(Edits, g, base, seq)
           iter == CHOOSE iter : iter = [s \in SUBSET DOMAIN seq |->
                      IF s = {} THEN base
                      ELSE Edit!WithoutLine(lines, a, iter[s \ {Max(s)}], seq[Max(s)])]
<1>1. n \in Nat /\ DOMAIN lines = 1 .. n
  OBVIOUS
<1>2. seq \in Seq(E) /\ Len(seq) = n /\ DOMAIN seq = 1 .. n /\ \A i \in 1 .. n : seq[i] = i
  BY <1>1 DEF Numbers
<1>3. base \in Edits
  BY NoEditTyped
<1>4. g \in [Edits \X E -> Edits]
  BY <1>1, WithoutLineTyped DEF EditStep
<1>5. \A s \in Edits, i \in E : g[<<s, i>>] = Edit!WithoutLine(lines, a, s, i)
  BY <1>1 DEF EditStep
<1>6. Edit!WithoutHost(lines, a) = iter[DOMAIN seq]
  BY DEF Numbers, NoEdit, Edit!WithoutHost, Edit!FoldLeftDomain, Edit!FoldLeft,
         Edit!MapThenFoldSet, Edit!Max, Max
<1> HIDE DEF n, E, seq, base, g, t
<1>7. IsTrace(t, Edits, g, base, seq)
  BY <1>2, <1>3, <1>4, TraceExists DEF t
<1>8. iter = [s \in SUBSET DOMAIN seq |->
                 IF s = {} THEN base
                 ELSE Edit!WithoutLine(lines, a, iter[s \ {Max(s)}], seq[Max(s)])]
  <2>1. seq \in [1 .. n -> E]
    BY <1>2
  <2>2. PICK h : IsFold(h, Edits, g, base, seq, n)
    BY <1>1, <1>3, <1>4, <2>1, FoldExists
  <2>3. ASSUME NEW s \in SUBSET (1 .. n)
        PROVE  h[s] = IF s = {} THEN base
                      ELSE Edit!WithoutLine(lines, a, h[s \ {Max(s)}], seq[Max(s)])
    <3>1. CASE s = {}
      BY <2>2, <3>1 DEF IsFold
    <3>2. CASE s # {}
      <4>1. Max(s) \in 1 .. n
        BY <1>1, <3>2, MaxIn
      <4>2. h[s \ {Max(s)}] \in Edits /\ seq[Max(s)] \in E
        BY <2>1, <2>2, <4>1 DEF IsFold
      <4>3. h[s] = g[<<h[s \ {Max(s)}], seq[Max(s)]>>]
        BY <2>2, <3>2 DEF IsFold
      <4>4. QED
        BY <1>5, <3>2, <4>2, <4>3
    <3>3. QED
      BY <3>1, <3>2
  <2>4. h = [s \in SUBSET DOMAIN seq |->
               IF s = {} THEN base
               ELSE Edit!WithoutLine(lines, a, h[s \ {Max(s)}], seq[Max(s)])]
    BY <1>2, <2>2, <2>3 DEF IsFold
  <2>5. QED
    BY <2>4
<1> HIDE DEF iter
<1>9. iter[{}] = base
  BY <1>8
<1>10. ASSUME NEW i \in 1 .. Len(seq), iter[1 .. (i - 1)] \in Edits
       PROVE  iter[1 .. i] = g[<<iter[1 .. (i - 1)], seq[i]>>]
  <2>1. /\ Max(1 .. i) = i /\ (1 .. i) \ {i} = 1 .. (i - 1) /\ 1 .. i # {}
        /\ 1 .. i \in SUBSET DOMAIN seq /\ seq[i] \in E
    BY <1>1, <1>2, UpTo DEF E
  <2>2. iter[1 .. i] = Edit!WithoutLine(lines, a, iter[1 .. (i - 1)], seq[i])
    BY <1>8, <2>1
  <2>3. QED
    BY <1>5, <1>10, <2>1, <2>2
<1>11. iter[DOMAIN seq] = Traced(Edits, g, base, seq)
  <2>1. Steps(iter, Edits, g, base, seq)
    BY <1>9, <1>10 DEF Steps
  <2>2. Ends(iter, Edits, g, base, seq)
    BY <1>2, <1>3, <1>4, <2>1, FoldIsTraced
  <2>3. QED
    BY <1>2, <2>2 DEF Ends
<1>12. QED
  BY <1>2, <1>6, <1>11 DEF Traced, EditAt, t, g, base, seq, n

-----------------------------------------------------------------------------
(* What a removal has to leave, line by line.                              *)

HandLine(lines, a, r, i) ==
    IF lines[i].kind \in {"blank", "tags"} \/ Edit!InOwnBlock(lines, i, a)
    THEN r ELSE Append(r, Left(lines[i], a))

\* What is left of a line is put below other lines.
LEMMA HandLineTyped ==
    ASSUME NEW lines \in Seq(HostsLines), NEW a, NEW r \in Seq(AnyLines), NEW i \in 1 .. Len(lines)
    PROVE  HandLine(lines, a, r, i) \in Seq(AnyLines)
<1>1. lines[i] \in HostsLines
  OBVIOUS
<1>2. Left(lines[i], a) \in AnyLines
  BY <1>1, LeftTyped
<1>3. QED
  BY <1>2 DEF HandLine

HandStep(lines, a) == [p \in Seq(AnyLines) \X (1 .. Len(lines)) |-> HandLine(lines, a, p[1], p[2])]

\* What a removal of a has to leave of the first i lines.
HandAt(lines, a, i) == Trace(Seq(AnyLines), HandStep(lines, a), <<>>, Numbers(lines))[i]

\* What a removal has to leave of the lines, one by one.
LEMMA HandAtIs ==
    ASSUME NEW lines \in Seq(HostsLines), NEW a
    PROVE  /\ \A i \in 0 .. Len(lines) : HandAt(lines, a, i) \in Seq(AnyLines)
           /\ HandAt(lines, a, 0) = <<>>
           /\ \A i \in 1 .. Len(lines) :
                 HandAt(lines, a, i) = HandLine(lines, a, HandAt(lines, a, i - 1), i)
<1> DEFINE n == Len(lines)
           E == 1 .. n
           seq == Numbers(lines)
           base == <<>>
           g == HandStep(lines, a)
           t == Trace(Seq(AnyLines), g, base, seq)
<1>1. n \in Nat /\ DOMAIN lines = 1 .. n
  OBVIOUS
<1>2. seq \in Seq(E) /\ Len(seq) = n /\ DOMAIN seq = 1 .. n /\ \A i \in 1 .. n : seq[i] = i
  BY <1>1 DEF Numbers
<1>3. base \in Seq(AnyLines)
  OBVIOUS
<1>4. g \in [Seq(AnyLines) \X E -> Seq(AnyLines)]
  BY <1>1, HandLineTyped DEF HandStep
<1>5. \A s \in Seq(AnyLines), i \in E : g[<<s, i>>] = HandLine(lines, a, s, i)
  BY <1>1 DEF HandStep
<1> HIDE DEF n, E, seq, base, g, t
<1>7. IsTrace(t, Seq(AnyLines), g, base, seq)
  BY <1>2, <1>3, <1>4, TraceExists DEF t
<1>12. \A i \in 0 .. n : t[i] \in Seq(AnyLines)
  BY <1>2, <1>7 DEF IsTrace
<1>13. t[0] = base
  <2>1. 0 \in 0 .. Len(seq)
    BY <1>1, <1>2
  <2>2. QED
    BY <1>7, <2>1 DEF IsTrace
<1>14. ASSUME NEW i \in 1 .. n
       PROVE  t[i] = HandLine(lines, a, t[i - 1], i)
  <2>1. i \in 0 .. Len(seq) /\ i # 0 /\ i - 1 \in 0 .. n /\ i \in E
    BY <1>1, <1>2, <1>14 DEF E
  <2>2. t[i] = g[<<t[i - 1], seq[i]>>]
    BY <1>7, <2>1 DEF IsTrace
  <2>3. QED
    BY <1>2, <1>5, <1>12, <2>1, <2>2
<1>15. \A i : HandAt(lines, a, i) = t[i]
  BY DEF HandAt, t, g, base, seq, n
<1>17. QED
  BY <1>12, <1>13, <1>14, <1>15 DEF n, base

\* What it has to leave of a file is what it has to leave of all the lines.
LEMMA ByHandIs ==
    ASSUME NEW lines \in Seq(HostsLines), NEW a
    PROVE  Edit!ByHand(lines, a) = HandAt(lines, a, Len(lines))
<1> DEFINE n == Len(lines)
           E == 1 .. n
           seq == Numbers(lines)
           base == <<>>
           g == HandStep(lines, a)
           t == Trace(Seq(AnyLines), g, base, seq)
           iter == CHOOSE iter : iter = [s \in SUBSET DOMAIN seq |->
                      IF s = {} THEN base
                      ELSE HandLine(lines, a, iter[s \ {Max(s)}], seq[Max(s)])]
<1>1. n \in Nat /\ DOMAIN lines = 1 .. n
  OBVIOUS
<1>2. seq \in Seq(E) /\ Len(seq) = n /\ DOMAIN seq = 1 .. n /\ \A i \in 1 .. n : seq[i] = i
  BY <1>1 DEF Numbers
<1>3. base \in Seq(AnyLines)
  OBVIOUS
<1>4. g \in [Seq(AnyLines) \X E -> Seq(AnyLines)]
  BY <1>1, HandLineTyped DEF HandStep
<1>5. \A s \in Seq(AnyLines), i \in E : g[<<s, i>>] = HandLine(lines, a, s, i)
  BY <1>1 DEF HandStep
<1>6. Edit!ByHand(lines, a) = iter[DOMAIN seq]
  BY DEF Numbers, HandLine, Left, Edit!ByHand, Edit!FoldLeftDomain, Edit!FoldLeft,
         Edit!MapThenFoldSet, Edit!Max, Max
<1> HIDE DEF n, E, seq, base, g, t
<1>7. IsTrace(t, Seq(AnyLines), g, base, seq)
  BY <1>2, <1>3, <1>4, TraceExists DEF t
<1>8. iter = [s \in SUBSET DOMAIN seq |->
                 IF s = {} THEN base
                 ELSE HandLine(lines, a, iter[s \ {Max(s)}], seq[Max(s)])]
  <2>1. seq \in [1 .. n -> E]
    BY <1>2
  <2>2. PICK h : IsFold(h, Seq(AnyLines), g, base, seq, n)
    BY <1>1, <1>3, <1>4, <2>1, FoldExists
  <2>3. ASSUME NEW s \in SUBSET (1 .. n)
        PROVE  h[s] = IF s = {} THEN base
                      ELSE HandLine(lines, a, h[s \ {Max(s)}], seq[Max(s)])
    <3>1. CASE s = {}
      BY <2>2, <3>1 DEF IsFold
    <3>2. CASE s # {}
      <4>1. Max(s) \in 1 .. n
        BY <1>1, <3>2, MaxIn
      <4>2. h[s \ {Max(s)}] \in Seq(AnyLines) /\ seq[Max(s)] \in E
        BY <2>1, <2>2, <4>1 DEF IsFold
      <4>3. h[s] = g[<<h[s \ {Max(s)}], seq[Max(s)]>>]
        BY <2>2, <3>2 DEF IsFold
      <4>4. QED
        BY <1>5, <3>2, <4>2, <4>3
    <3>3. QED
      BY <3>1, <3>2
  <2>4. h = [s \in SUBSET DOMAIN seq |->
               IF s = {} THEN base
               ELSE HandLine(lines, a, h[s \ {Max(s)}], seq[Max(s)])]
    BY <1>2, <2>2, <2>3 DEF IsFold
  <2>5. QED
    BY <2>4
<1> HIDE DEF iter
<1>9. iter[{}] = base
  BY <1>8
<1>10. ASSUME NEW i \in 1 .. Len(seq), iter[1 .. (i - 1)] \in Seq(AnyLines)
       PROVE  iter[1 .. i] = g[<<iter[1 .. (i - 1)], seq[i]>>]
  <2>1. /\ Max(1 .. i) = i /\ (1 .. i) \ {i} = 1 .. (i - 1) /\ 1 .. i # {}
        /\ 1 .. i \in SUBSET DOMAIN seq /\ seq[i] \in E
    BY <1>1, <1>2, UpTo DEF E
  <2>2. iter[1 .. i] = HandLine(lines, a, iter[1 .. (i - 1)], seq[i])
    BY <1>8, <2>1
  <2>3. QED
    BY <1>5, <1>10, <2>1, <2>2
<1>11. iter[DOMAIN seq] = Traced(Seq(AnyLines), g, base, seq)
  <2>1. Steps(iter, Seq(AnyLines), g, base, seq)
    BY <1>9, <1>10 DEF Steps
  <2>2. Ends(iter, Seq(AnyLines), g, base, seq)
    BY <1>2, <1>3, <1>4, <2>1, FoldIsTraced
  <2>3. QED
    BY <1>2, <2>2 DEF Ends
<1>12. QED
  BY <1>2, <1>6, <1>11 DEF Traced, HandAt, t, g, base, seq, n

-----------------------------------------------------------------------------
(* What a file means up to a line.                                         *)

ReadTo(lines, i, b) == Edit!ReadFor(SubSeq(lines, 1, i), b)

\* Every line is read after those above it.
LEMMA ReadToIs ==
    ASSUME NEW lines \in Seq(HostsLines), NEW b
    PROVE  /\ \A i \in 0 .. Len(lines) : ReadTo(lines, i, b) \in Readings
           /\ ReadTo(lines, 0, b) = Edit!Unread
           /\ \A i \in 1 .. Len(lines) :
                 ReadTo(lines, i, b) = Edit!ReadLine(ReadTo(lines, i - 1, b), lines[i], b)
           /\ ReadTo(lines, Len(lines), b) = Edit!ReadFor(lines, b)
<1>1. ASSUME NEW i \in 0 .. Len(lines) PROVE ReadTo(lines, i, b) \in Readings
  <2>1. SubSeq(lines, 1, i) \in Seq(HostsLines)
    OBVIOUS
  <2>2. QED
    BY <2>1, ReadMore DEF ReadTo
<1>2. ReadTo(lines, 0, b) = Edit!Unread
  BY AllOfThem, ReadMore DEF ReadTo
<1>3. ASSUME NEW i \in 1 .. Len(lines)
      PROVE  ReadTo(lines, i, b) = Edit!ReadLine(ReadTo(lines, i - 1, b), lines[i], b)
  <2> DEFINE above == SubSeq(lines, 1, i - 1)
  <2>1. above \in Seq(HostsLines) /\ lines[i] \in HostsLines
        /\ SubSeq(lines, 1, i) = Append(above, lines[i])
    BY OneMore
  <2> HIDE DEF above
  <2>2. Edit!ReadFor(Append(above, lines[i]), b) = Edit!ReadLine(Edit!ReadFor(above, b), lines[i], b)
    BY <2>1, ReadMore
  <2>3. QED
    BY <2>1, <2>2 DEF ReadTo, above
<1>4. ReadTo(lines, Len(lines), b) = Edit!ReadFor(lines, b)
  BY AllOfThem DEF ReadTo
<1>5. QED
  BY <1>1, <1>2, <1>3, <1>4

\* No tag is pending but right above a Host line.
Tidy(lines, b) ==
    \A i \in 1 .. Len(lines) :
       lines[i].kind \notin {"blank", "tags"} => ReadTo(lines, i, b).pending = {}

\* Where tag comments stand above their hosts, none is pending anywhere else.
LEMMA TidyIs ==
    ASSUME NEW lines \in Seq(HostsLines), NEW b, Edit!TagsAbove(lines)
    PROVE  Tidy(lines, b)
<1> DEFINE n == Len(lines)
           P(i) == ReadTo(lines, i, b).pending # {} =>
                      \E j \in 1 .. i : /\ lines[j].kind = "tags"
                                        /\ \A k \in (j + 1) .. i : ~Edit!Starts(lines[k])
           T == {i \in Nat : i <= n => P(i)}
<1>1. n \in Nat
  OBVIOUS
<1>2. 0 \in T
  <2>1. ReadTo(lines, 0, b).pending = {}
    BY ReadToIs DEF Edit!Unread
  <2>2. QED
    BY <2>1
<1>3. ASSUME NEW i \in Nat, i \in T PROVE i + 1 \in T
  <2> SUFFICES ASSUME i + 1 <= n, ReadTo(lines, i + 1, b).pending # {}
               PROVE  \E j \in 1 .. (i + 1) : /\ lines[j].kind = "tags"
                                              /\ \A k \in (j + 1) .. (i + 1) : ~Edit!Starts(lines[k])
    OBVIOUS
  <2> DEFINE line == lines[i + 1]
             r == ReadTo(lines, i, b)
             s == ReadTo(lines, i + 1, b)
  <2>1. i + 1 \in 1 .. n /\ i \in 0 .. n /\ (i + 1) - 1 = i /\ line \in HostsLines
    BY <1>1
  <2>2. r \in Readings /\ s = Edit!ReadLine(r, line, b)
    BY <2>1, ReadToIs
  <2>3. P(i)
    BY <1>3
  <2> HIDE DEF line, r, s, n
  <2>4. CASE line.kind = "tags"
    <3>1. \A k \in ((i + 1) + 1) .. (i + 1) : FALSE
      OBVIOUS
    <3>2. i + 1 \in 1 .. (i + 1)
      OBVIOUS
    <3>3. QED
      BY <2>4, <3>1, <3>2 DEF line
  <2>5. CASE line.kind # "tags"
    <3>1. ~Edit!Starts(line) /\ s.pending = r.pending
      BY <2>1, <2>2, <2>5, ReadLineIs, HostsLineIs DEF s, Edit!Starts
    <3>2. PICK j \in 1 .. i : /\ lines[j].kind = "tags"
                              /\ \A k \in (j + 1) .. i : ~Edit!Starts(lines[k])
      BY <2>3, <3>1 DEF r, s
    <3>3. \A k \in (j + 1) .. (i + 1) : k = i + 1 \/ k \in (j + 1) .. i
      OBVIOUS
    <3>4. j \in 1 .. (i + 1)
      OBVIOUS
    <3>5. QED
      BY <3>1, <3>2, <3>3, <3>4 DEF line
  <2>6. QED
    BY <2>4, <2>5
<1> HIDE DEF T
<1>4. Nat \subseteq T
  BY <1>2, <1>3, AllNumbers
<1>5. SUFFICES ASSUME NEW i \in 1 .. n, lines[i].kind \notin {"blank", "tags"},
                      ReadTo(lines, i, b).pending # {}
               PROVE  FALSE
  BY DEF Tidy
<1>6. PICK j \in 1 .. i : /\ lines[j].kind = "tags"
                          /\ \A k \in (j + 1) .. i : ~Edit!Starts(lines[k])
  <2>1. i \in Nat /\ i <= n
    BY <1>1
  <2>2. P(i)
    BY <1>4, <2>1 DEF T
  <2>3. QED
    BY <1>5, <2>2
<1> DEFINE I == {k \in (j + 1) .. n : lines[k].kind \notin {"blank", "tags"}}
           next == IF I # {} THEN Min(I) ELSE 0
<1>7. next # 0 /\ lines[next].kind = "host"
  <2>1. j \in DOMAIN lines
    BY <1>1
  <2>2. QED
    BY <1>6, <2>1 DEF Edit!TagsAbove, Edit!SelectInSubSeq, Edit!Min, Min
<1>8. i \in I /\ I \in SUBSET (1 .. n)
  <2>1. i # j
    BY <1>5, <1>6
  <2>2. QED
    BY <1>1, <1>5, <2>1
<1>9. next \in I /\ next <= i
  <2> HIDE DEF I, n
  <2>1. next = IF I # {} THEN Min(I) ELSE 0
    OBVIOUS
  <2> HIDE DEF next
  <2>2. QED
    BY <1>1, <1>7, <1>8, <2>1, FirstIs
<1> HIDE DEF next
<1>10. next \in (j + 1) .. i
  BY <1>1, <1>9
<1>11. QED
  BY <1>6, <1>7, <1>10 DEF Edit!Starts

\* One line more leaves a file tidy, when no tag is pending below it.
LEMMA TidyMore ==
    ASSUME NEW s \in Seq(HostsLines), NEW b, Tidy(s, b), NEW line \in HostsLines,
           line.kind \notin {"blank", "tags"} => Edit!ReadFor(Append(s, line), b).pending = {}
    PROVE  Tidy(Append(s, line), b)
<1> DEFINE t == Append(s, line)
           n == Len(s)
<1>1. /\ t \in Seq(HostsLines) /\ n \in Nat /\ Len(t) = n + 1 /\ t[n + 1] = line
      /\ \A i \in 1 .. n : t[i] = s[i] /\ SubSeq(t, 1, i) = SubSeq(s, 1, i)
      /\ SubSeq(t, 1, n + 1) = t
  OBVIOUS
<1> HIDE DEF t, n
<1>2. ASSUME NEW i \in 1 .. Len(t), t[i].kind \notin {"blank", "tags"}
      PROVE  ReadTo(t, i, b).pending = {}
  <2>1. CASE i \in 1 .. n
    BY <1>1, <1>2, <2>1 DEF Tidy, ReadTo, n
  <2>2. CASE i = n + 1
    BY <1>1, <1>2, <2>2 DEF ReadTo, t
  <2>3. QED
    BY <1>1, <2>1, <2>2
<1>3. QED
  BY <1>2 DEF Tidy, t

\* An empty line means nothing.
LEMMA BlankMore ==
    ASSUME NEW s \in Seq(HostsLines), NEW b
    PROVE  /\ Append(s, Edit!Blank) \in Seq(HostsLines)
           /\ Edit!ReadFor(Append(s, Edit!Blank), b) = Edit!ReadFor(s, b)
           /\ Edit!HandWritten(Append(s, Edit!Blank)) = Edit!HandWritten(s)
           /\ Edit!Named(Append(s, Edit!Blank), b) => Edit!Named(s, b)
           /\ Tidy(s, b) => Tidy(Append(s, Edit!Blank), b)
<1> DEFINE line == Edit!Blank
<1>1. line \in HostsLines /\ line.kind = "blank"
  BY BlankIs
<1> HIDE DEF line
<1>2. Append(s, line) \in Seq(HostsLines)
  BY <1>1
<1>3. Edit!ReadFor(Append(s, line), b) = Edit!ReadFor(s, b)
  <2>1. Edit!ReadFor(s, b) \in Readings
    BY ReadMore
  <2>2. Edit!ReadFor(Append(s, line), b) = Edit!ReadLine(Edit!ReadFor(s, b), line, b)
    BY <1>1, ReadMore
  <2>3. QED
    BY <1>1, <2>1, <2>2, ReadLineIs
<1>4. Edit!HandWritten(Append(s, line)) = Edit!HandWritten(s)
  <2>1. s \in Seq(AnyLines) /\ line \in AnyLines
    BY <1>1, HostsLineIs
  <2>2. Edit!HandWritten(Append(s, line)) = WithLine(Edit!HandWritten(s), line)
    BY <2>1, HandWrittenMore
  <2>3. QED
    BY <1>1, <2>2 DEF WithLine
<1>5. Edit!Named(Append(s, line), b) => Edit!Named(s, b)
  BY <1>1 DEF Edit!Named
<1>6. Tidy(s, b) => Tidy(Append(s, line), b)
  BY <1>1, TidyMore
<1>7. QED
  BY <1>2, <1>3, <1>4, <1>5, <1>6 DEF line

\* Nor do the blank lines and tags at the end of a file mean anything to it.
LEMMA DropReads ==
    ASSUME NEW kept \in Seq(HostsLines), NEW b, NEW d, d = Edit!DropPreamble(kept)
    PROVE  /\ d \in Seq(HostsLines)
           /\ Edit!ReadFor(d, b).file = Edit!ReadFor(kept, b).file
           /\ Edit!ReadFor(d, b).own = Edit!ReadFor(kept, b).own
           /\ Edit!ReadFor(d, b).scope = Edit!ReadFor(kept, b).scope
           /\ Edit!ReadFor(d, b).tags = Edit!ReadFor(kept, b).tags
           /\ Edit!HandWritten(d) = Edit!HandWritten(kept)
           /\ Edit!Named(d, b) => Edit!Named(kept, b)
           /\ Tidy(kept, b) => Tidy(d, b) /\ Edit!ReadFor(d, b).pending = {}
<1> DEFINE n == Len(kept)
           R(k) == ReadTo(kept, k, b)
           H(k) == Edit!HandWritten(SubSeq(kept, 1, k))
<1>1. PICK m \in 0 .. n : /\ d = SubSeq(kept, 1, m)
                          /\ m # 0 => kept[m].kind \notin {"blank", "tags"}
                          /\ \A j \in (m + 1) .. n : kept[j].kind \in {"blank", "tags"}
  BY DropIs
<1>2. n \in Nat /\ m \in Nat /\ m <= n /\ d \in Seq(HostsLines) /\ Len(d) = m
      /\ (\A i \in 1 .. m : d[i] = kept[i] /\ SubSeq(d, 1, i) = SubSeq(kept, 1, i))
  BY <1>1
<1>3. SubSeq(kept, 1, n) = kept
  BY AllOfThem
<1> DEFINE Still(k) == /\ R(k).file = R(m).file /\ R(k).own = R(m).own
                      /\ R(k).scope = R(m).scope /\ R(k).tags = R(m).tags /\ H(k) = H(m)
           T == {k \in Nat : m + k <= n => Still(m + k)}
<1> HIDE DEF n
<1>4. 0 \in T
  BY <1>2
<1>5. ASSUME NEW k \in Nat, k \in T PROVE k + 1 \in T
  <2> SUFFICES ASSUME m + (k + 1) <= n PROVE Still(m + (k + 1))
    OBVIOUS
  <2> DEFINE i == m + (k + 1)
             line == kept[i]
  <2>1. i \in 1 .. n /\ i \in (m + 1) .. n /\ i - 1 = m + k /\ m + k \in 0 .. n
    BY <1>2
  <2>2. Still(i - 1)
    BY <1>2, <1>5, <2>1
  <2>3. line \in HostsLines /\ line.kind \in {"blank", "tags"}
    BY <1>1, <2>1 DEF n
  <2> HIDE DEF line, i
  <2>4. R(i - 1) \in Readings /\ R(i) = Edit!ReadLine(R(i - 1), line, b)
    BY <2>1, ReadToIs DEF line, n
  <2>5. /\ R(i).file = R(i - 1).file /\ R(i).own = R(i - 1).own
        /\ R(i).scope = R(i - 1).scope /\ R(i).tags = R(i - 1).tags
    <3> DEFINE r == R(i - 1)
               s == R(i)
    <3>1. r \in Readings /\ s = Edit!ReadLine(r, line, b)
      BY <2>4
    <3> HIDE DEF r, s
    <3>2. s.file = r.file /\ s.own = r.own /\ s.scope = r.scope /\ s.tags = r.tags
      BY <2>3, <3>1, ReadLineIs DEF Edit!Starts
    <3>3. QED
      BY <3>2 DEF r, s
  <2>6. H(i) = H(i - 1)
    <3> DEFINE above == SubSeq(kept, 1, i - 1)
    <3>1. above \in Seq(HostsLines) /\ SubSeq(kept, 1, i) = Append(above, line)
      BY <2>1, OneMore DEF line, n
    <3> HIDE DEF above
    <3>2. above \in Seq(AnyLines) /\ line \in AnyLines
      BY <2>3, <3>1, HostsLineIs
    <3>3. Edit!HandWritten(Append(above, line)) = WithLine(Edit!HandWritten(above), line)
      BY <3>2, HandWrittenMore
    <3>4. QED
      BY <2>3, <3>1, <3>3 DEF WithLine, above
  <2> HIDE DEF R, H
  <2>7. Still(i)
    BY <2>2, <2>5, <2>6
  <2>8. QED
    BY <2>7 DEF i
<1> HIDE DEF T
<1>6. Nat \subseteq T
  BY <1>4, <1>5, AllNumbers
<1>7. Still(n)
  <2>1. n - m \in Nat /\ m + (n - m) = n
    BY <1>2
  <2> HIDE DEF Still
  <2>2. m + (n - m) <= n => Still(m + (n - m))
    BY <1>6, <2>1 DEF T
  <2>3. QED
    BY <1>2, <2>1, <2>2
<1>8. /\ R(m) = Edit!ReadFor(d, b) /\ H(m) = Edit!HandWritten(d)
      /\ R(n) = Edit!ReadFor(kept, b) /\ H(n) = Edit!HandWritten(kept)
  BY <1>1, <1>3 DEF ReadTo
<1>9. Edit!Named(d, b) => Edit!Named(kept, b)
  BY <1>2 DEF Edit!Named, n
<1>10. ASSUME Tidy(kept, b) PROVE Tidy(d, b) /\ Edit!ReadFor(d, b).pending = {}
  <2>1. Tidy(d, b)
    <3> SUFFICES ASSUME NEW i \in 1 .. Len(d), d[i].kind \notin {"blank", "tags"}
                 PROVE  ReadTo(d, i, b).pending = {}
      BY DEF Tidy
    <3>1. i \in 1 .. m /\ i \in 1 .. Len(kept)
      BY <1>2 DEF n
    <3>2. kept[i].kind \notin {"blank", "tags"} /\ ReadTo(d, i, b) = ReadTo(kept, i, b)
      BY <1>2, <3>1 DEF ReadTo
    <3>3. QED
      BY <1>10, <3>1, <3>2 DEF Tidy
  <2>2. R(m).pending = {}
    <3>1. CASE m = 0
      BY <3>1, ReadToIs DEF Edit!Unread
    <3>2. CASE m # 0
      <4>1. m \in 1 .. Len(kept) /\ kept[m].kind \notin {"blank", "tags"}
        BY <1>1, <1>2, <3>2 DEF n
      <4>2. QED
        BY <1>10, <4>1 DEF Tidy
    <3>3. QED
      BY <3>1, <3>2
  <2>3. QED
    BY <1>8, <2>1, <2>2
<1> HIDE DEF R, H
<1>11. QED
  BY <1>2, <1>7, <1>8, <1>9, <1>10

-----------------------------------------------------------------------------
(* What is kept of the lines so far means what they do.                    *)

\* Line pos is in a block of a's alone.
InOwn(lines, a, pos) ==
    /\ Edit!Owner(lines, pos) # 0
    /\ lines[Edit!Owner(lines, pos)].kind = "host"
    /\ lines[Edit!Owner(lines, pos)].says = {a}

\* Of such a block no directive is below.
Past(lines, a, pos) ==
    InOwn(lines, a, pos) =>
       \A j \in (pos + 1) .. Len(lines) :
          lines[j].kind = "set" => Edit!Owner(lines, j) # Edit!Owner(lines, pos)

\* What is kept resolves for b as the lines do, and what is below will: in a block
\* that is kept, or in what is left of a's, which has no directive.
Alike(lines, a, pos, r, s) ==
    /\ s.file = r.file /\ s.own = r.own
    /\ s.scope = r.scope \/ InOwn(lines, a, pos)

\* What is kept means to b what the lines do: its directives, and its tags where they
\* stand above their hosts.
WalkFor(lines, a, kept, pos, b) ==
    /\ Alike(lines, a, pos, ReadTo(lines, pos, b), Edit!ReadFor(kept, b))
    /\ Tidy(lines, b) =>
          /\ Tidy(kept, b)
          /\ Edit!ReadFor(kept, b).tags = ReadTo(lines, pos, b).tags
          /\ Edit!ReadFor(kept, b).pending = ReadTo(lines, pos, b).pending

\* And to every other host; it does not name a, and is what a removal has to leave.
Walk(lines, a, kept, pos) ==
    /\ kept \in Seq(HostsLines)
    /\ ~Edit!Named(kept, a)
    /\ Edit!HandWritten(kept) = HandAt(lines, a, pos)
    /\ Past(lines, a, pos)
    /\ \A b \in Aliases \ {a} : WalkFor(lines, a, kept, pos, b)

\* A line that is not of a block of a's alone, or is below its directives.
LEMMA KeptIsNotOwn ==
    ASSUME NEW lines \in Seq(HostsLines), NEW a, NEW i \in 1 .. Len(lines),
           Past(lines, a, i - 1), ~(lines[i].kind = "host" /\ lines[i].says = {a})
    PROVE  /\ ~Edit!InOwnBlock(lines, i, a)
           /\ Past(lines, a, i)
<1> DEFINE n == Len(lines)
           h == Edit!Owner(lines, i)
           g == Edit!Owner(lines, i - 1)
<1>1. h = IF Edit!Starts(lines[i]) THEN i ELSE g
  BY OwnerStep
<1>2. n \in Nat /\ i \in 1 .. n /\ i - 1 \in 0 .. n /\ lines[i] \in HostsLines
      /\ (\A j \in i .. n : j \in ((i - 1) + 1) .. n)
      /\ (\A j \in (i + 1) .. n : j \in ((i - 1) + 1) .. n)
  OBVIOUS
<1>3. g \in 0 .. (i - 1)
  BY <1>2, OwnerIs
<1> HIDE DEF n
<1>4. CASE Edit!Starts(lines[i])
  <2>1. h = i
    BY <1>1, <1>4
  <2>2. ~InOwn(lines, a, i)
    BY <2>1 DEF InOwn
  <2>3. ~Edit!InOwnBlock(lines, i, a)
    BY <2>1 DEF Edit!InOwnBlock
  <2>4. QED
    BY <2>2, <2>3 DEF Past
<1>5. CASE ~Edit!Starts(lines[i])
  <2>1. h = g /\ h # i
    BY <1>1, <1>2, <1>3, <1>5
  <2>2. InOwn(lines, a, i) <=> InOwn(lines, a, i - 1)
    BY <2>1 DEF InOwn
  <2>3. InOwn(lines, a, i - 1) =>
           \A j \in i .. n : lines[j].kind = "set" => Edit!Owner(lines, j) # g
    BY <1>2 DEF Past, n
  <2>4. Past(lines, a, i)
    <3> SUFFICES ASSUME InOwn(lines, a, i), NEW j \in (i + 1) .. Len(lines), lines[j].kind = "set"
                 PROVE  Edit!Owner(lines, j) # h
      BY DEF Past
    <3>1. j \in i .. n
      BY <1>2 DEF n
    <3>2. QED
      BY <2>1, <2>2, <2>3, <3>1
  <2>5. ~Edit!InOwnBlock(lines, i, a)
    <3> SUFFICES ASSUME Edit!InOwnBlock(lines, i, a) PROVE FALSE
      OBVIOUS
    <3>1. /\ h # 0 /\ lines[h].kind = "host" /\ lines[h].says = {a}
          /\ \E j \in i .. n : lines[j].kind = "set" /\ Edit!Owner(lines, j) = h
      BY <2>1 DEF Edit!InOwnBlock, n
    <3>2. InOwn(lines, a, i - 1)
      BY <2>1, <3>1 DEF InOwn
    <3>3. QED
      BY <2>1, <2>3, <3>1, <3>2
  <2>6. QED
    BY <2>4, <2>5
<1>6. QED
  BY <1>4, <1>5

\* What is left of a line is read by the others as the line is.
LEMMA LeftReads ==
    ASSUME NEW line \in HostsLines, NEW a, NEW b, b # a, AnyHost # a
    PROVE  /\ Edit!Starts(Left(line, a)) <=> Edit!Starts(line)
           /\ Edit!Covers(Left(line, a), b) <=> Edit!Covers(line, b)
           /\ ~Edit!Starts(line) => Left(line, a) = line
<1>1. Left(line, a).kind = line.kind /\ (line.kind = "host" => Left(line, a).says = line.says \ {a})
  BY LeftTyped
<1>2. ~Edit!Starts(line) => Left(line, a) = line
  BY LeftTyped DEF Mentions, Edit!Starts
<1> DEFINE l == Left(line, a)
<1> HIDE DEF l
<1>3. l.kind = line.kind /\ (line.kind = "host" => l.says = line.says \ {a})
  BY <1>1 DEF l
<1>4. (Edit!Starts(l) <=> Edit!Starts(line)) /\ (Edit!Covers(l, b) <=> Edit!Covers(line, b))
  BY <1>3 DEF Edit!Starts, Edit!Covers
<1>5. QED
  BY <1>2, <1>4 DEF l

\* A line that is kept means to the others what it meant.
LEMMA KeptReads ==
    ASSUME NEW lines \in Seq(HostsLines), NEW a, AnyHost # a, NEW i \in 1 .. Len(lines),
           NEW kept \in Seq(HostsLines), NEW b, b # a,
           Past(lines, a, i - 1), WalkFor(lines, a, kept, i - 1, b),
           ~(lines[i].kind = "host" /\ lines[i].says = {a})
    PROVE  WalkFor(lines, a, Append(kept, Left(lines[i], a)), i, b)
<1> DEFINE n == Len(lines)
           line == lines[i]
           l == Left(line, a)
           more == Append(kept, l)
           r == ReadTo(lines, i - 1, b)
           r2 == ReadTo(lines, i, b)
           s == Edit!ReadFor(kept, b)
           s2 == Edit!ReadFor(more, b)
           h == Edit!Owner(lines, i)
           g == Edit!Owner(lines, i - 1)
<1>1. n \in Nat /\ i \in 1 .. n /\ i - 1 \in 0 .. n /\ line \in HostsLines
      /\ i \in ((i - 1) + 1) .. n
  OBVIOUS
<1>2. l \in HostsLines /\ l.kind = line.kind
  BY <1>1, LeftTyped
<1>3. /\ Edit!Starts(l) <=> Edit!Starts(line)
      /\ Edit!Covers(l, b) <=> Edit!Covers(line, b)
      /\ ~Edit!Starts(line) => l = line
  BY <1>1, LeftReads
<1>4. r \in Readings /\ r2 = Edit!ReadLine(r, line, b)
  BY <1>1, ReadToIs
<1>5. s \in Readings /\ s2 = Edit!ReadLine(s, l, b)
  BY <1>2, ReadMore
<1>6. h = IF Edit!Starts(line) THEN i ELSE g
  BY OwnerStep
<1>7. /\ s.file = r.file /\ s.own = r.own /\ (s.scope = r.scope \/ InOwn(lines, a, i - 1))
      /\ Tidy(lines, b) => Tidy(kept, b) /\ s.tags = r.tags /\ s.pending = r.pending
  BY DEF WalkFor, Alike
<1>8. line.kind = "set" => ~InOwn(lines, a, i - 1)
  <2> SUFFICES ASSUME line.kind = "set", InOwn(lines, a, i - 1) PROVE FALSE
    OBVIOUS
  <2>1. h = g
    BY <1>6 DEF Edit!Starts
  <2>2. h # g
    BY <1>1 DEF Past
  <2>3. QED
    BY <2>1, <2>2
<1>9. ~Edit!Starts(line) => (InOwn(lines, a, i) <=> InOwn(lines, a, i - 1))
  BY <1>6 DEF InOwn
<1>10. /\ line.kind \notin {"blank", "tags"} => r2.pending = {} \/ r2.pending = r.pending
       /\ Tidy(lines, b) /\ line.kind \notin {"blank", "tags"} => r2.pending = {}
  <2>1. Tidy(lines, b) /\ line.kind \notin {"blank", "tags"} => r2.pending = {}
    BY <1>1 DEF Tidy
  <2> HIDE DEF line, r, r2
  <2>2. line.kind \notin {"blank", "tags"} => r2.pending = {} \/ r2.pending = r.pending
    BY <1>1, <1>4, ReadLineIs, HostsLineIs DEF Edit!Starts, line
  <2>3. QED
    BY <2>1, <2>2
<1> HIDE DEF line, l, more, r, r2, s, s2, h, g, n
<1>11. /\ s2.file = r2.file /\ s2.own = r2.own /\ (s2.scope = r2.scope \/ InOwn(lines, a, i))
       /\ s.tags = r.tags /\ s.pending = r.pending => s2.tags = r2.tags /\ s2.pending = r2.pending
  <2>1. CASE Edit!Starts(line)
    <3>1. /\ r2.file = r.file /\ r2.own = r.own /\ r2.pending = {}
          /\ r2.scope = (IF Edit!Covers(line, b) THEN "own" ELSE "other")
          /\ r2.tags = (IF Edit!Covers(line, b) /\ r.tags = {} THEN r.pending ELSE r.tags)
      BY <1>1, <1>4, <2>1, ReadLineIs
    <3>2. /\ s2.file = s.file /\ s2.own = s.own /\ s2.pending = {}
          /\ s2.scope = (IF Edit!Covers(l, b) THEN "own" ELSE "other")
          /\ s2.tags = (IF Edit!Covers(l, b) /\ s.tags = {} THEN s.pending ELSE s.tags)
      BY <1>2, <1>3, <1>5, <2>1, ReadLineIs
    <3>3. QED
      BY <1>3, <1>7, <3>1, <3>2
  <2>2. CASE ~Edit!Starts(line)
    <3>1. l = line
      BY <1>3, <2>2
    <3>2. r2.scope = r.scope /\ r2.tags = r.tags /\ s2.scope = s.scope /\ s2.tags = s.tags
      BY <1>1, <1>4, <1>5, <2>2, <3>1, ReadLineIs
    <3>3. line.kind \in {"blank", "comment", "tags", "set"}
      BY <1>1, <2>2, HostsLineIs DEF Edit!Starts
    <3>4. CASE line.kind \in {"blank", "comment"}
      <4>1. r2 = r /\ s2 = s
        BY <1>1, <1>4, <1>5, <3>1, <3>4, ReadLineIs
      <4>2. QED
        BY <1>7, <1>9, <2>2, <4>1
    <3>5. CASE line.kind = "tags"
      <4>1. /\ r2.file = r.file /\ r2.own = r.own /\ r2.pending = line.says
            /\ s2.file = s.file /\ s2.own = s.own /\ s2.pending = line.says
        BY <1>1, <1>4, <1>5, <3>1, <3>5, ReadLineIs
      <4>2. QED
        BY <1>7, <1>9, <2>2, <3>2, <4>1
    <3>6. CASE line.kind = "set"
      <4>1. /\ r2.file = (IF r.scope = "file" THEN Append(r.file, line.says) ELSE r.file)
            /\ r2.own = (IF r.scope = "own" THEN Append(r.own, line.says) ELSE r.own)
            /\ r2.pending = r.pending
        BY <1>1, <1>4, <3>6, ReadLineIs
      <4>2. /\ s2.file = (IF s.scope = "file" THEN Append(s.file, line.says) ELSE s.file)
            /\ s2.own = (IF s.scope = "own" THEN Append(s.own, line.says) ELSE s.own)
            /\ s2.pending = s.pending
        BY <1>1, <1>5, <3>1, <3>6, ReadLineIs
      <4>3. QED
        BY <1>7, <1>8, <3>2, <3>6, <4>1, <4>2
    <3>7. QED
      BY <3>3, <3>4, <3>5, <3>6
  <2>3. QED
    BY <2>1, <2>2
<1>12. ASSUME Tidy(lines, b)
       PROVE  Tidy(more, b) /\ s2.tags = r2.tags /\ s2.pending = r2.pending
  <2>1. s2.tags = r2.tags /\ s2.pending = r2.pending
    BY <1>7, <1>11, <1>12
  <2>2. l.kind \notin {"blank", "tags"} => s2.pending = {}
    BY <1>2, <1>10, <1>12, <2>1
  <2>3. Tidy(kept, b)
    BY <1>7, <1>12
  <2>4. Tidy(more, b)
    BY <1>2, <2>2, <2>3, TidyMore DEF s2, more
  <2>5. QED
    BY <2>1, <2>4
<1>13. Alike(lines, a, i, r2, s2)
  BY <1>11 DEF Alike
<1>14. WalkFor(lines, a, more, i, b)
  BY <1>12, <1>13 DEF WalkFor, r2, s2
<1>15. QED
  BY <1>14 DEF more, l, line

\* What is left of a line is kept as it should be.
LEMMA KeepLine ==
    ASSUME NEW lines \in Seq(HostsLines), NEW a, AnyHost # a, NEW i \in 1 .. Len(lines),
           NEW kept, Walk(lines, a, kept, i - 1),
           ~(lines[i].kind = "host" /\ lines[i].says = {a})
    PROVE  Walk(lines, a, Append(kept, Left(lines[i], a)), i)
<1> DEFINE line == lines[i]
           l == Left(line, a)
           more == Append(kept, l)
<1>1. line \in HostsLines /\ i \in 1 .. Len(lines)
  OBVIOUS
<1>2. l \in HostsLines /\ l.kind = line.kind /\ (line.kind = "host" => l.says = line.says \ {a})
  BY <1>1, LeftTyped
<1>3. /\ kept \in Seq(HostsLines) /\ ~Edit!Named(kept, a)
      /\ Edit!HandWritten(kept) = HandAt(lines, a, i - 1) /\ Past(lines, a, i - 1)
      /\ \A b \in Aliases \ {a} : WalkFor(lines, a, kept, i - 1, b)
  BY DEF Walk
<1>4. ~Edit!InOwnBlock(lines, i, a) /\ Past(lines, a, i)
  BY <1>3, KeptIsNotOwn
<1>5. \A b \in Aliases \ {a} : WalkFor(lines, a, more, i, b)
  BY <1>3, KeptReads
<1>6. HandAt(lines, a, i) = WithLine(HandAt(lines, a, i - 1), l)
  <2>1. HandAt(lines, a, i) = HandLine(lines, a, HandAt(lines, a, i - 1), i)
    BY HandAtIs
  <2>2. QED
    BY <1>2, <1>4, <2>1 DEF HandLine, WithLine
<1> HIDE DEF l, line
<1>7. more \in Seq(HostsLines) /\ ~Edit!Named(more, a)
  <2>1. more \in Seq(HostsLines) /\ Len(more) = Len(kept) + 1 /\ more[Len(kept) + 1] = l
        /\ (\A j \in 1 .. Len(kept) : more[j] = kept[j])
    BY <1>2, <1>3
  <2>2. ~(l.kind = "host" /\ a \in l.says)
    BY <1>2
  <2> HIDE DEF more
  <2>3. QED
    BY <1>3, <2>1, <2>2 DEF Edit!Named
<1>8. Edit!HandWritten(more) = HandAt(lines, a, i)
  <2>1. kept \in Seq(AnyLines) /\ l \in AnyLines
    BY <1>2, <1>3, HostsLineIs
  <2>2. Edit!HandWritten(more) = WithLine(Edit!HandWritten(kept), l)
    BY <2>1, HandWrittenMore
  <2>3. QED
    BY <1>3, <1>6, <2>2
<1> HIDE DEF more
<1>9. Walk(lines, a, more, i)
  BY <1>4, <1>5, <1>7, <1>8 DEF Walk
<1>10. QED
  BY <1>9 DEF more, l, line

\* The lines from one to another where a removal leaves out a block: the block's up to its
\* last directive, and the blank ones below.
Goes(lines, a, i, stop, pos) ==
    /\ i \in 1 .. Len(lines) /\ stop \in i .. Len(lines) /\ pos \in stop .. Len(lines)
    /\ lines[i].kind = "host" /\ lines[i].says = {a}
    /\ \A j \in (i + 1) .. stop : ~Edit!Starts(lines[j])
    /\ lines[stop].kind \notin {"blank", "tags"}
    /\ stop # i => lines[stop].kind = "set"
    /\ \A j \in (stop + 1) .. pos : lines[j] = Edit!Blank
    /\ \A j \in (stop + 1) .. Len(lines) : lines[j].kind = "set" =>
          \E k \in (stop + 1) .. j : Edit!Starts(lines[k])

\* A removal leaves out such lines.
LEMMA GoesIs ==
    ASSUME NEW lines \in Seq(HostsLines), NEW a, NEW i \in 1 .. Len(lines),
           lines[i].kind = "host", lines[i].says = {a}
    PROVE  LET stop == Edit!BlockStop(lines, i)
           IN  Goes(lines, a, i, stop, GoesOnAt(lines, stop) - 1)
<1> DEFINE stop == Edit!BlockStop(lines, i)
           n == Len(lines)
<1>1. /\ stop \in i .. Len(lines)
      /\ \A j \in (i + 1) .. stop : ~Edit!Starts(lines[j])
      /\ lines[stop].kind \notin {"blank", "tags"}
      /\ stop # i => lines[stop].kind = "set"
      /\ \A j \in (stop + 1) .. Len(lines) : lines[j].kind = "set" =>
            \E k \in (stop + 1) .. j : Edit!Starts(lines[k])
  BY BlockStopIs
<1>2. n \in Nat /\ i \in 1 .. n
  OBVIOUS
<1> HIDE DEF stop
<1>3. stop \in 1 .. Len(lines)
  BY <1>1, <1>2 DEF n
<1> DEFINE at == GoesOnAt(lines, stop)
<1>4. /\ at \in (stop + 1) .. (Len(lines) + 1)
      /\ \A j \in (stop + 1) .. (at - 1) : lines[j] = Edit!Blank
  BY <1>3, GoesOnAtIs
<1> HIDE DEF at, n
<1>5. at - 1 \in stop .. Len(lines)
  BY <1>2, <1>3, <1>4 DEF n
<1>6. Goes(lines, a, i, stop, at - 1)
  BY <1>1, <1>4, <1>5 DEF Goes
<1>7. QED
  BY <1>6 DEF at, stop

\* They are all of that block.
LEMMA GoneOwner ==
    ASSUME NEW lines \in Seq(HostsLines), NEW a, NEW i, NEW stop, NEW pos,
           Goes(lines, a, i, stop, pos)
    PROVE  /\ \A j \in i .. pos : Edit!Owner(lines, j) = i
           /\ \A j \in (i + 1) .. pos : ~Edit!Starts(lines[j])
           /\ \A j \in i .. pos :
                 lines[j].kind \in {"blank", "tags"} \/ Edit!InOwnBlock(lines, j, a)
           /\ InOwn(lines, a, pos) /\ Past(lines, a, pos)
<1> DEFINE n == Len(lines)
<1>1. n \in Nat /\ i \in 1 .. n /\ stop \in i .. n /\ pos \in stop .. n
  BY DEF Goes
<1>2. \A j \in (i + 1) .. pos : ~Edit!Starts(lines[j])
  <2> SUFFICES ASSUME NEW j \in (i + 1) .. pos PROVE ~Edit!Starts(lines[j])
    OBVIOUS
  <2>1. CASE j \in (i + 1) .. stop
    BY <2>1 DEF Goes
  <2>2. CASE j \in (stop + 1) .. pos
    BY <2>2, BlankIs DEF Goes, Edit!Starts
  <2>3. QED
    BY <1>1, <2>1, <2>2
<1>3. Edit!Starts(lines[i])
  BY DEF Goes, Edit!Starts
<1> DEFINE T == {k \in Nat : i + k <= pos => Edit!Owner(lines, i + k) = i}
<1>4. 0 \in T
  <2>1. Edit!Owner(lines, i) = i
    BY <1>1, <1>3, OwnerStep
  <2>2. i + 0 = i
    BY <1>1
  <2>3. QED
    BY <2>1, <2>2
<1>5. ASSUME NEW k \in Nat, k \in T PROVE k + 1 \in T
  <2> SUFFICES ASSUME i + (k + 1) <= pos PROVE Edit!Owner(lines, i + (k + 1)) = i
    OBVIOUS
  <2> DEFINE j == i + (k + 1)
  <2>1. j \in 1 .. n /\ j \in (i + 1) .. pos /\ j - 1 = i + k /\ i + k <= pos
    BY <1>1
  <2> HIDE DEF j
  <2>2. Edit!Owner(lines, j) = Edit!Owner(lines, j - 1)
    BY <1>2, <2>1, OwnerStep
  <2>3. QED
    BY <1>5, <2>1, <2>2 DEF j
<1> HIDE DEF T
<1>6. Nat \subseteq T
  BY <1>4, <1>5, AllNumbers
<1>7. ASSUME NEW j \in i .. pos PROVE Edit!Owner(lines, j) = i
  <2>1. j - i \in Nat /\ i + (j - i) = j /\ j <= pos
    BY <1>1
  <2>2. j - i \in T
    BY <1>6, <2>1
  <2>3. QED
    BY <2>1, <2>2 DEF T
<1>8. ASSUME NEW j \in i .. pos
      PROVE  lines[j].kind \in {"blank", "tags"} \/ Edit!InOwnBlock(lines, j, a)
  <2>1. CASE j \in (stop + 1) .. pos
    BY <2>1, BlankIs DEF Goes
  <2>2. CASE j \in i .. stop
    <3>1. Edit!Owner(lines, j) = i /\ i # 0 /\ lines[i].kind = "host" /\ lines[i].says = {a}
      BY <1>1, <1>7 DEF Goes
    <3>2. j = i \/ \E k \in j .. Len(lines) : lines[k].kind = "set" /\ Edit!Owner(lines, k) = i
      <4> SUFFICES ASSUME j # i
                   PROVE  \E k \in j .. Len(lines) : lines[k].kind = "set" /\ Edit!Owner(lines, k) = i
        OBVIOUS
      <4>1. stop \in j .. Len(lines) /\ stop \in i .. pos /\ stop # i
        BY <1>1, <2>2
      <4>2. lines[stop].kind = "set" /\ Edit!Owner(lines, stop) = i
        BY <1>7, <4>1 DEF Goes
      <4>3. QED
        BY <4>1, <4>2
    <3>3. QED
      BY <3>1, <3>2 DEF Edit!InOwnBlock
  <2>3. QED
    BY <1>1, <2>1, <2>2
<1>9. Edit!Owner(lines, pos) = i
  BY <1>1, <1>7
<1>10. InOwn(lines, a, pos)
  BY <1>1, <1>9 DEF InOwn, Goes
<1>11. Past(lines, a, pos)
  <2> SUFFICES ASSUME NEW j \in (pos + 1) .. Len(lines), lines[j].kind = "set"
               PROVE  Edit!Owner(lines, j) # i
    BY <1>9 DEF Past
  <2>1. j \in (stop + 1) .. Len(lines) /\ j \in 0 .. Len(lines)
    BY <1>1
  <2>2. PICK k \in (stop + 1) .. j : Edit!Starts(lines[k])
    BY <2>1 DEF Goes
  <2>3. k \in 1 .. j /\ k > i
    BY <1>1
  <2>4. k <= Edit!Owner(lines, j) /\ Edit!Owner(lines, j) \in 0 .. j
    BY <2>1, <2>2, <2>3, OwnerIs
  <2>5. QED
    BY <1>1, <2>1, <2>3, <2>4
<1>12. QED
  BY <1>2, <1>7, <1>8, <1>10, <1>11

\* They mean nothing to the others.
LEMMA GoneReads ==
    ASSUME NEW lines \in Seq(HostsLines), NEW a, NEW i, NEW stop, NEW pos,
           Goes(lines, a, i, stop, pos), NEW b, b # a, AnyHost # a
    PROVE  LET r == ReadTo(lines, i - 1, b)
               s == ReadTo(lines, pos, b)
           IN  /\ s.file = r.file /\ s.own = r.own /\ s.tags = r.tags
               /\ Tidy(lines, b) => s.pending = {}
<1> DEFINE n == Len(lines)
           R(j) == ReadTo(lines, j, b)
           Other(j) == /\ R(j).file = R(i - 1).file /\ R(j).own = R(i - 1).own
                       /\ R(j).tags = R(i - 1).tags /\ R(j).scope = "other"
           T == {k \in Nat : i + k <= pos => Other(i + k)}
<1>1. n \in Nat /\ i \in 1 .. n /\ stop \in i .. n /\ pos \in stop .. n
  BY DEF Goes
<1>2. \A j \in (i + 1) .. pos : ~Edit!Starts(lines[j])
  BY GoneOwner
<1>3. \A j \in 1 .. n : /\ lines[j] \in HostsLines /\ R(j - 1) \in Readings
                        /\ R(j) = Edit!ReadLine(R(j - 1), lines[j], b)
  <2> SUFFICES ASSUME NEW j \in 1 .. n
               PROVE  /\ lines[j] \in HostsLines /\ R(j - 1) \in Readings
                      /\ R(j) = Edit!ReadLine(R(j - 1), lines[j], b)
    OBVIOUS
  <2>1. j \in 1 .. Len(lines) /\ j - 1 \in 0 .. Len(lines) /\ lines[j] \in HostsLines
    BY <1>1
  <2>2. QED
    BY <2>1, ReadToIs
<1> HIDE DEF R, n
<1>4. Other(i)
  <2> DEFINE r == R(i - 1)
             s == R(i)
             line == lines[i]
  <2>1. line \in HostsLines /\ r \in Readings /\ s = Edit!ReadLine(r, line, b)
    BY <1>1, <1>3
  <2>2. Edit!Starts(line) /\ ~Edit!Covers(line, b)
    BY DEF Goes, Edit!Starts, Edit!Covers
  <2> HIDE DEF r, s, line
  <2>3. s.file = r.file /\ s.own = r.own /\ s.scope = "other" /\ s.tags = r.tags
    BY <2>1, <2>2, ReadLineIs
  <2>4. QED
    BY <2>3 DEF r, s
<1>5. 0 \in T
  <2>1. i + 0 = i
    BY <1>1
  <2>2. QED
    BY <1>4, <2>1
<1>6. ASSUME NEW k \in Nat, k \in T PROVE k + 1 \in T
  <2> SUFFICES ASSUME i + (k + 1) <= pos PROVE Other(i + (k + 1))
    OBVIOUS
  <2> DEFINE j == i + (k + 1)
             r == R(j - 1)
             s == R(j)
             line == lines[j]
  <2>1. j \in 1 .. n /\ j \in (i + 1) .. pos /\ j - 1 = i + k /\ i + k <= pos
    BY <1>1
  <2> HIDE DEF j
  <2>2. Other(j - 1)
    BY <1>6, <2>1
  <2>3. line \in HostsLines /\ r \in Readings /\ s = Edit!ReadLine(r, line, b) /\ ~Edit!Starts(line)
    BY <1>2, <1>3, <2>1
  <2>4. r.scope = "other"
    BY <2>2
  <2> HIDE DEF r, s, line
  <2>5. s.file = r.file /\ s.own = r.own /\ s.scope = r.scope /\ s.tags = r.tags
    <3>1. s.scope = r.scope /\ s.tags = r.tags
      BY <2>3, ReadLineIs
    <3>2. line.kind \in {"blank", "comment", "tags", "set"}
      BY <2>3, HostsLineIs DEF Edit!Starts
    <3>3. s.file = r.file /\ s.own = r.own
      BY <2>3, <2>4, <3>2, ReadLineIs
    <3>4. QED
      BY <3>1, <3>3
  <2>6. Other(j)
    BY <2>2, <2>5 DEF r, s
  <2>7. QED
    BY <2>6 DEF j
<1> HIDE DEF T
<1>7. Nat \subseteq T
  BY <1>5, <1>6, AllNumbers
<1>8. Other(pos)
  <2>1. pos - i \in Nat /\ i + (pos - i) = pos /\ pos <= pos
    BY <1>1
  <2>2. pos - i \in T
    BY <1>7, <2>1
  <2> HIDE DEF Other
  <2>3. QED
    BY <2>1, <2>2 DEF T
<1>9. ASSUME Tidy(lines, b) PROVE R(pos).pending = {}
  <2> DEFINE S == {k \in Nat : stop + k <= pos => R(stop + k).pending = {}}
  <2>1. 0 \in S
    <3>1. stop + 0 = stop /\ stop \in 1 .. Len(lines)
      BY <1>1 DEF n
    <3>2. R(stop).pending = {}
      BY <1>9, <3>1 DEF Goes, Tidy, R
    <3>3. QED
      BY <3>1, <3>2
  <2>2. ASSUME NEW k \in Nat, k \in S PROVE k + 1 \in S
    <3> SUFFICES ASSUME stop + (k + 1) <= pos PROVE R(stop + (k + 1)).pending = {}
      OBVIOUS
    <3> DEFINE j == stop + (k + 1)
    <3>1. j \in 1 .. n /\ j \in (stop + 1) .. pos /\ j - 1 = stop + k /\ stop + k <= pos
      BY <1>1
    <3> HIDE DEF j
    <3>2. lines[j].kind = "blank"
      BY <3>1, BlankIs DEF Goes
    <3>3. R(j) = R(j - 1)
      BY <1>3, <3>1, <3>2, ReadLineIs
    <3>4. QED
      BY <2>2, <3>1, <3>3 DEF j
  <2> HIDE DEF S
  <2>3. Nat \subseteq S
    BY <2>1, <2>2, AllNumbers
  <2>4. pos - stop \in Nat /\ stop + (pos - stop) = pos /\ pos <= pos
    BY <1>1
  <2>5. pos - stop \in S
    BY <2>3, <2>4
  <2>6. QED
    BY <2>4, <2>5 DEF S
<1>10. QED
  BY <1>8, <1>9 DEF R

\* They are not to be left.
LEMMA GoneByHand ==
    ASSUME NEW lines \in Seq(HostsLines), NEW a, NEW i, NEW stop, NEW pos,
           Goes(lines, a, i, stop, pos)
    PROVE  HandAt(lines, a, pos) = HandAt(lines, a, i - 1)
<1> DEFINE n == Len(lines)
           T == {k \in Nat : (i - 1) + k <= pos => HandAt(lines, a, (i - 1) + k) = HandAt(lines, a, i - 1)}
<1>1. n \in Nat /\ i \in 1 .. n /\ stop \in i .. n /\ pos \in stop .. n
  BY DEF Goes
<1>2. 0 \in T
  <2>1. (i - 1) + 0 = i - 1
    BY <1>1
  <2>2. QED
    BY <2>1
<1>3. ASSUME NEW k \in Nat, k \in T PROVE k + 1 \in T
  <2> SUFFICES ASSUME (i - 1) + (k + 1) <= pos
               PROVE  HandAt(lines, a, (i - 1) + (k + 1)) = HandAt(lines, a, i - 1)
    OBVIOUS
  <2> DEFINE j == (i - 1) + (k + 1)
  <2>1. j \in 1 .. n /\ j \in i .. pos /\ j - 1 = (i - 1) + k /\ (i - 1) + k <= pos
    BY <1>1
  <2> HIDE DEF j
  <2>2. lines[j].kind \in {"blank", "tags"} \/ Edit!InOwnBlock(lines, j, a)
    BY <2>1, GoneOwner
  <2>3. HandAt(lines, a, j) = HandLine(lines, a, HandAt(lines, a, j - 1), j)
    BY <2>1, HandAtIs
  <2>4. HandAt(lines, a, j) = HandAt(lines, a, j - 1)
    BY <2>2, <2>3 DEF HandLine
  <2>5. QED
    BY <1>3, <2>1, <2>4 DEF j
<1> HIDE DEF T
<1>4. Nat \subseteq T
  BY <1>2, <1>3, AllNumbers
<1>5. pos - (i - 1) \in Nat /\ (i - 1) + (pos - (i - 1)) = pos /\ pos <= pos
  BY <1>1
<1>6. pos - (i - 1) \in T
  BY <1>4, <1>5
<1>7. QED
  BY <1>5, <1>6 DEF T

\* With a block of a's alone, what is kept goes on meaning what it should.
LEMMA DropBlock ==
    ASSUME NEW lines \in Seq(HostsLines), NEW a, AnyHost # a, NEW i, NEW stop, NEW pos,
           Goes(lines, a, i, stop, pos),
           NEW kept, Walk(lines, a, kept, i - 1),
           NEW d, d \in {Edit!DropPreamble(kept), Append(Edit!DropPreamble(kept), Edit!Blank)}
    PROVE  Walk(lines, a, d, pos)
<1> DEFINE c == Edit!DropPreamble(kept)
<1>1. /\ kept \in Seq(HostsLines) /\ ~Edit!Named(kept, a)
      /\ Edit!HandWritten(kept) = HandAt(lines, a, i - 1)
      /\ \A b \in Aliases \ {a} : WalkFor(lines, a, kept, i - 1, b)
  BY DEF Walk
<1> HIDE DEF c
<1>2. \A b : /\ c \in Seq(HostsLines)
             /\ Edit!ReadFor(c, b).file = Edit!ReadFor(kept, b).file
             /\ Edit!ReadFor(c, b).own = Edit!ReadFor(kept, b).own
             /\ Edit!ReadFor(c, b).tags = Edit!ReadFor(kept, b).tags
             /\ Edit!HandWritten(c) = Edit!HandWritten(kept)
             /\ Edit!Named(c, b) => Edit!Named(kept, b)
             /\ Tidy(kept, b) => Tidy(c, b) /\ Edit!ReadFor(c, b).pending = {}
  <2>1. kept \in Seq(HostsLines) /\ c = Edit!DropPreamble(kept)
    BY <1>1 DEF c
  <2> SUFFICES ASSUME NEW b
               PROVE  /\ c \in Seq(HostsLines)
                      /\ Edit!ReadFor(c, b).file = Edit!ReadFor(kept, b).file
                      /\ Edit!ReadFor(c, b).own = Edit!ReadFor(kept, b).own
                      /\ Edit!ReadFor(c, b).tags = Edit!ReadFor(kept, b).tags
                      /\ Edit!HandWritten(c) = Edit!HandWritten(kept)
                      /\ Edit!Named(c, b) => Edit!Named(kept, b)
                      /\ Tidy(kept, b) => Tidy(c, b) /\ Edit!ReadFor(c, b).pending = {}
    OBVIOUS
  <2>2. QED
    BY <2>1, DropReads
<1>3. c \in Seq(HostsLines)
  BY <1>2
<1>4. \A b : /\ d \in Seq(HostsLines)
             /\ Edit!ReadFor(d, b) = Edit!ReadFor(c, b)
             /\ Edit!HandWritten(d) = Edit!HandWritten(c)
             /\ Edit!Named(d, b) => Edit!Named(c, b)
             /\ Tidy(c, b) => Tidy(d, b)
  <2>1. CASE d = c
    BY <1>3, <2>1
  <2>2. CASE d = Append(c, Edit!Blank)
    BY <1>3, <2>2, BlankMore
  <2>3. QED
    BY <2>1, <2>2 DEF c
<1>5. InOwn(lines, a, pos) /\ Past(lines, a, pos)
  BY GoneOwner
<1>6. HandAt(lines, a, pos) = HandAt(lines, a, i - 1)
  BY GoneByHand
<1>7. ASSUME NEW b \in Aliases \ {a} PROVE WalkFor(lines, a, d, pos, b)
  <2> DEFINE r == ReadTo(lines, i - 1, b)
             s == ReadTo(lines, pos, b)
             k == Edit!ReadFor(kept, b)
             f == Edit!ReadFor(d, b)
  <2>1. s.file = r.file /\ s.own = r.own /\ s.tags = r.tags /\ (Tidy(lines, b) => s.pending = {})
    BY GoneReads
  <2>2. /\ k.file = r.file /\ k.own = r.own
        /\ Tidy(lines, b) => Tidy(kept, b) /\ k.tags = r.tags
    BY <1>1 DEF WalkFor, Alike
  <2>3. /\ f.file = k.file /\ f.own = k.own /\ f.tags = k.tags
        /\ Tidy(kept, b) => Tidy(d, b) /\ f.pending = {}
    BY <1>2, <1>4
  <2> HIDE DEF r, s, k, f
  <2>4. /\ f.file = s.file /\ f.own = s.own
        /\ Tidy(lines, b) => Tidy(d, b) /\ f.tags = s.tags /\ f.pending = s.pending
    BY <2>1, <2>2, <2>3
  <2>5. QED
    BY <1>5, <2>4 DEF WalkFor, Alike, s, f
<1>8. d \in Seq(HostsLines) /\ ~Edit!Named(d, a) /\ Edit!HandWritten(d) = HandAt(lines, a, pos)
  BY <1>1, <1>2, <1>4, <1>6
<1>9. QED
  BY <1>5, <1>7, <1>8 DEF Walk

\* Nothing is kept of no line.
LEMMA WalkBegins ==
    ASSUME NEW lines \in Seq(HostsLines), NEW a
    PROVE  Walk(lines, a, <<>>, 0)
<1> DEFINE none == <<>>
<1>1. none \in Seq(HostsLines) /\ Len(none) = 0 /\ DOMAIN none = {} /\ 1 .. 0 = {}
      /\ 0 \in 0 .. Len(lines)
  OBVIOUS
<1>2. Edit!HandWritten(<<>>) = <<>> /\ HandAt(lines, a, 0) = <<>>
  BY AllOfThem, HandAtIs, HandWrittenMore, HostsLineIs
<1>3. \A b : Edit!ReadFor(<<>>, b) = Edit!Unread /\ ReadTo(lines, 0, b) = Edit!Unread
  BY <1>1, ReadMore, ReadToIs
<1>4. Edit!Owner(lines, 0) = 0
  <2>1. Edit!Owner(lines, 0) \in 0 .. 0
    BY <1>1, OwnerIs
  <2>2. QED
    BY <2>1
<1>5. ~InOwn(lines, a, 0) /\ Past(lines, a, 0)
  BY <1>4 DEF InOwn, Past
<1> HIDE DEF none
<1>6. ~Edit!Named(none, a) /\ \A b : Tidy(none, b)
  BY <1>1 DEF Edit!Named, Tidy
<1>7. \A b : WalkFor(lines, a, none, 0, b)
  BY <1>3, <1>6 DEF WalkFor, Alike, none
<1>8. QED
  BY <1>1, <1>2, <1>5, <1>6, <1>7 DEF Walk, none

\* How far a removal has come after i lines.
Reached(e, i) == IF e.at > i THEN e.at - 1 ELSE i

\* A removal keeps what it should of the lines it has come past.
LEMMA RemovalWalks ==
    ASSUME NEW lines \in Seq(HostsLines), NEW a, AnyHost # a,
           ~Edit!WithoutHost(lines, a).refused
    PROVE  Walk(lines, a, Edit!WithoutHost(lines, a).kept, Len(lines))
<1> DEFINE n == Len(lines)
           E(i) == EditAt(lines, a, i)
           P(i) == E(i).refused \/ /\ E(i).at \in 1 .. (n + 1)
                                   /\ Walk(lines, a, E(i).kept, Reached(E(i), i))
           T == {i \in Nat : i <= n => P(i)}
<1>1. n \in Nat
  OBVIOUS
<1>2. 0 \in T
  <2>1. E(0) = NoEdit
    BY EditAtIs
  <2>2. E(0).at = 1 /\ E(0).kept = <<>>
    BY <2>1 DEF NoEdit
  <2> HIDE DEF E
  <2>3. Reached(E(0), 0) = 0
    BY <2>2 DEF Reached
  <2>4. P(0)
    BY <1>1, <2>2, <2>3, WalkBegins
  <2>5. QED
    BY <2>4
<1>3. ASSUME NEW k \in Nat, k \in T PROVE k + 1 \in T
  <2> SUFFICES ASSUME k + 1 <= n PROVE P(k + 1)
    OBVIOUS
  <2> DEFINE i == k + 1
             e == E(k)
             f == E(i)
             line == lines[i]
  <2>1. i \in 1 .. n /\ i - 1 = k /\ k \in 0 .. n /\ line \in HostsLines
    BY <1>1
  <2>2. e \in Edits /\ f = Edit!WithoutLine(lines, a, e, i)
    BY <2>1, EditAtIs
  <2>3. P(k)
    BY <1>1, <1>3
  <2>4. e.refused \/ (e.at \in 1 .. (n + 1) /\ Walk(lines, a, e.kept, Reached(e, k)))
    BY <2>3
  <2> HIDE DEF E, e, f, n, line
  <2>5. /\ f \in Edits
        /\ e.refused \/ i < e.at => f = e
        /\ ~e.refused /\ ~(i < e.at) =>
             \/ ~Mentions(lines[i], a) /\ Keeps(e, f, lines[i])
             \/ f.refused
             \/ /\ Mentions(lines[i], a) /\ lines[i].says # {a}
                /\ Keeps(e, f, Left(lines[i], a))
             \/ Mentions(lines[i], a) /\ lines[i].says = {a} /\ Drops(lines, e, f, i)
    <3>1. i \in 1 .. Len(lines)
      BY <2>1 DEF n
    <3> HIDE DEF i
    <3>2. MadeOf(lines, a, e, f, i)
      BY <2>2, <3>1, WithoutLineIs
    <3>3. QED
      BY <3>2 DEF MadeOf
  <2> DEFINE Good == f.refused \/ (f.at \in 1 .. (n + 1) /\ Walk(lines, a, f.kept, Reached(f, i)))
  <2>55. f.refused => Good
    OBVIOUS
  <2>56. f.at \in 1 .. (n + 1) /\ Walk(lines, a, f.kept, Reached(f, i)) => Good
    OBVIOUS
  <2> HIDE DEF Good
  <2>6. ASSUME e.refused PROVE Good
    <3>1. f = e
      BY <2>5, <2>6, Zenon
    <3>2. QED
      BY <2>6, <2>55, <3>1, Zenon
  <2>7. ASSUME ~e.refused, i < e.at PROVE Good
    <3>1. f = e /\ e.at \in 1 .. (n + 1) /\ e.at > i /\ e.at > k
      BY <1>1, <2>1, <2>4, <2>5, <2>7
    <3>2. Reached(f, i) = Reached(e, k)
      BY <3>1 DEF Reached
    <3>3. QED
      BY <2>4, <2>7, <2>56, <3>1, <3>2, Zenon
  <2>8. ASSUME ~e.refused, ~(i < e.at) PROVE Good
    <3>1. e.at \in 1 .. (n + 1) /\ Walk(lines, a, e.kept, i - 1)
      <4>1. e.at \in 1 .. (n + 1) /\ Walk(lines, a, e.kept, Reached(e, k))
        BY <2>4, <2>8
      <4>2. Reached(e, k) = i - 1
        BY <2>1, <2>8, <4>1 DEF Reached
      <4>3. QED
        BY <4>1, <4>2
    <3>2. ASSUME Keeps(e, f, Left(line, a)), ~(line.kind = "host" /\ line.says = {a})
          PROVE  Good
      <4>1. f.at = e.at /\ f.kept = Append(e.kept, Left(line, a))
        BY <3>2 DEF Keeps
      <4>2. Walk(lines, a, f.kept, i)
        BY <2>1, <3>1, <3>2, <4>1, KeepLine DEF n, line
      <4>3. Reached(f, i) = i
        BY <2>1, <2>8, <3>1, <4>1 DEF Reached
      <4>4. QED
        BY <2>56, <3>1, <4>1, <4>2, <4>3
    <3>3. CASE ~Mentions(lines[i], a) /\ Keeps(e, f, lines[i])
      <4>1. Left(line, a) = line
        BY <2>1, <3>3, LeftTyped DEF line
      <4>2. ~(line.kind = "host" /\ line.says = {a})
        BY <3>3 DEF Mentions, line
      <4>3. QED
        BY <3>2, <3>3, <4>1, <4>2, Zenon DEF line
    <3>4. CASE /\ Mentions(lines[i], a) /\ lines[i].says # {a}
               /\ Keeps(e, f, Left(lines[i], a))
      BY <3>2, <3>4, Zenon DEF line
    <3>5. CASE Mentions(lines[i], a) /\ lines[i].says = {a} /\ Drops(lines, e, f, i)
      <4> DEFINE stop == Edit!BlockStop(lines, i)
                 pos == GoesOnAt(lines, stop) - 1
      <4>1. i \in 1 .. Len(lines) /\ lines[i].kind = "host" /\ lines[i].says = {a}
        BY <2>1, <3>5 DEF Mentions, n
      <4>2. Goes(lines, a, i, stop, pos)
        BY <4>1, GoesIs
      <4>3. f.at = GoesOnAt(lines, stop)
            /\ f.kept \in {Edit!DropPreamble(e.kept), Append(Edit!DropPreamble(e.kept), Edit!Blank)}
        BY <3>5 DEF Drops
      <4>4. f.at \in Nat
        BY <2>5 DEF Edits
      <4> HIDE DEF stop
      <4>5. pos = f.at - 1
        BY <4>3
      <4> HIDE DEF pos
      <4>6. Walk(lines, a, f.kept, pos)
        BY <3>1, <4>2, <4>3, DropBlock
      <4>7. stop \in i .. n /\ pos \in stop .. n
        BY <4>2 DEF Goes, n
      <4>8. f.at \in 1 .. (n + 1) /\ Reached(f, i) = pos
        BY <1>1, <2>1, <4>4, <4>5, <4>7 DEF Reached
      <4>9. QED
        BY <2>56, <4>6, <4>8, Zenon
    <3>6. QED
      BY <2>5, <2>8, <2>55, <3>3, <3>4, <3>5, Zenon
  <2>9. Good
    BY <2>6, <2>7, <2>8, Zenon
  <2>10. QED
    BY <2>9, Zenon DEF f, Good
<1> HIDE DEF T
<1>4. Nat \subseteq T
  BY <1>2, <1>3, AllNumbers
<1>5. P(n)
  <2>1. n <= n /\ n \in T
    BY <1>1, <1>4
  <2> HIDE DEF P
  <2>2. QED
    BY <2>1 DEF T
<1>6. Edit!WithoutHost(lines, a) = E(n)
  BY WithoutHostIs
<1>7. E(n) \in Edits
  BY <1>1, EditAtIs
<1> HIDE DEF E, n
<1>8. E(n).at \in 1 .. (n + 1) /\ Walk(lines, a, E(n).kept, Reached(E(n), n))
  BY <1>5, <1>6
<1>9. Reached(E(n), n) = n
  BY <1>1, <1>8 DEF Reached
<1>10. QED
  BY <1>6, <1>8, <1>9 DEF n

\* What a removal promises: to the others, and to the user.
LEMMA RemovalTouchesOne ==
    ASSUME NEW lines \in Seq(HostsLines), NEW a, AnyHost # a,
           ~Edit!WithoutHost(lines, a).refused,
           NEW kept, kept = Edit!WithoutHost(lines, a).kept
    PROVE  /\ kept \in Seq(HostsLines)
           /\ \A b \in Aliases \ {a} : Edit!Resolved(kept, b) = Edit!Resolved(lines, b)
           /\ Edit!TagsAbove(lines) =>
                 \A b \in Aliases \ {a} : Edit!Tagged(kept, b) = Edit!Tagged(lines, b)
           /\ ~Edit!Named(kept, a)
           /\ Edit!HandWritten(kept) = Edit!ByHand(lines, a)
<1> DEFINE n == Len(lines)
<1>1. Walk(lines, a, kept, n)
  BY RemovalWalks
<1> HIDE DEF n
<1>2. /\ kept \in Seq(HostsLines) /\ ~Edit!Named(kept, a)
      /\ Edit!HandWritten(kept) = HandAt(lines, a, n)
      /\ \A b \in Aliases \ {a} : WalkFor(lines, a, kept, n, b)
  BY <1>1 DEF Walk
<1>3. HandAt(lines, a, n) = Edit!ByHand(lines, a)
  BY ByHandIs DEF n
<1>4. ASSUME NEW b \in Aliases \ {a}
      PROVE  /\ Edit!Resolved(kept, b) = Edit!Resolved(lines, b)
             /\ Edit!TagsAbove(lines) => Edit!Tagged(kept, b) = Edit!Tagged(lines, b)
  <2>1. ReadTo(lines, n, b) = Edit!ReadFor(lines, b)
    BY ReadToIs DEF n
  <2>2. WalkFor(lines, a, kept, n, b)
    BY <1>2
  <2>3. /\ Edit!ReadFor(kept, b).file = Edit!ReadFor(lines, b).file
        /\ Edit!ReadFor(kept, b).own = Edit!ReadFor(lines, b).own
        /\ Tidy(lines, b) => Edit!ReadFor(kept, b).tags = Edit!ReadFor(lines, b).tags
    BY <2>1, <2>2 DEF WalkFor, Alike
  <2>4. Edit!TagsAbove(lines) => Tidy(lines, b)
    BY TidyIs
  <2>5. QED
    BY <2>3, <2>4 DEF Edit!Resolved, Edit!Tagged
<1>5. QED
  BY <1>2, <1>3, <1>4

-----------------------------------------------------------------------------
(* What an addition makes of a file.                                       *)

\* The block of a host without tags, and that of one with tags, below other lines.
LEMMA BlockBelow ==
    ASSUME NEW s \in Seq(HostsLines), NEW t \in HostsLines, NEW h \in HostsLines, NEW d \in HostsLines
    PROVE  /\ s \o <<>> = s /\ s \o <<t>> = Append(s, t) /\ Append(s, t) \in Seq(HostsLines)
           /\ s \o (<<>> \o <<h, d>>) = Append(Append(s, h), d)
           /\ s \o (<<t>> \o <<h, d>>) = Append(Append(Append(s, t), h), d)
<1>1. s \o <<>> = s /\ s \o <<t>> = Append(s, t) /\ Append(s, t) \in Seq(HostsLines)
  OBVIOUS
<1>2. s \o (<<>> \o <<h, d>>) = Append(Append(s, h), d)
  OBVIOUS
<1>3. s \o (<<t>> \o <<h, d>>) = Append(Append(Append(s, t), h), d)
  OBVIOUS
<1>4. QED
  BY <1>1, <1>2, <1>3

\* What is above the new block, and its lines.
Above(lines) == IF lines = <<>> \/ Edit!Last(lines) = Edit!Blank THEN lines ELSE Append(lines, Edit!Blank)

Labelled(s, tags) == IF tags = {} THEN s ELSE Append(s, Edit!TextLine("tags", tags))

\* An addition puts the Host line and its directive below the rest.
LEMMA AppendedIs ==
    ASSUME NEW lines \in Seq(HostsLines), NEW a \in Aliases,
           NEW tags \in {{}} \union {{t} : t \in Tags}, NEW v \in Values
    PROVE  /\ Edit!TextLine("tags", tags) \in HostsLines
           /\ Edit!HostLine({a}) \in HostsLines /\ Edit!Directive(v) \in HostsLines
           /\ Above(lines) \in Seq(HostsLines) /\ Labelled(Above(lines), tags) \in Seq(HostsLines)
           /\ Edit!Appended(lines, a, tags, v)
                = Append(Append(Labelled(Above(lines), tags), Edit!HostLine({a})), Edit!Directive(v))
<1> DEFINE t == Edit!TextLine("tags", tags)
           h == Edit!HostLine({a})
           d == Edit!Directive(v)
           up == Above(lines)
           pre == IF lines = <<>> \/ Edit!Last(lines) = Edit!Blank THEN <<>> ELSE <<Edit!Blank>>
           top == IF tags = {} THEN <<>> ELSE <<t>>
           all == Append(Append(Labelled(up, tags), h), d)
<1>1. t \in HostsLines /\ h \in HostsLines /\ d \in HostsLines
  BY DEF HostsLines, Edit!TextLine, Edit!HostLine, Edit!Directive
<1>2. Edit!Blank \in HostsLines
  BY BlankIs
<1>3. Edit!Appended(lines, a, tags, v) = (lines \o pre) \o (top \o <<h, d>>)
  BY Zenon DEF Edit!Appended, Edit!BlockOf
<1> HIDE DEF t, h, d
<1>4. lines \o pre = up
  BY <1>2, BlockBelow, Zenon DEF Above
<1>5. up \in Seq(HostsLines)
  BY <1>2, BlockBelow, Zenon DEF Above
<1> HIDE DEF up, pre
<1>6. Labelled(up, tags) \in Seq(HostsLines)
  BY <1>1, <1>5, BlockBelow, Zenon DEF Labelled, t
<1>7. up \o (top \o <<h, d>>) = all
  <2>1. CASE tags = {}
    <3>1. Labelled(up, tags) = up /\ top = <<>>
      BY <2>1, Zenon DEF Labelled
    <3>2. up \o (<<>> \o <<h, d>>) = Append(Append(up, h), d)
      BY <1>1, <1>5, BlockBelow
    <3> HIDE DEF top
    <3>3. QED
      BY <3>1, <3>2, Zenon
  <2>2. CASE tags # {}
    <3>1. Labelled(up, tags) = Append(up, t) /\ top = <<t>>
      BY <2>2, Zenon DEF Labelled, t
    <3>2. up \o (<<t>> \o <<h, d>>) = Append(Append(Append(up, t), h), d)
      BY <1>1, <1>5, BlockBelow
    <3> HIDE DEF top
    <3>3. QED
      BY <3>1, <3>2, Zenon
  <2>3. QED
    BY <2>1, <2>2, Zenon
<1> HIDE DEF top, all
<1>8. Edit!Appended(lines, a, tags, v) = all
  BY <1>3, <1>4, <1>7, Zenon
<1>9. QED
  BY <1>1, <1>5, <1>6, <1>8, Zenon DEF up, t, h, d, all

\* What an addition promises to the others.
SaysTheSame(a, old, new) ==
    /\ new \in Seq(HostsLines)
    /\ \A b \in Aliases \ {a} : /\ Edit!Resolved(new, b) = Edit!Resolved(old, b)
                                /\ Edit!Tagged(new, b) = Edit!Tagged(old, b)

\* An addition keeps its promise.
LEMMA AdditionTouchesOne ==
    ASSUME NEW lines \in Seq(HostsLines), NEW a \in Aliases, AnyHost # a,
           NEW tags \in {{}} \union {{t} : t \in Tags}, NEW v \in Values,
           NEW more, more = Edit!Appended(lines, a, tags, v)
    PROVE  SaysTheSame(a, lines, more)
<1> DEFINE up == Above(lines)
           label == Edit!TextLine("tags", tags)
           s == Labelled(up, tags)
           h == Edit!HostLine({a})
           d == Edit!Directive(v)
           named == Append(s, h)
<1>1. /\ label \in HostsLines /\ h \in HostsLines /\ d \in HostsLines
      /\ up \in Seq(HostsLines) /\ s \in Seq(HostsLines) /\ more = Append(named, d)
  BY AppendedIs
<1>2. named \in Seq(HostsLines) /\ Append(named, d) \in Seq(HostsLines)
  <2> HIDE DEF s, h, d
  <2>1. QED
    BY <1>1
<1>3. /\ label.kind = "tags" /\ h.kind = "host" /\ h.says = {a} /\ d.kind = "set"
  BY DEF Edit!TextLine, Edit!HostLine, Edit!Directive
<1>4. ASSUME NEW b \in Aliases \ {a}
      PROVE  /\ Edit!ReadFor(more, b).file = Edit!ReadFor(lines, b).file
             /\ Edit!ReadFor(more, b).own = Edit!ReadFor(lines, b).own
             /\ Edit!ReadFor(more, b).tags = Edit!ReadFor(lines, b).tags
  <2> DEFINE r0 == Edit!ReadFor(lines, b)
             r1 == Edit!ReadFor(up, b)
             r2 == Edit!ReadFor(s, b)
             r3 == Edit!ReadFor(named, b)
             r4 == Edit!ReadFor(more, b)
  <2>1. r1 = r0
    BY BlankMore, Zenon DEF Above
  <2>2. r2.file = r1.file /\ r2.own = r1.own /\ r2.tags = r1.tags
    <3>1. CASE tags = {}
      BY <3>1, Zenon DEF Labelled
    <3>2. CASE tags # {}
      <4>1. s = Append(up, label)
        BY <3>2, Zenon DEF Labelled
      <4> HIDE DEF s, up, label
      <4>2. r1 \in Readings /\ r2 = Edit!ReadLine(r1, label, b)
        BY <1>1, <4>1, ReadMore
      <4> HIDE DEF r1, r2
      <4>3. label.kind = "tags" /\ ~Edit!Starts(label)
        BY <1>3 DEF Edit!Starts, label
      <4>4. QED
        BY <1>1, <4>2, <4>3, ReadLineIs
    <3>3. QED
      BY <3>1, <3>2
  <2> HIDE DEF s, h, d
  <2>3. r2 \in Readings /\ r3 = Edit!ReadLine(r2, h, b)
    BY <1>1, ReadMore
  <2>4. Edit!Starts(h) /\ ~Edit!Covers(h, b)
    BY <1>3 DEF Edit!Starts, Edit!Covers, h
  <2> HIDE DEF named
  <2>5. r3 \in Readings /\ r4 = Edit!ReadLine(r3, d, b)
    BY <1>1, <1>2, ReadMore
  <2>6. d.kind = "set" /\ ~Edit!Starts(d)
    BY <1>3 DEF Edit!Starts, d
  <2> HIDE DEF r0, r1, r2, r3, r4
  <2>7. r3.file = r2.file /\ r3.own = r2.own /\ r3.tags = r2.tags /\ r3.scope = "other"
    BY <1>1, <2>3, <2>4, ReadLineIs
  <2>8. r4.file = r3.file /\ r4.own = r3.own /\ r4.tags = r3.tags
    BY <1>1, <2>5, <2>6, <2>7, ReadLineIs
  <2>9. r4.file = r0.file /\ r4.own = r0.own /\ r4.tags = r0.tags
    BY <2>1, <2>2, <2>7, <2>8
  <2>10. QED
    BY <2>9 DEF r0, r4
<1>5. more \in Seq(HostsLines)
  BY <1>1, <1>2
<1>6. QED
  BY <1>4, <1>5, Zenon DEF Edit!Resolved, Edit!Tagged, SaysTheSame

-----------------------------------------------------------------------------
(* Every edit is about one host.                                           *)

\* The file holds lines, and the last edit was of a host or there was none.
EditInv == body \in Seq(HostsLines) /\ lastEdit.alias \in Aliases \union {"none"}

\* What an edit keeps of a file.
Touches(a, old, new) ==
    /\ \A b \in Aliases \ {a} : Edit!Resolved(new, b) = Edit!Resolved(old, b)
    /\ Edit!TagsAbove(old) => \A b \in Aliases \ {a} : Edit!Tagged(new, b) = Edit!Tagged(old, b)

\* What an edit does, whichever it is.
Edited ==
    /\ EditInv'
    /\ Touches(lastEdit'.alias, body, body')
    /\ lastEdit'.kind = "remove" =>
          /\ ~Edit!Named(body', lastEdit'.alias)
          /\ Edit!HandWritten(body') = Edit!ByHand(body, lastEdit'.alias)

\* An addition does that.
LEMMA AddStep ==
    ASSUME EditInv, NEW a \in Aliases, Edit!AddHost(a)
    PROVE  Edited
<1>1. PICK tags \in {{}} \union {{t} : t \in Tags}, v \in Values :
         body' = Edit!Appended(body, a, tags, v)
  BY DEF Edit!AddHost
<1>2. lastEdit' = [kind |-> "add", alias |-> a]
  BY DEF Edit!AddHost
<1> DEFINE more == Edit!Appended(body, a, tags, v)
<1>3. body \in Seq(HostsLines) /\ AnyHost # a
  BY EditAssumption DEF EditInv
<1>4. SaysTheSame(a, body, more)
  BY <1>3, AdditionTouchesOne
<1> HIDE DEF more
<1>5. Touches(a, body, more)
  BY <1>4 DEF Touches, SaysTheSame
<1>6. lastEdit'.alias = a /\ lastEdit'.kind = "add" /\ body' = more
  BY <1>1, <1>2 DEF more
<1>7. EditInv'
  BY <1>4, <1>6 DEF EditInv, SaysTheSame
<1>8. QED
  BY <1>5, <1>6, <1>7 DEF Edited

\* A removal does that.
LEMMA RemoveStep ==
    ASSUME EditInv, NEW a \in Aliases, Edit!RemoveHost(a)
    PROVE  Edited
<1> DEFINE kept == Edit!WithoutHost(body, a).kept
<1>1. /\ ~Edit!WithoutHost(body, a).refused /\ body' = kept
      /\ lastEdit' = [kind |-> "remove", alias |-> a]
  BY DEF Edit!RemoveHost
<1>2. body \in Seq(HostsLines) /\ AnyHost # a
  BY EditAssumption DEF EditInv
<1>3. /\ kept \in Seq(HostsLines)
      /\ \A b \in Aliases \ {a} : Edit!Resolved(kept, b) = Edit!Resolved(body, b)
      /\ Edit!TagsAbove(body) =>
            \A b \in Aliases \ {a} : Edit!Tagged(kept, b) = Edit!Tagged(body, b)
      /\ ~Edit!Named(kept, a)
      /\ Edit!HandWritten(kept) = Edit!ByHand(body, a)
  BY <1>1, <1>2, RemovalTouchesOne
<1> HIDE DEF kept
<1>4. Touches(a, body, kept)
  BY <1>3 DEF Touches
<1>5. lastEdit'.alias = a /\ body' = kept
  BY <1>1
<1>6. EditInv'
  BY <1>3, <1>5 DEF EditInv
<1>7. QED
  BY <1>3, <1>4, <1>5, <1>6 DEF Edited

\* Whatever step is taken, the file stays one, and it is an edit of one host or none.
LEMMA EditOrRest ==
    ASSUME EditInv, [Next]_vars
    PROVE  EditInv' /\ (Edited \/ UNCHANGED Edit!vars)
<1>1. CASE UNCHANGED vars
  BY <1>1 DEF vars, editVars, Edit!vars, EditInv
<1>2. CASE Next
  <2>1. CASE part = "edit" /\ Edit!Next
    <3>1. PICK a \in Aliases : Edit!AddHost(a) \/ Edit!RemoveHost(a)
      BY <2>1 DEF Edit!Next
    <3>2. Edited
      BY <3>1, AddStep, RemoveStep
    <3>3. QED
      BY <3>2 DEF Edited
  <2>2. CASE UNCHANGED editVars
    BY <2>2 DEF editVars, Edit!vars, EditInv
  <2>3. QED
    BY <1>2, <2>1, <2>2 DEF Next
<1>3. QED
  BY <1>1, <1>2

\* The file is one from the start.
LEMMA EditBegins == Init => EditInv
<1> SUFFICES ASSUME Init PROVE EditInv
  OBVIOUS
<1>1. CASE part = "edit"
  <2>1. body \in Bodies /\ lastEdit = [kind |-> "none", alias |-> "none"]
    BY <1>1 DEF Init, Edit!Init
  <2>2. QED
    BY <2>1, EditAssumption DEF EditInv
<1>2. CASE part # "edit"
  <2>1. body = <<>> /\ lastEdit = [kind |-> "none", alias |-> "none"]
    BY <1>2 DEF Init
  <2>2. QED
    BY <2>1 DEF EditInv
<1>3. QED
  BY <1>1, <1>2

\* The file and the edit are well typed.
LEMMA EditTypes ==
    ASSUME EditInv PROVE Edit!HostsEditTypeOK
<1>1. ASSUME NEW i \in DOMAIN body
      PROVE  /\ body[i].kind \in {"blank", "comment", "tags", "host", "match", "set"}
             /\ body[i].kind = "host" => body[i].says # {}
  <2>1. body[i] \in HostsLines
    BY DEF EditInv
  <2>2. QED
    BY <2>1, HostsLineIs
<1>2. QED
  BY <1>1 DEF EditInv, Edit!HostsEditTypeOK

\* An edit changes what the file says of the host it names and of no other, takes every
\* mention of the one it removes, and leaves what the user wrote by hand, blank lines and
\* tag comments aside.
THEOREM ConfigEditsTouchOneHost == Spec => EditsTouchOneHost
<1>1. Init => EditInv
  BY EditBegins
<1>2. EditInv /\ [Next]_vars => EditInv'
  BY EditOrRest
<1>3. EditInv /\ [Next]_vars =>
         [\A a \in Aliases \ {lastEdit'.alias} :
             Edit!Resolved(body', a) = Edit!Resolved(body, a)]_(Edit!vars)
  BY EditOrRest DEF Edited, Touches
<1>4. EditInv /\ [Next]_vars =>
         [Edit!TagsAbove(body) =>
             \A a \in Aliases \ {lastEdit'.alias} :
                Edit!Tagged(body', a) = Edit!Tagged(body, a)]_(Edit!vars)
  BY EditOrRest DEF Edited, Touches
<1>5. EditInv /\ [Next]_vars =>
         [lastEdit'.kind = "remove" => ~Edit!Named(body', lastEdit'.alias)]_(Edit!vars)
  BY EditOrRest DEF Edited
<1>6. EditInv /\ [Next]_vars =>
         [lastEdit'.kind = "remove" =>
             Edit!HandWritten(body') = Edit!ByHand(body, lastEdit'.alias)]_(Edit!vars)
  BY EditOrRest DEF Edited
<1>7. QED
  BY <1>1, <1>2, <1>3, <1>4, <1>5, <1>6, PTL
     DEF Spec, EditsTouchOneHost, Edit!EditsTouchOneHost, Edit!OthersResolveTheSame,
         Edit!TagsStayPut, Edit!NoMentionIsLeft, Edit!HandWrittenStays

-----------------------------------------------------------------------------
(* What was just added can be removed again.                               *)

\* A removal keeps the lines that do not name the host, as long as they go on.
LEMMA KeepsUnnamed ==
    ASSUME NEW lines \in Seq(HostsLines), NEW a, NEW p \in 0 .. Len(lines),
           \A j \in 1 .. p : ~Mentions(lines[j], a)
    PROVE  LET e == EditAt(lines, a, p)
           IN  e.kept = SubSeq(lines, 1, p) /\ e.at = 1 /\ ~e.refused
<1> DEFINE n == Len(lines)
           E(i) == EditAt(lines, a, i)
           P(i) == E(i).kept = SubSeq(lines, 1, i) /\ E(i).at = 1 /\ ~E(i).refused
           T == {i \in Nat : i <= p => P(i)}
<1>1. n \in Nat /\ p \in 0 .. n
  OBVIOUS
<1>2. 0 \in T
  <2>1. E(0) = NoEdit /\ SubSeq(lines, 1, 0) = <<>>
    BY AllOfThem, EditAtIs
  <2>2. NoEdit.kept = <<>> /\ NoEdit.at = 1 /\ ~NoEdit.refused
    BY DEF NoEdit
  <2> HIDE DEF E
  <2>3. P(0)
    BY <2>1, <2>2, Zenon
  <2>4. QED
    BY <2>3
<1>3. ASSUME NEW k \in Nat, k \in T PROVE k + 1 \in T
  <2> SUFFICES ASSUME k + 1 <= p PROVE P(k + 1)
    OBVIOUS
  <2> DEFINE i == k + 1
             e == E(k)
             f == E(i)
  <2>1. i \in 1 .. n /\ i \in 1 .. p /\ i - 1 = k /\ k \in 0 .. n /\ ~(i < 1)
    BY <1>1
  <2>2. e \in Edits /\ f = Edit!WithoutLine(lines, a, e, i)
    BY <2>1, EditAtIs
  <2>3. e.kept = SubSeq(lines, 1, i - 1) /\ e.at = 1 /\ ~e.refused
    <3>1. P(k)
      BY <1>1, <1>3
    <3>2. QED
      BY <2>1, <3>1
  <2>4. SubSeq(lines, 1, i) = Append(SubSeq(lines, 1, i - 1), lines[i])
    BY <2>1, OneMore
  <2>5. ~Mentions(lines[i], a)
    BY <2>1
  <2> HIDE DEF E, e, f, i, n
  <2>6. MadeOf(lines, a, e, f, i)
    BY <2>1, <2>2, WithoutLineIs DEF n
  <2>7. Keeps(e, f, lines[i])
    BY <2>1, <2>3, <2>5, <2>6, Zenon DEF MadeOf
  <2>8. f.kept = SubSeq(lines, 1, i) /\ f.at = 1 /\ ~f.refused
    BY <2>3, <2>4, <2>7 DEF Keeps
  <2>9. QED
    BY <2>8 DEF f, i
<1> HIDE DEF T
<1>4. Nat \subseteq T
  BY <1>2, <1>3, AllNumbers
<1>5. p \in T /\ p <= p
  BY <1>1, <1>4
<1> HIDE DEF P
<1>6. P(p)
  BY <1>5 DEF T
<1>7. QED
  BY <1>6 DEF P, E

\* The last line of a file is not a tag, where tags stand above their hosts.
LEMMA LastIsNoTag ==
    ASSUME NEW lines \in Seq(HostsLines), lines # <<>>, Edit!TagsAbove(lines)
    PROVE  lines[Len(lines)].kind # "tags"
<1> DEFINE n == Len(lines)
<1> SUFFICES ASSUME lines[n].kind = "tags" PROVE FALSE
  OBVIOUS
<1>1. n \in DOMAIN lines /\ (n + 1) .. n = {}
  OBVIOUS
<1> DEFINE I == {k \in (n + 1) .. n : lines[k].kind \notin {"blank", "tags"}}
           next == IF I # {} THEN Min(I) ELSE 0
<1>2. next # 0
  BY <1>1 DEF Edit!TagsAbove, Edit!SelectInSubSeq, Edit!Min, Min
<1>3. I = {}
  BY <1>1
<1>4. QED
  BY <1>2, <1>3

\* Without the blank lines and tags below it, a file that ends in neither is what it was.
LEMMA DropRestores ==
    ASSUME NEW s \in Seq(HostsLines), NEW n \in 0 .. Len(s),
           n # 0 => s[n].kind \notin {"blank", "tags"},
           \A j \in (n + 1) .. Len(s) : s[j].kind \in {"blank", "tags"}
    PROVE  Edit!DropPreamble(s) = SubSeq(s, 1, n)
<1>1. PICK m \in 0 .. Len(s) :
         /\ Edit!DropPreamble(s) = SubSeq(s, 1, m)
         /\ m # 0 => s[m].kind \notin {"blank", "tags"}
         /\ \A j \in (m + 1) .. Len(s) : s[j].kind \in {"blank", "tags"}
  BY DropIs
<1>2. ~(m < n)
  <2> SUFFICES ASSUME m < n PROVE FALSE
    OBVIOUS
  <2>1. n \in (m + 1) .. Len(s) /\ n # 0
    OBVIOUS
  <2>2. QED
    BY <1>1, <2>1
<1>3. ~(n < m)
  <2> SUFFICES ASSUME n < m PROVE FALSE
    OBVIOUS
  <2>1. m \in (n + 1) .. Len(s) /\ m # 0
    OBVIOUS
  <2>2. QED
    BY <1>1, <2>1
<1>4. m = n
  BY <1>2, <1>3
<1>5. QED
  BY <1>1, <1>4

\* What stands above the new block: the file, and blank lines and tags below it.
AboveIt(lines, s) ==
    /\ s \in Seq(HostsLines) /\ Len(lines) \in 0 .. Len(s) /\ SubSeq(s, 1, Len(lines)) = lines
    /\ \A j \in 1 .. Len(lines) : s[j] = lines[j]
    /\ \A j \in (Len(lines) + 1) .. Len(s) : s[j].kind \in {"blank", "tags"}

\* One more such line is above it too.
LEMMA AboveMore ==
    ASSUME NEW lines \in Seq(HostsLines), NEW s, AboveIt(lines, s),
           NEW line \in HostsLines, line.kind \in {"blank", "tags"}
    PROVE  AboveIt(lines, Append(s, line))
<1> DEFINE n == Len(lines)
           k == Len(s)
           t == Append(s, line)
<1>1. /\ s \in Seq(HostsLines) /\ n \in 0 .. k /\ SubSeq(s, 1, n) = lines
      /\ \A j \in 1 .. n : s[j] = lines[j]
      /\ \A j \in (n + 1) .. k : s[j].kind \in {"blank", "tags"}
  BY DEF AboveIt
<1>2. /\ t \in Seq(HostsLines) /\ Len(t) = k + 1 /\ t[k + 1] = line /\ k \in Nat /\ n \in Nat
      /\ \A j \in 1 .. k : t[j] = s[j]
  BY <1>1
<1>3. SubSeq(t, 1, n) = SubSeq(s, 1, n)
  BY <1>1
<1> HIDE DEF t, n, k
<1>4. \A j \in 1 .. n : j \in 1 .. k
  BY <1>1, <1>2
<1>5. \A j \in (n + 1) .. (k + 1) : j = k + 1 \/ (j \in (n + 1) .. k /\ j \in 1 .. k)
  BY <1>1, <1>2
<1>6. n \in 0 .. (k + 1)
  BY <1>1, <1>2
<1>7. AboveIt(lines, t)
  BY <1>1, <1>2, <1>3, <1>4, <1>5, <1>6 DEF AboveIt, n
<1>8. QED
  BY <1>7 DEF t

\* So it is for what an addition writes.
LEMMA AddedBelow ==
    ASSUME NEW lines \in Seq(HostsLines), NEW tags, Edit!TextLine("tags", tags) \in HostsLines
    PROVE  AboveIt(lines, Labelled(Above(lines), tags))
<1> DEFINE line == Edit!TextLine("tags", tags)
<1>1. AboveIt(lines, lines)
  <2>1. SubSeq(lines, 1, Len(lines)) = lines /\ Len(lines) \in 0 .. Len(lines)
        /\ (Len(lines) + 1) .. Len(lines) = {}
    BY AllOfThem
  <2>2. QED
    BY <2>1 DEF AboveIt
<1>2. AboveIt(lines, Above(lines))
  <2>1. Above(lines) = lines \/ Above(lines) = Append(lines, Edit!Blank)
    BY Zenon DEF Above
  <2>2. QED
    BY <1>1, <2>1, AboveMore, BlankIs
<1>3. line \in HostsLines /\ line.kind = "tags"
  BY DEF Edit!TextLine
<1>4. Labelled(Above(lines), tags) = Above(lines)
      \/ Labelled(Above(lines), tags) = Append(Above(lines), line)
  BY Zenon DEF Labelled
<1> HIDE DEF line
<1>5. QED
  BY <1>2, <1>3, <1>4, AboveMore

\* Removing what was just added leaves the file as it was.
LEMMA RemovalUndoes ==
    ASSUME NEW lines \in Seq(HostsLines), NEW a \in Aliases, NEW t \in Tags, NEW v \in Values,
           ~Edit!Named(lines, a), lines = <<>> \/ Edit!Last(lines) # Edit!Blank,
           Edit!TagsAbove(lines)
    PROVE  Edit!WithoutHost(Edit!Appended(lines, a, {t}, v), a).kept = lines
<1> DEFINE n == Len(lines)
           s == Labelled(Above(lines), {t})
           h == Edit!HostLine({a})
           d == Edit!Directive(v)
           more == Append(Append(s, h), d)
           k == Len(s)
<1>1. /\ Edit!TextLine("tags", {t}) \in HostsLines /\ h \in HostsLines /\ d \in HostsLines
      /\ s \in Seq(HostsLines) /\ Edit!Appended(lines, a, {t}, v) = more
  BY AppendedIs
<1>2. AboveIt(lines, s)
  BY <1>1, AddedBelow
<1>3. h.kind = "host" /\ h.says = {a} /\ d.kind = "set" /\ ~Edit!Starts(d) /\ d.kind # "tags"
  BY DEF Edit!HostLine, Edit!Directive, Edit!TextLine, Edit!Starts
<1> HIDE DEF s, h, d
<1>4. /\ more \in Seq(HostsLines) /\ k \in Nat /\ Len(more) = k + 2
      /\ \A j \in 1 .. k : more[j] = s[j]
      /\ more[k + 1] = h /\ more[k + 2] = d /\ SubSeq(more, 1, k) = s
  BY <1>1
<1> HIDE DEF more
<1>5. /\ n \in 0 .. k /\ SubSeq(s, 1, n) = lines
      /\ \A j \in 1 .. n : s[j] = lines[j]
      /\ \A j \in (n + 1) .. k : s[j].kind \in {"blank", "tags"}
  BY <1>2 DEF AboveIt
<1>6. n # 0 => s[n].kind \notin {"blank", "tags"}
  <2> SUFFICES ASSUME n # 0 PROVE s[n].kind \notin {"blank", "tags"}
    OBVIOUS
  <2>1. lines # <<>> /\ n \in 1 .. n /\ lines[n] \in HostsLines /\ s[n] = lines[n]
    BY <1>5
  <2>2. lines[n] # Edit!Blank
    BY <2>1 DEF Edit!Last
  <2>3. lines[n].kind # "tags"
    BY <2>1, LastIsNoTag
  <2>4. QED
    BY <2>1, <2>2, <2>3, HostsLineIs
<1>7. ASSUME NEW j \in 1 .. k PROVE ~Mentions(more[j], a)
  <2>1. CASE j \in 1 .. n
    <3>1. more[j] = lines[j] /\ j \in DOMAIN lines
      BY <1>4, <1>5, <2>1
    <3>2. QED
      BY <3>1 DEF Mentions, Edit!Named
  <2>2. CASE j \in (n + 1) .. k
    <3>1. more[j].kind \in {"blank", "tags"}
      BY <1>4, <1>5, <2>2
    <3>2. QED
      BY <3>1 DEF Mentions
  <2>3. QED
    BY <1>4, <1>5, <2>1, <2>2
<1> DEFINE e == EditAt(more, a, k)
           f == EditAt(more, a, k + 1)
           g == EditAt(more, a, k + 2)
<1>8. e.kept = s /\ e.at = 1 /\ ~e.refused
  <2>1. k \in 0 .. Len(more)
    BY <1>4
  <2>2. QED
    BY <1>4, <1>7, <2>1, KeepsUnnamed
<1>9. /\ k + 1 \in 1 .. Len(more) /\ k + 2 \in 1 .. Len(more) /\ (k + 1) - 1 = k
      /\ (k + 2) - 1 = k + 1 /\ k \in 0 .. Len(more) /\ k + 1 \in 0 .. Len(more) /\ ~(k + 1 < 1)
  BY <1>4
<1>10. /\ e \in Edits /\ f \in Edits
       /\ f = Edit!WithoutLine(more, a, e, k + 1) /\ g = Edit!WithoutLine(more, a, f, k + 2)
  BY <1>4, <1>9, EditAtIs
<1>11. Edit!WithoutHost(more, a) = g
  BY <1>4, WithoutHostIs
<1> HIDE DEF e, f, g, k, n
<1>12. Drops(more, e, f, k + 1)
  <2>1. MadeOf(more, a, e, f, k + 1)
    BY <1>4, <1>9, <1>10, WithoutLineIs
  <2>2. Mentions(more[k + 1], a) /\ more[k + 1].says = {a}
    BY <1>3, <1>4 DEF Mentions
  <2>3. QED
    BY <1>8, <1>9, <2>1, <2>2, Zenon DEF MadeOf
<1> DEFINE stop == Edit!BlockStop(more, k + 1)
<1>13. stop = k + 2
  <2>1. more[k + 1].kind = "host" /\ more[k + 1].says = {a}
    BY <1>3, <1>4
  <2>2. /\ stop \in (k + 1) .. Len(more)
        /\ \A j \in (stop + 1) .. Len(more) : more[j].kind = "set" =>
              \E i \in (stop + 1) .. j : Edit!Starts(more[i])
    <3> DEFINE p == k + 1
    <3>1. p \in 1 .. Len(more) /\ more[p].kind = "host" /\ more[p].says = {a}
      BY <1>9, <2>1
    <3> HIDE DEF p
    <3>2. Goes(more, a, p, Edit!BlockStop(more, p), GoesOnAt(more, Edit!BlockStop(more, p)) - 1)
      BY <1>4, <3>1, GoesIs
    <3>3. QED
      BY <3>2 DEF p, Goes
  <2> HIDE DEF stop
  <2>3. CASE stop = k + 1
    <3>1. k + 2 \in (stop + 1) .. Len(more) /\ more[k + 2].kind = "set"
      BY <1>3, <1>4, <2>3
    <3>2. PICK i \in (stop + 1) .. (k + 2) : Edit!Starts(more[i])
      BY <2>2, <3>1
    <3>3. i = k + 2
      BY <1>4, <2>3
    <3>4. QED
      BY <1>3, <1>4, <3>2, <3>3
  <2>4. QED
    BY <1>4, <2>2, <2>3
<1>14. f.at = Len(more) + 1 /\ f.kept = Edit!DropPreamble(s) /\ ~f.refused
  <2>1. GoesOnAt(more, k + 2) \in ((k + 2) + 1) .. (Len(more) + 1)
    BY <1>4, <1>9, GoesOnAtIs
  <2>2. GoesOnAt(more, k + 2) = Len(more) + 1
    BY <1>4, <2>1
  <2> HIDE DEF stop
  <2>3. QED
    BY <1>8, <1>12, <1>13, <2>2 DEF Drops, stop
<1>15. g = f
  <2>1. k + 2 < f.at
    BY <1>4, <1>14
  <2>2. MadeOf(more, a, f, g, k + 2)
    BY <1>4, <1>9, <1>10, WithoutLineIs
  <2>3. QED
    BY <2>1, <2>2, Zenon DEF MadeOf
<1>16. Edit!DropPreamble(s) = SubSeq(s, 1, n)
  BY <1>1, <1>5, <1>6, DropRestores DEF k
<1>17. QED
  BY <1>1, <1>5, <1>11, <1>14, <1>15, <1>16

-----------------------------------------------------------------------------
(* What the form makes of a text, and the reader of a line: folds over     *)
(* their characters.                                                       *)

\* The parts of a text: there is one at least.
PartLists == Seq(Form!Texts) \ {<<>>}

Grown(parts, c) == Append(Form!Front(parts), Append(Form!Last(parts), c))

PartStep(separators) ==
    [p \in PartLists \X Form!Chars |->
       IF p[2] \in separators THEN Append(p[1], <<>>) ELSE Grown(p[1], p[2])]

\* The last of some parts, a character longer.
LEMMA GrownTyped ==
    ASSUME NEW parts \in PartLists, NEW c \in Form!Chars
    PROVE  /\ Grown(parts, c) \in PartLists /\ Append(parts, <<>>) \in PartLists
           /\ Form!Front(parts) \in Seq(Form!Texts) /\ Form!Last(parts) \in Form!Texts
<1>1. parts \in Seq(Form!Texts) /\ Len(parts) \in Nat /\ Len(parts) # 0
  BY DEF PartLists
<1>2. Form!Front(parts) \in Seq(Form!Texts) /\ Form!Last(parts) \in Form!Texts
  BY <1>1 DEF Form!Front, Form!Last
<1> DEFINE front == Form!Front(parts)
           last == Form!Last(parts)
           more == Append(last, c)
<1> HIDE DEF front, last
<1>3. more \in Form!Texts
  BY <1>2 DEF Form!Texts, last
<1> HIDE DEF more
<1>4. Append(front, more) \in PartLists
  BY <1>2, <1>3 DEF PartLists, front
<1>5. <<>> \in Form!Texts
  BY DEF Form!Texts
<1>6. Append(parts, <<>>) \in PartLists
  <2> DEFINE none == <<>>
  <2> HIDE DEF none
  <2>1. none \in Form!Texts
    BY <1>5 DEF none
  <2>2. Append(parts, none) \in PartLists
    BY <1>1, <2>1 DEF PartLists
  <2>3. QED
    BY <2>2 DEF none
<1>7. QED
  BY <1>2, <1>4, <1>6 DEF Grown, front, last, more

\* Nothing yet is one part.
LEMMA PartsTyped ==
    ASSUME NEW separators
    PROVE  << <<>> >> \in PartLists
           /\ PartStep(separators) \in [PartLists \X Form!Chars -> PartLists]
<1>1. << <<>> >> \in PartLists
  <2> DEFINE none == <<>>
  <2>1. none \in Form!Texts
    BY DEF Form!Texts
  <2> HIDE DEF none
  <2>2. <<none>> \in PartLists
    BY <2>1 DEF PartLists
  <2>3. QED
    BY <2>2 DEF none
<1>2. \A p \in PartLists \X Form!Chars :
         (IF p[2] \in separators THEN Append(p[1], <<>>) ELSE Grown(p[1], p[2])) \in PartLists
  <2> SUFFICES ASSUME NEW x \in PartLists, NEW c \in Form!Chars
               PROVE  (IF c \in separators THEN Append(x, <<>>) ELSE Grown(x, c)) \in PartLists
    OBVIOUS
  <2>1. QED
    BY GrownTyped, Zenon
<1>3. QED
  BY <1>1, <1>2, Zenon DEF PartStep

\* A text is split a character at a time.
LEMMA PartsIs ==
    ASSUME NEW seq \in Seq(Form!Chars), NEW separators
    PROVE  Form!Parts(seq, separators) = Traced(PartLists, PartStep(separators), << <<>> >>, seq)
<1> DEFINE n == Len(seq)
           E == Form!Chars
           base == << <<>> >>
           g == PartStep(separators)
           iter == CHOOSE iter : iter = [s \in SUBSET DOMAIN seq |->
                      IF s = {} THEN << <<>> >>
                      ELSE IF seq[Max(s)] \in separators THEN Append(iter[s \ {Max(s)}], <<>>) ELSE Grown(iter[s \ {Max(s)}], seq[Max(s)])]
<1>1. n \in Nat /\ DOMAIN seq = 1 .. n /\ seq \in [1 .. n -> Form!Chars]
  OBVIOUS
<1>2. base \in PartLists /\ g \in [PartLists \X E -> PartLists]
  BY PartsTyped
<1>3. \A x \in PartLists, y \in E : g[<<x, y>>] = IF y \in separators THEN Append(x, <<>>) ELSE Grown(x, y)
  BY DEF PartStep
<1>4. Form!Parts(seq, separators) = iter[DOMAIN seq]
  BY DEF Form!Parts, Grown, Form!FoldLeft, Form!MapThenFoldSet, Form!Max, Max
<1> HIDE DEF n, E, base, g
<1>5. iter = [s \in SUBSET DOMAIN seq |->
                IF s = {} THEN << <<>> >>
                ELSE IF seq[Max(s)] \in separators THEN Append(iter[s \ {Max(s)}], <<>>) ELSE Grown(iter[s \ {Max(s)}], seq[Max(s)])]
  <2>1. PICK h : IsFold(h, PartLists, g, base, seq, n)
    BY <1>1, <1>2, FoldExists DEF E
  <2>2. ASSUME NEW s \in SUBSET (1 .. n)
        PROVE  h[s] = IF s = {} THEN << <<>> >>
                      ELSE IF seq[Max(s)] \in separators THEN Append(h[s \ {Max(s)}], <<>>) ELSE Grown(h[s \ {Max(s)}], seq[Max(s)])
    <3>1. CASE s = {}
      BY <2>1, <3>1 DEF IsFold, base
    <3>2. CASE s # {}
      <4>1. Max(s) \in 1 .. n
        BY <1>1, <3>2, MaxIn
      <4>2. h[s \ {Max(s)}] \in PartLists /\ seq[Max(s)] \in E
        BY <1>1, <2>1, <4>1 DEF IsFold, E
      <4>3. h[s] = g[<<h[s \ {Max(s)}], seq[Max(s)]>>]
        BY <2>1, <3>2 DEF IsFold
      <4>4. h[s] = IF seq[Max(s)] \in separators THEN Append(h[s \ {Max(s)}], <<>>) ELSE Grown(h[s \ {Max(s)}], seq[Max(s)])
        BY <1>3, <4>2, <4>3
      <4>5. QED
        BY <3>2, <4>4, Zenon
    <3>3. QED
      BY <3>1, <3>2
  <2>3. h = [s \in SUBSET DOMAIN seq |->
               IF s = {} THEN << <<>> >>
               ELSE IF seq[Max(s)] \in separators THEN Append(h[s \ {Max(s)}], <<>>) ELSE Grown(h[s \ {Max(s)}], seq[Max(s)])]
    BY <1>1, <2>1, <2>2, Zenon DEF IsFold
  <2>4. QED
    BY <2>3, Zenon
<1> HIDE DEF iter
<1>6. iter[{}] = base
  BY <1>5, Zenon DEF base
<1>7. ASSUME NEW i \in 1 .. n, iter[1 .. (i - 1)] \in PartLists
      PROVE  iter[1 .. i] = g[<<iter[1 .. (i - 1)], seq[i]>>]
  <2>1. /\ Max(1 .. i) = i /\ (1 .. i) \ {i} = 1 .. (i - 1) /\ 1 .. i # {}
        /\ 1 .. i \in SUBSET DOMAIN seq /\ seq[i] \in E
    BY <1>1, UpTo DEF E
  <2>2. iter[1 .. i] = IF seq[i] \in separators THEN Append(iter[1 .. (i - 1)], <<>>) ELSE Grown(iter[1 .. (i - 1)], seq[i])
    BY <1>5, <2>1, Zenon
  <2>3. QED
    BY <1>3, <1>7, <2>1, <2>2
<1>8. iter[DOMAIN seq] = Traced(PartLists, g, base, seq)
  <2>1. Steps(iter, PartLists, g, base, seq)
    BY <1>6, <1>7 DEF Steps, n
  <2>2. seq \in Seq(E)
    BY DEF E
  <2>3. Ends(iter, PartLists, g, base, seq)
    BY <1>2, <2>1, <2>2, FoldIsTraced
  <2>4. QED
    BY <1>1, <2>3 DEF Ends, n
<1>9. QED
  BY <1>4, <1>8 DEF g, base

Kept(kept, p) == IF p = <<>> THEN kept ELSE Append(kept, p)

KeptStep == [p \in Seq(Form!Texts) \X Form!Texts |-> Kept(p[1], p[2])]

\* A part more leaves parts.
LEMMA KeptTyped ==
    <<>> \in Seq(Form!Texts) /\ KeptStep \in [Seq(Form!Texts) \X Form!Texts -> Seq(Form!Texts)]
<1>1. <<>> \in Seq(Form!Texts)
  OBVIOUS
<1>2. ASSUME NEW x \in Seq(Form!Texts), NEW y \in Form!Texts PROVE Kept(x, y) \in Seq(Form!Texts)
  BY DEF Kept
<1>3. \A p \in Seq(Form!Texts) \X Form!Texts : Kept(p[1], p[2]) \in Seq(Form!Texts)
  BY <1>2
<1>4. QED
  BY <1>1, <1>3, Zenon DEF KeptStep

\* The parts that are not empty are kept one by one.
LEMMA NotEmptyIs ==
    ASSUME NEW seq \in Seq(Form!Texts)
    PROVE  Form!NotEmpty(seq) = Traced(Seq(Form!Texts), KeptStep, <<>>, seq)
<1> DEFINE n == Len(seq)
           E == Form!Texts
           base == <<>>
           g == KeptStep
           iter == CHOOSE iter : iter = [s \in SUBSET DOMAIN seq |->
                      IF s = {} THEN <<>>
                      ELSE Kept(iter[s \ {Max(s)}], seq[Max(s)])]
<1>1. n \in Nat /\ DOMAIN seq = 1 .. n /\ seq \in [1 .. n -> Form!Texts]
  OBVIOUS
<1>2. base \in Seq(Form!Texts) /\ g \in [Seq(Form!Texts) \X E -> Seq(Form!Texts)]
  BY KeptTyped
<1>3. \A x \in Seq(Form!Texts), y \in E : g[<<x, y>>] = Kept(x, y)
  BY DEF KeptStep
<1>4. Form!NotEmpty(seq) = iter[DOMAIN seq]
  BY DEF Form!NotEmpty, Kept, Form!FoldLeft, Form!MapThenFoldSet, Form!Max, Max
<1> HIDE DEF n, E, base, g
<1>5. iter = [s \in SUBSET DOMAIN seq |->
                IF s = {} THEN <<>>
                ELSE Kept(iter[s \ {Max(s)}], seq[Max(s)])]
  <2>1. PICK h : IsFold(h, Seq(Form!Texts), g, base, seq, n)
    BY <1>1, <1>2, FoldExists DEF E
  <2>2. ASSUME NEW s \in SUBSET (1 .. n)
        PROVE  h[s] = IF s = {} THEN <<>>
                      ELSE Kept(h[s \ {Max(s)}], seq[Max(s)])
    <3>1. CASE s = {}
      BY <2>1, <3>1 DEF IsFold, base
    <3>2. CASE s # {}
      <4>1. Max(s) \in 1 .. n
        BY <1>1, <3>2, MaxIn
      <4>2. h[s \ {Max(s)}] \in Seq(Form!Texts) /\ seq[Max(s)] \in E
        BY <1>1, <2>1, <4>1 DEF IsFold, E
      <4>3. h[s] = g[<<h[s \ {Max(s)}], seq[Max(s)]>>]
        BY <2>1, <3>2 DEF IsFold
      <4>4. h[s] = Kept(h[s \ {Max(s)}], seq[Max(s)])
        BY <1>3, <4>2, <4>3
      <4>5. QED
        BY <3>2, <4>4, Zenon
    <3>3. QED
      BY <3>1, <3>2
  <2>3. h = [s \in SUBSET DOMAIN seq |->
               IF s = {} THEN <<>>
               ELSE Kept(h[s \ {Max(s)}], seq[Max(s)])]
    BY <1>1, <2>1, <2>2, Zenon DEF IsFold
  <2>4. QED
    BY <2>3, Zenon
<1> HIDE DEF iter
<1>6. iter[{}] = base
  BY <1>5, Zenon DEF base
<1>7. ASSUME NEW i \in 1 .. n, iter[1 .. (i - 1)] \in Seq(Form!Texts)
      PROVE  iter[1 .. i] = g[<<iter[1 .. (i - 1)], seq[i]>>]
  <2>1. /\ Max(1 .. i) = i /\ (1 .. i) \ {i} = 1 .. (i - 1) /\ 1 .. i # {}
        /\ 1 .. i \in SUBSET DOMAIN seq /\ seq[i] \in E
    BY <1>1, UpTo DEF E
  <2>2. iter[1 .. i] = Kept(iter[1 .. (i - 1)], seq[i])
    BY <1>5, <2>1, Zenon
  <2>3. QED
    BY <1>3, <1>7, <2>1, <2>2
<1>8. iter[DOMAIN seq] = Traced(Seq(Form!Texts), g, base, seq)
  <2>1. Steps(iter, Seq(Form!Texts), g, base, seq)
    BY <1>6, <1>7 DEF Steps, n
  <2>2. seq \in Seq(E)
    BY DEF E
  <2>3. Ends(iter, Seq(Form!Texts), g, base, seq)
    BY <1>2, <2>1, <2>2, FoldIsTraced
  <2>4. QED
    BY <1>1, <2>3 DEF Ends, n
<1>9. QED
  BY <1>4, <1>8 DEF g, base

Joined(text, t) == text \o (IF text = <<>> THEN <<" ">> ELSE <<",", " ">>) \o t

JoinStep == [p \in Form!Texts \X Form!Texts |-> Joined(p[1], p[2])]

\* A tag more leaves a text.
LEMMA JoinTyped == <<>> \in Form!Texts /\ JoinStep \in [Form!Texts \X Form!Texts -> Form!Texts]
<1>1. <<>> \in Form!Texts
  BY DEF Form!Texts
<1>2. ASSUME NEW x \in Form!Texts, NEW y \in Form!Texts PROVE Joined(x, y) \in Form!Texts
  <2>1. " " \in Form!Chars /\ "," \in Form!Chars
    BY Zenon DEF Form!Chars
  <2> DEFINE between == IF x = <<>> THEN <<" ">> ELSE <<",", " ">>
  <2>2. between \in Form!Texts
    <3> DEFINE s == " "
               c == ","
    <3> HIDE DEF s, c
    <3>1. s \in Form!Chars /\ c \in Form!Chars
      BY <2>1 DEF s, c
    <3>2. <<s>> \in Form!Texts /\ <<c, s>> \in Form!Texts
      BY <3>1 DEF Form!Texts
    <3>3. QED
      BY <3>2, Zenon DEF s, c
  <2> HIDE DEF between
  <2>3. x \o between \o y \in Form!Texts
    BY <2>2 DEF Form!Texts
  <2>4. QED
    BY <2>3, Zenon DEF Joined, between
<1>3. \A p \in Form!Texts \X Form!Texts : Joined(p[1], p[2]) \in Form!Texts
  BY <1>2
<1>4. QED
  BY <1>1, <1>3, Zenon DEF JoinStep

\* The tags are written one by one.
LEMMA TagTextIs ==
    ASSUME NEW seq \in Seq(Form!Texts)
    PROVE  Form!TagText(seq) = Traced(Form!Texts, JoinStep, <<>>, seq)
<1> DEFINE n == Len(seq)
           E == Form!Texts
           base == <<>>
           g == JoinStep
           iter == CHOOSE iter : iter = [s \in SUBSET DOMAIN seq |->
                      IF s = {} THEN <<>>
                      ELSE Joined(iter[s \ {Max(s)}], seq[Max(s)])]
<1>1. n \in Nat /\ DOMAIN seq = 1 .. n /\ seq \in [1 .. n -> Form!Texts]
  OBVIOUS
<1>2. base \in Form!Texts /\ g \in [Form!Texts \X E -> Form!Texts]
  BY JoinTyped
<1>3. \A x \in Form!Texts, y \in E : g[<<x, y>>] = Joined(x, y)
  BY DEF JoinStep
<1>4. Form!TagText(seq) = iter[DOMAIN seq]
  BY DEF Form!TagText, Joined, Form!FoldLeft, Form!MapThenFoldSet, Form!Max, Max
<1> HIDE DEF n, E, base, g
<1>5. iter = [s \in SUBSET DOMAIN seq |->
                IF s = {} THEN <<>>
                ELSE Joined(iter[s \ {Max(s)}], seq[Max(s)])]
  <2>1. PICK h : IsFold(h, Form!Texts, g, base, seq, n)
    BY <1>1, <1>2, FoldExists DEF E
  <2>2. ASSUME NEW s \in SUBSET (1 .. n)
        PROVE  h[s] = IF s = {} THEN <<>>
                      ELSE Joined(h[s \ {Max(s)}], seq[Max(s)])
    <3>1. CASE s = {}
      BY <2>1, <3>1 DEF IsFold, base
    <3>2. CASE s # {}
      <4>1. Max(s) \in 1 .. n
        BY <1>1, <3>2, MaxIn
      <4>2. h[s \ {Max(s)}] \in Form!Texts /\ seq[Max(s)] \in E
        BY <1>1, <2>1, <4>1 DEF IsFold, E
      <4>3. h[s] = g[<<h[s \ {Max(s)}], seq[Max(s)]>>]
        BY <2>1, <3>2 DEF IsFold
      <4>4. h[s] = Joined(h[s \ {Max(s)}], seq[Max(s)])
        BY <1>3, <4>2, <4>3
      <4>5. QED
        BY <3>2, <4>4, Zenon
    <3>3. QED
      BY <3>1, <3>2
  <2>3. h = [s \in SUBSET DOMAIN seq |->
               IF s = {} THEN <<>>
               ELSE Joined(h[s \ {Max(s)}], seq[Max(s)])]
    BY <1>1, <2>1, <2>2, Zenon DEF IsFold
  <2>4. QED
    BY <2>3, Zenon
<1> HIDE DEF iter
<1>6. iter[{}] = base
  BY <1>5, Zenon DEF base
<1>7. ASSUME NEW i \in 1 .. n, iter[1 .. (i - 1)] \in Form!Texts
      PROVE  iter[1 .. i] = g[<<iter[1 .. (i - 1)], seq[i]>>]
  <2>1. /\ Max(1 .. i) = i /\ (1 .. i) \ {i} = 1 .. (i - 1) /\ 1 .. i # {}
        /\ 1 .. i \in SUBSET DOMAIN seq /\ seq[i] \in E
    BY <1>1, UpTo DEF E
  <2>2. iter[1 .. i] = Joined(iter[1 .. (i - 1)], seq[i])
    BY <1>5, <2>1, Zenon
  <2>3. QED
    BY <1>3, <1>7, <2>1, <2>2
<1>8. iter[DOMAIN seq] = Traced(Form!Texts, g, base, seq)
  <2>1. Steps(iter, Form!Texts, g, base, seq)
    BY <1>6, <1>7 DEF Steps, n
  <2>2. seq \in Seq(E)
    BY DEF E
  <2>3. Ends(iter, Form!Texts, g, base, seq)
    BY <1>2, <2>1, <2>2, FoldIsTraced
  <2>4. QED
    BY <1>1, <2>3 DEF Ends, n
<1>9. QED
  BY <1>4, <1>8 DEF g, base

\* A character of a line of words.
Split(s, c) ==
    IF c = "\"" THEN [s EXCEPT !.quoted = ~@]
    ELSE IF c = " " /\ ~s.quoted THEN [s EXCEPT !.words = Append(@, <<>>)]
    ELSE [s EXCEPT !.words = Grown(@, c)]

Splits == [words : PartLists, quoted : BOOLEAN]

NoWords == [words |-> << <<>> >>, quoted |-> FALSE]

SplitStep == [p \in Splits \X Form!Chars |-> Split(p[1], p[2])]

Words(text) == Form!FoldLeft(LAMBDA s, c : Split(s, c), NoWords, text)

\* What a character does to the words.
LEMMA SplitIs ==
    ASSUME NEW s \in Splits, NEW c \in Form!Chars
    PROVE  /\ Split(s, c) \in Splits
           /\ c # " " => \/ Split(s, c).words = s.words
                        \/ Split(s, c).words = Grown(s.words, c)
           /\ c # " " /\ c # "\"" => /\ Split(s, c).words = Grown(s.words, c)
                                     /\ Split(s, c).quoted = s.quoted
<1> DEFINE one == [s EXCEPT !.quoted = ~@]
           two == [s EXCEPT !.words = Append(@, <<>>)]
           three == [s EXCEPT !.words = Grown(@, c)]
<1>1. /\ s.words \in PartLists /\ s.quoted \in BOOLEAN /\ DOMAIN s = {"words", "quoted"}
      /\ Grown(s.words, c) \in PartLists /\ Append(s.words, <<>>) \in PartLists
  <2>1. s.words \in PartLists /\ s.quoted \in BOOLEAN /\ DOMAIN s = {"words", "quoted"}
    BY DEF Splits
  <2>2. QED
    BY <2>1, GrownTyped
<1>2. one \in Splits /\ one.words = s.words
  BY <1>1 DEF Splits
<1>3. two \in Splits
  BY <1>1 DEF Splits
<1>4. three \in Splits /\ three.words = Grown(s.words, c) /\ three.quoted = s.quoted
  BY <1>1 DEF Splits
<1>5. /\ c = "\"" => Split(s, c) = one
      /\ c # "\"" /\ c = " " => Split(s, c) = two \/ Split(s, c) = three
      /\ c # "\"" /\ c # " " => Split(s, c) = three
  BY Zenon DEF Split
<1> HIDE DEF one, two, three
<1>6. QED
  BY <1>2, <1>3, <1>4, <1>5, Zenon

\* No character yet is one word, and a character more leaves words.
LEMMA SplitTyped == NoWords \in Splits /\ SplitStep \in [Splits \X Form!Chars -> Splits]
<1>1. NoWords \in Splits
  <2> DEFINE none == << <<>> >>
  <2>1. none \in PartLists
    BY PartsTyped
  <2> HIDE DEF none
  <2>2. [words |-> none, quoted |-> FALSE] \in Splits
    BY <2>1 DEF Splits
  <2>3. QED
    BY <2>2 DEF NoWords, none
<1>2. \A p \in Splits \X Form!Chars : Split(p[1], p[2]) \in Splits
  BY SplitIs
<1>3. QED
  BY <1>1, <1>2, Zenon DEF SplitStep

\* The words are read a character at a time.
LEMMA WordsAre ==
    ASSUME NEW seq \in Seq(Form!Chars)
    PROVE  Words(seq) = Traced(Splits, SplitStep, NoWords, seq)
<1> DEFINE n == Len(seq)
           E == Form!Chars
           base == NoWords
           g == SplitStep
           iter == CHOOSE iter : iter = [s \in SUBSET DOMAIN seq |->
                      IF s = {} THEN NoWords
                      ELSE Split(iter[s \ {Max(s)}], seq[Max(s)])]
<1>1. n \in Nat /\ DOMAIN seq = 1 .. n /\ seq \in [1 .. n -> Form!Chars]
  OBVIOUS
<1>2. base \in Splits /\ g \in [Splits \X E -> Splits]
  BY SplitTyped
<1>3. \A x \in Splits, y \in E : g[<<x, y>>] = Split(x, y)
  BY DEF SplitStep
<1>4. Words(seq) = iter[DOMAIN seq]
  BY DEF Words, Form!FoldLeft, Form!MapThenFoldSet, Form!Max, Max
<1> HIDE DEF n, E, base, g
<1>5. iter = [s \in SUBSET DOMAIN seq |->
                IF s = {} THEN NoWords
                ELSE Split(iter[s \ {Max(s)}], seq[Max(s)])]
  <2>1. PICK h : IsFold(h, Splits, g, base, seq, n)
    BY <1>1, <1>2, FoldExists DEF E
  <2>2. ASSUME NEW s \in SUBSET (1 .. n)
        PROVE  h[s] = IF s = {} THEN NoWords
                      ELSE Split(h[s \ {Max(s)}], seq[Max(s)])
    <3>1. CASE s = {}
      BY <2>1, <3>1 DEF IsFold, base
    <3>2. CASE s # {}
      <4>1. Max(s) \in 1 .. n
        BY <1>1, <3>2, MaxIn
      <4>2. h[s \ {Max(s)}] \in Splits /\ seq[Max(s)] \in E
        BY <1>1, <2>1, <4>1 DEF IsFold, E
      <4>3. h[s] = g[<<h[s \ {Max(s)}], seq[Max(s)]>>]
        BY <2>1, <3>2 DEF IsFold
      <4>4. h[s] = Split(h[s \ {Max(s)}], seq[Max(s)])
        BY <1>3, <4>2, <4>3
      <4>5. QED
        BY <3>2, <4>4, Zenon
    <3>3. QED
      BY <3>1, <3>2
  <2>3. h = [s \in SUBSET DOMAIN seq |->
               IF s = {} THEN NoWords
               ELSE Split(h[s \ {Max(s)}], seq[Max(s)])]
    BY <1>1, <2>1, <2>2, Zenon DEF IsFold
  <2>4. QED
    BY <2>3, Zenon
<1> HIDE DEF iter
<1>6. iter[{}] = base
  BY <1>5, Zenon DEF base
<1>7. ASSUME NEW i \in 1 .. n, iter[1 .. (i - 1)] \in Splits
      PROVE  iter[1 .. i] = g[<<iter[1 .. (i - 1)], seq[i]>>]
  <2>1. /\ Max(1 .. i) = i /\ (1 .. i) \ {i} = 1 .. (i - 1) /\ 1 .. i # {}
        /\ 1 .. i \in SUBSET DOMAIN seq /\ seq[i] \in E
    BY <1>1, UpTo DEF E
  <2>2. iter[1 .. i] = Split(iter[1 .. (i - 1)], seq[i])
    BY <1>5, <2>1, Zenon
  <2>3. QED
    BY <1>3, <1>7, <2>1, <2>2
<1>8. iter[DOMAIN seq] = Traced(Splits, g, base, seq)
  <2>1. Steps(iter, Splits, g, base, seq)
    BY <1>6, <1>7 DEF Steps, n
  <2>2. seq \in Seq(E)
    BY DEF E
  <2>3. Ends(iter, Splits, g, base, seq)
    BY <1>2, <2>1, <2>2, FoldIsTraced
  <2>4. QED
    BY <1>1, <2>3 DEF Ends, n
<1>9. QED
  BY <1>4, <1>8 DEF g, base

\* A line is split into its words.
LEMMA FieldsAre ==
    ASSUME NEW text PROVE Form!splitFields(text) = Form!NotEmpty(Words(text).words)
  BY DEF Form!splitFields, Words, Split, NoWords, Grown, Form!FoldLeft, Form!MapThenFoldSet

-----------------------------------------------------------------------------
(* Texts without spaces.                                                   *)

Space == " "

Solid(text) == text \in Form!Texts /\ \A i \in 1 .. Len(text) : text[i] # Space

\* A text that is trimmed begins and ends where something stands.
LEMMA TrimIs ==
    ASSUME NEW text \in Form!Texts
    PROVE  /\ (\A i \in 1 .. Len(text) : text[i] = Space) => Form!Trim(text) = <<>>
           /\ \A lo \in 1 .. Len(text), hi \in 1 .. Len(text) :
                 /\ text[lo] # Space /\ text[hi] # Space
                 /\ \A i \in 1 .. Len(text) : text[i] # Space => i >= lo /\ i <= hi
                 => Form!Trim(text) = SubSeq(text, lo, hi)
           /\ Form!Trim(text) \in Form!Texts
<1> DEFINE n == Len(text)
           I == {i \in 1 .. n : text[i] # Space}
           first == IF I # {} THEN Min(I) ELSE 0
           last == IF I # {} THEN Max(I) ELSE 0
           none == <<>>
<1>1. n \in Nat /\ I \in SUBSET (1 .. n)
  BY DEF Form!Texts
<1>2. Form!Trim(text) = IF first = 0 THEN none ELSE SubSeq(text, first, last)
  BY DEF Form!Trim, Form!SelectInSeq, Form!SelectLastInSeq, Form!Min, Form!Max, Min, Max, Space
<1>3. /\ first = 0 => I = {}
      /\ first # 0 => first \in I /\ first \in 1 .. n /\ \A j \in I : first <= j
  <2> HIDE DEF n, I
  <2>1. QED
    BY <1>1, FirstIs
<1>4. /\ last = 0 => I = {}
      /\ last # 0 => last \in I /\ last \in 1 .. n /\ \A j \in I : last >= j
  <2> HIDE DEF n, I
  <2>1. QED
    BY <1>1, LastIs
<1> HIDE DEF first, last, none
<1>5. ASSUME \A i \in 1 .. n : text[i] = Space PROVE Form!Trim(text) = none
  <2>1. I = {}
    BY <1>5
  <2>2. first = 0
    BY <1>3, <2>1
  <2>3. QED
    BY <1>2, <2>2
<1>6. ASSUME NEW lo \in 1 .. n, NEW hi \in 1 .. n, text[lo] # Space, text[hi] # Space,
             \A i \in 1 .. n : text[i] # Space => i >= lo /\ i <= hi
      PROVE  Form!Trim(text) = SubSeq(text, lo, hi)
  <2>1. lo \in I /\ hi \in I
    BY <1>6
  <2>2. first # 0 /\ last # 0
    BY <1>3, <1>4, <2>1
  <2>3. first = lo
    <3>1. first <= lo /\ first >= lo /\ first \in 1 .. n
      BY <1>3, <1>6, <2>1, <2>2
    <3>2. QED
      BY <1>1, <3>1
  <2>4. last = hi
    <3>1. last <= hi /\ last >= hi /\ last \in 1 .. n
      BY <1>4, <1>6, <2>1, <2>2
    <3>2. QED
      BY <1>1, <3>1
  <2>5. QED
    BY <1>2, <2>2, <2>3, <2>4
<1>7. Form!Trim(text) \in Form!Texts
  <2>1. none \in Form!Texts
    BY DEF none, Form!Texts
  <2>2. CASE first = 0
    BY <1>2, <2>1, <2>2
  <2>3. CASE first # 0
    <3>1. first \in 1 .. n /\ last \in 1 .. n
      BY <1>3, <1>4, <2>3
    <3>2. SubSeq(text, first, last) \in Form!Texts
      BY <1>1, <3>1 DEF Form!Texts
    <3>3. QED
      BY <1>2, <2>3, <3>2
  <2>4. QED
    BY <2>2, <2>3
<1>8. QED
  BY <1>5, <1>6, <1>7 DEF none

\* A text without spaces is trimmed already, and is what is left of it behind one.
LEMMA TrimSolid ==
    ASSUME NEW text, Solid(text)
    PROVE  Form!Trim(text) = text /\ Form!Trim(<<Space>> \o text) = text
<1> DEFINE n == Len(text)
           more == <<Space>> \o text
<1>1. text \in Form!Texts /\ n \in Nat /\ \A i \in 1 .. n : text[i] # Space
  BY DEF Solid, Form!Texts
<1>2. Space \in Form!Chars
  BY Zenon DEF Space, Form!Chars
<1>3. /\ more \in Form!Texts /\ Len(more) = n + 1 /\ more[1] = Space
      /\ \A i \in 2 .. (n + 1) : more[i] = text[i - 1]
      /\ SubSeq(more, 2, n + 1) = text /\ SubSeq(text, 1, n) = text
  BY <1>1, <1>2 DEF Form!Texts
<1> HIDE DEF more
<1>4. CASE n = 0
  <2>1. text = <<>>
    BY <1>1, <1>4 DEF Form!Texts
  <2>2. \A i \in 1 .. Len(text) : text[i] = Space
    BY <1>4
  <2>3. \A i \in 1 .. Len(more) : more[i] = Space
    BY <1>3, <1>4
  <2>4. QED
    BY <1>1, <1>3, <2>1, <2>2, <2>3, TrimIs DEF more
<1>5. CASE n # 0
  <2>1. 1 \in 1 .. Len(text) /\ n \in 1 .. Len(text) /\ 2 \in 1 .. Len(more) /\ n + 1 \in 1 .. Len(more)
        /\ 1 \in 1 .. n /\ n \in 1 .. n /\ 2 \in 2 .. (n + 1) /\ n + 1 \in 2 .. (n + 1)
    BY <1>1, <1>3, <1>5
  <2>2. text[1] # Space /\ text[n] # Space /\ more[2] # Space /\ more[n + 1] # Space
    BY <1>1, <1>3, <2>1
  <2>3. \A i \in 1 .. Len(text) : text[i] # Space => i >= 1 /\ i <= n
    BY <1>1
  <2>4. \A i \in 1 .. Len(more) : more[i] # Space => i >= 2 /\ i <= n + 1
    BY <1>1, <1>3
  <2>5. Form!Trim(text) = SubSeq(text, 1, n)
    BY <1>1, <2>1, <2>2, <2>3, TrimIs
  <2>6. Form!Trim(more) = SubSeq(more, 2, n + 1)
    BY <1>3, <2>1, <2>2, <2>4, TrimIs
  <2>7. QED
    BY <1>3, <2>5, <2>6 DEF more
<1>6. QED
  BY <1>4, <1>5

\* What stands behind a sign, or between two quotes, has no spaces either.
LEMMA SolidParts ==
    ASSUME NEW text, Solid(text), NEW prefix
    PROVE  /\ Solid(Form!Without(text, prefix)) /\ Solid(Form!unquote(text))
           /\ ~Form!StartsWith(text, prefix) => Form!Without(text, prefix) = text
<1> DEFINE n == Len(text)
           less == Tail(text)
           within == SubSeq(text, 2, n - 1)
<1>1. text \in Form!Texts /\ n \in Nat /\ \A i \in 1 .. n : text[i] # Space
  BY DEF Solid, Form!Texts
<1>2. Form!Without(text, prefix) = IF Form!StartsWith(text, prefix) THEN less ELSE text
  BY Zenon DEF Form!Without
<1>3. Form!StartsWith(text, prefix) => n # 0
  BY <1>1 DEF Form!StartsWith, Form!Texts
<1>4. n # 0 => Solid(less)
  <2> SUFFICES ASSUME n # 0 PROVE Solid(less)
    OBVIOUS
  <2>1. less \in Form!Texts /\ Len(less) = n - 1 /\ \A i \in 1 .. (n - 1) : less[i] = text[i + 1]
    BY <1>1 DEF Form!Texts
  <2>2. \A i \in 1 .. (n - 1) : i + 1 \in 1 .. n
    BY <1>1
  <2> HIDE DEF less, n
  <2>3. QED
    BY <1>1, <2>1, <2>2 DEF Solid
<1>5. n >= 2 => Solid(within)
  <2> SUFFICES ASSUME n >= 2 PROVE Solid(within)
    OBVIOUS
  <2> DEFINE m == n - 1
  <2>0. m \in Nat /\ m <= n /\ m >= 1 /\ text \in Seq(Form!Chars) /\ n = Len(text)
    BY <1>1 DEF Form!Texts
  <2>3. SubSeq(text, 2, m) \in Seq(Form!Chars) /\ Len(SubSeq(text, 2, m)) = m - 1
        /\ \A i \in 1 .. (m - 1) : SubSeq(text, 2, m)[i] = text[i + 1]
    <3> HIDE DEF m, n
    <3>1. QED
      BY <2>0
  <2>1. /\ within \in Form!Texts /\ Len(within) = n - 2
        /\ \A i \in 1 .. (n - 2) : within[i] = text[i + 1]
    BY <1>1, <2>3 DEF Form!Texts
  <2>2. \A i \in 1 .. (n - 2) : i + 1 \in 1 .. n
    BY <1>1
  <2> HIDE DEF within, n
  <2>4. QED
    BY <1>1, <2>1, <2>2 DEF Solid
<1>6. Form!unquote(text) = text \/ (n >= 2 /\ Form!unquote(text) = within)
  BY Zenon DEF Form!unquote
<1> HIDE DEF less, within, n
<1>7. QED
  BY <1>2, <1>3, <1>4, <1>5, <1>6

\* A text without spaces is no comment, nor does one begin in it but at its head.
LEMMA NoComment ==
    ASSUME NEW text, Solid(text), ~Form!StartsWith(text, "#")
    PROVE  Form!stripComment(<<Space>> \o text) = <<Space>> \o text
<1> DEFINE n == Len(text)
           more == <<Space>> \o text
           hash == "#"
           marks == [i \in DOMAIN more |-> i > 1 /\ more[i] = hash /\ more[i - 1] = Space]
           I == {i \in 1 .. Len(marks) : marks[i]}
           at == IF I # {} THEN Min(I) ELSE 0
<1>1. text \in Form!Texts /\ n \in Nat /\ \A i \in 1 .. n : text[i] # Space
  BY DEF Solid, Form!Texts
<1>2. n # 0 => text[1] # hash
  BY <1>1 DEF Form!StartsWith, Form!Texts
<1>3. Form!stripComment(more) = IF at = 0 THEN more ELSE SubSeq(more, 1, at - 1)
  BY Zenon DEF Form!stripComment, Form!SelectInSeq, Form!Min, Min, Space
<1> HIDE DEF hash
<1>4. Len(more) = n + 1 /\ DOMAIN more = 1 .. (n + 1) /\ more[1] = Space
      /\ \A i \in 2 .. (n + 1) : more[i] = text[i - 1]
  BY <1>1 DEF Form!Texts
<1> HIDE DEF more
<1>5. Len(marks) = n + 1
  BY <1>1, <1>4
<1>6. \A i \in 1 .. (n + 1) : marks[i] = (i > 1 /\ more[i] = hash /\ more[i - 1] = Space)
  BY <1>4
<1> HIDE DEF marks
<1>7. ASSUME NEW i \in 1 .. (n + 1), marks[i] PROVE FALSE
  <2>1. i > 1 /\ more[i] = hash /\ more[i - 1] = Space
    BY <1>6, <1>7
  <2>2. CASE i = 2
    <3>1. more[2] = text[1] /\ n # 0
      BY <1>1, <1>4, <2>1, <2>2
    <3>2. QED
      BY <1>2, <2>1, <2>2, <3>1
  <2>3. CASE i # 2
    <3>1. i - 1 \in 2 .. (n + 1) /\ i - 2 \in 1 .. n /\ (i - 1) - 1 = i - 2
      BY <1>1, <2>1, <2>3
    <3>2. more[i - 1] = text[i - 2]
      BY <1>4, <3>1
    <3>3. QED
      BY <1>1, <2>1, <3>1, <3>2
  <2>4. QED
    BY <2>2, <2>3
<1>8. I = {}
  BY <1>5, <1>7
<1>9. at = 0
  BY <1>8
<1> HIDE DEF at
<1>10. QED
  BY <1>3, <1>9 DEF more

\* The value of a directive is what was written, but for a sign and quotes.
LEMMA ValueIs ==
    ASSUME NEW text, Solid(text), ~Form!StartsWith(text, "#")
    PROVE  /\ Form!ValueOf(<<Space>> \o text) = Form!unquote(Form!Without(text, "="))
           /\ Solid(Form!ValueOf(<<Space>> \o text))
           /\ ~Form!StartsWith(text, "=") /\ Form!unquote(text) = text =>
                 Form!ValueOf(<<Space>> \o text) = text
<1> DEFINE more == <<Space>> \o text
           bare == Form!Without(text, "=")
           said == Form!unquote(bare)
<1>1. Form!stripComment(more) = more
  BY NoComment
<1>2. Form!Trim(more) = text
  BY TrimSolid
<1>3. Form!ValueOf(more) = Form!Trim(Form!unquote(Form!Trim(Form!Without(
                              Form!Trim(Form!stripComment(more)), "="))))
  BY Zenon DEF Form!ValueOf
<1>4. Solid(bare) /\ (~Form!StartsWith(text, "=") => bare = text)
  BY SolidParts
<1> HIDE DEF more, bare
<1>5. Form!Trim(bare) = bare /\ Solid(said)
  BY <1>4, TrimSolid, SolidParts
<1> HIDE DEF said
<1>6. Form!Trim(said) = said
  BY <1>5, TrimSolid
<1>7. Form!ValueOf(more) = said
  BY <1>1, <1>2, <1>3, <1>5, <1>6, Zenon DEF bare, said
<1>8. ~Form!StartsWith(text, "=") /\ Form!unquote(text) = text => said = text
  BY <1>4, Zenon DEF said
<1>9. QED
  BY <1>5, <1>7, <1>8, Zenon DEF more, said, bare

\* Nothing is the value of nothing.
LEMMA NoValue == Form!ValueOf(<<>>) = <<>>
<1> DEFINE none == <<>>
           marks == [i \in DOMAIN none |-> i > 1 /\ none[i] = "#" /\ none[i - 1] = " "]
           I == {i \in 1 .. Len(marks) : marks[i]}
           at == IF I # {} THEN Min(I) ELSE 0
<1>1. Solid(none) /\ none \in Form!Texts
  BY DEF Solid, Form!Texts
<1>2. Form!stripComment(none) = none
  <2>1. Form!stripComment(none) = IF at = 0 THEN none ELSE SubSeq(none, 1, at - 1)
    BY Zenon DEF Form!stripComment, Form!SelectInSeq, Form!Min, Min
  <2>2. DOMAIN marks = {} /\ DOMAIN none = {}
    OBVIOUS
  <2>3. I = {}
    <3>1. Len(marks) = 0
      BY <2>2
    <3> HIDE DEF marks
    <3>2. QED
      BY <3>1
  <2>4. at = 0
    BY <2>3
  <2> HIDE DEF at, none
  <2>5. QED
    BY <2>1, <2>4
<1>3. ~Form!StartsWith(none, "=") /\ Form!unquote(none) = none
  BY DEF Form!StartsWith, Form!unquote
<1> HIDE DEF none
<1>4. Form!Trim(none) = none /\ Form!Without(none, "=") = none
  BY <1>1, <1>3, TrimSolid, SolidParts
<1>5. Form!ValueOf(none) = none
  BY <1>2, <1>3, <1>4, Zenon DEF Form!ValueOf
<1>6. QED
  BY <1>5 DEF none

\* A character more makes one step of the words of a text.
LEMMA WordsMore ==
    ASSUME NEW text \in Form!Texts
    PROVE  /\ Words(text) \in Splits /\ Words(<<>>) = NoWords
           /\ \A c \in Form!Chars : Words(Append(text, c)) = Split(Words(text), c)
<1> DEFINE S == Splits
           E == Form!Chars
           base == NoWords
           g == SplitStep
           none == <<>>
<1>1. base \in S /\ g \in [S \X E -> S] /\ text \in Seq(E) /\ none \in Seq(E)
  BY SplitTyped DEF Form!Texts
<1>2. \A c \in E : Append(text, c) \in Seq(E)
  BY <1>1
<1>3. \A x \in S, c \in E : g[<<x, c>>] = Split(x, c)
  BY DEF SplitStep
<1>4. \A s \in Seq(E) : Words(s) = Traced(S, g, base, s)
  BY WordsAre
<1> HIDE DEF S, E, base, g, none
<1>5. FoldsOn(S, E, g, base, text)
  BY <1>1, TracedIs
<1>6. Words(text) \in S /\ Words(none) = base
  BY <1>1, <1>4, <1>5 DEF FoldsOn, none
<1>7. \A c \in E : Words(Append(text, c)) = Split(Words(text), c)
  BY <1>1, <1>2, <1>3, <1>4, <1>5, <1>6 DEF FoldsOn
<1>8. QED
  BY <1>6, <1>7 DEF S, E, base, none

\* And one of its parts.
LEMMA PartsMore ==
    ASSUME NEW text \in Form!Texts, NEW separators
    PROVE  /\ Form!Parts(text, separators) \in PartLists
           /\ Form!Parts(<<>>, separators) = << <<>> >>
           /\ \A c \in Form!Chars :
                 Form!Parts(Append(text, c), separators)
                   = IF c \in separators THEN Append(Form!Parts(text, separators), <<>>)
                     ELSE Grown(Form!Parts(text, separators), c)
<1> DEFINE S == PartLists
           E == Form!Chars
           base == << <<>> >>
           g == PartStep(separators)
           none == <<>>
           Of(s) == Form!Parts(s, separators)
           Longer(x, c) == IF c \in separators THEN Append(x, <<>>) ELSE Grown(x, c)
<1>1. base \in S /\ g \in [S \X E -> S] /\ text \in Seq(E) /\ none \in Seq(E)
  <2>1. base \in S /\ g \in [S \X E -> S]
    BY PartsTyped
  <2>2. text \in Seq(E) /\ none \in Seq(E)
    BY DEF Form!Texts
  <2>3. QED
    BY <2>1, <2>2
<1>2. \A c \in E : Append(text, c) \in Seq(E)
  BY <1>1
<1>3. \A x \in S, c \in E : g[<<x, c>>] = Longer(x, c)
  BY DEF PartStep
<1>4. \A s \in Seq(E) : Of(s) = Traced(S, g, base, s)
  BY PartsIs
<1> HIDE DEF S, E, base, g, none, Of, Longer
<1>5. FoldsOn(S, E, g, base, text)
  BY <1>1, TracedIs
<1>6. Of(text) \in S /\ Of(none) = base
  BY <1>1, <1>4, <1>5 DEF FoldsOn, none
<1>7. \A c \in E : Of(Append(text, c)) = Longer(Of(text), c)
  BY <1>1, <1>2, <1>3, <1>4, <1>5, <1>6 DEF FoldsOn
<1>8. QED
  BY <1>6, <1>7, Zenon DEF S, E, base, none, Of, Longer

\* A part more is kept, unless it is empty.
LEMMA NotEmptyMore ==
    ASSUME NEW parts \in Seq(Form!Texts)
    PROVE  /\ Form!NotEmpty(parts) \in Seq(Form!Texts) /\ Form!NotEmpty(<<>>) = <<>>
           /\ \A p \in Form!Texts :
                 Form!NotEmpty(Append(parts, p)) = Kept(Form!NotEmpty(parts), p)
<1> DEFINE E == Form!Texts
           S == Seq(E)
           base == <<>>
           g == KeptStep
           none == <<>>
<1>1. base \in S /\ g \in [S \X E -> S] /\ parts \in Seq(E) /\ none \in Seq(E)
  BY KeptTyped
<1>2. \A c \in E : Append(parts, c) \in Seq(E)
  BY <1>1
<1>3. \A x \in S, c \in E : g[<<x, c>>] = Kept(x, c)
  BY DEF KeptStep
<1>4. \A s \in Seq(E) : Form!NotEmpty(s) = Traced(S, g, base, s)
  BY NotEmptyIs
<1> HIDE DEF S, E, base, g, none
<1>5. FoldsOn(S, E, g, base, parts)
  BY <1>1, TracedIs
<1>6. Form!NotEmpty(parts) \in S /\ Form!NotEmpty(none) = base
  BY <1>1, <1>4, <1>5 DEF FoldsOn, none
<1>7. \A c \in E : Form!NotEmpty(Append(parts, c)) = Kept(Form!NotEmpty(parts), c)
  BY <1>1, <1>2, <1>3, <1>4, <1>5, <1>6 DEF FoldsOn
<1>8. QED
  BY <1>6, <1>7 DEF S, E, base, none

\* A tag more is written behind the others.
LEMMA TagTextMore ==
    ASSUME NEW tags \in Seq(Form!Texts)
    PROVE  /\ Form!TagText(tags) \in Form!Texts /\ Form!TagText(<<>>) = <<>>
           /\ \A t \in Form!Texts :
                 Form!TagText(Append(tags, t)) = Joined(Form!TagText(tags), t)
<1> DEFINE E == Form!Texts
           S == Form!Texts
           base == <<>>
           g == JoinStep
           none == <<>>
<1>1. base \in S /\ g \in [S \X E -> S] /\ tags \in Seq(E) /\ none \in Seq(E)
  BY JoinTyped
<1>2. \A c \in E : Append(tags, c) \in Seq(E)
  BY <1>1
<1>3. \A x \in S, c \in E : g[<<x, c>>] = Joined(x, c)
  BY DEF JoinStep
<1>4. \A s \in Seq(E) : Form!TagText(s) = Traced(S, g, base, s)
  BY TagTextIs
<1> HIDE DEF S, E, base, g, none
<1>5. FoldsOn(S, E, g, base, tags)
  BY <1>1, TracedIs
<1>6. Form!TagText(tags) \in S /\ Form!TagText(none) = base
  BY <1>1, <1>4, <1>5 DEF FoldsOn, none
<1>7. \A c \in E : Form!TagText(Append(tags, c)) = Joined(Form!TagText(tags), c)
  BY <1>1, <1>2, <1>3, <1>4, <1>5, <1>6 DEF FoldsOn
<1>8. QED
  BY <1>6, <1>7 DEF S, E, base, none

-----------------------------------------------------------------------------
(* What is read of the texts that the form writes.                         *)

Quote == "\""

\* A character more of one part.
LEMMA GrownOne ==
    ASSUME NEW parts \in PartLists, Len(parts) = 1, NEW c \in Form!Chars
    PROVE  /\ Len(Grown(parts, c)) = 1
           /\ \A text \in Form!Texts : parts = <<text>> => Grown(parts, c) = <<Append(text, c)>>
<1> DEFINE last == Append(Form!Last(parts), c)
<1>1. parts \in Seq(Form!Texts)
  BY DEF PartLists
<1>2. Form!Front(parts) = <<>> /\ Form!Last(parts) = parts[1]
  BY <1>1 DEF Form!Front, Form!Last
<1>3. Grown(parts, c) = Append(<<>>, last)
  BY <1>2, Zenon DEF Grown
<1>4. Append(<<>>, last) = <<last>> /\ Len(<<last>>) = 1
  <2> HIDE DEF last
  <2>1. QED
    OBVIOUS
<1>5. ASSUME NEW text \in Form!Texts, parts = <<text>> PROVE last = Append(text, c)
  <2>1. parts[1] = text
    BY <1>5
  <2>2. QED
    BY <1>2, <2>1, Zenon
<1> HIDE DEF last
<1>6. QED
  BY <1>3, <1>4, <1>5

\* A text without spaces is a word at most, and the text itself where it has no quote.
LEMMA WordOfSolid ==
    ASSUME NEW text, Solid(text)
    PROVE  /\ Words(text).words \in PartLists /\ Len(Words(text).words) = 1
           /\ (\A i \in 1 .. Len(text) : text[i] # Quote) => Words(text).words = <<text>>
<1> DEFINE n == Len(text)
           W(k) == Words(SubSeq(text, 1, k))
           Whole == \A i \in 1 .. n : text[i] # Quote
           Good(k) == /\ W(k) \in Splits /\ Len(W(k).words) = 1
                      /\ Whole => W(k).words = <<SubSeq(text, 1, k)>>
           T == {k \in Nat : k <= n => Good(k)}
<1>1. text \in Seq(Form!Chars) /\ n \in Nat /\ \A i \in 1 .. n : text[i] # Space
  BY DEF Solid, Form!Texts
<1>2. 0 \in T
  <2> DEFINE none == <<>>
             base == << <<>> >>
  <2>1. SubSeq(text, 1, 0) = none /\ none \in Form!Texts
    BY <1>1 DEF Form!Texts
  <2>2. W(0) = NoWords /\ NoWords \in Splits
    BY <2>1, WordsMore
  <2>3. NoWords.words = base
    BY DEF NoWords
  <2>4. Len(base) = 1 /\ base = <<none>>
    OBVIOUS
  <2> HIDE DEF W, base, none, Whole
  <2>5. Good(0)
    BY <2>1, <2>2, <2>3, <2>4
  <2>6. QED
    BY <2>5
<1>3. ASSUME NEW k \in Nat, k \in T PROVE k + 1 \in T
  <2> SUFFICES ASSUME k + 1 <= n PROVE Good(k + 1)
    OBVIOUS
  <2> DEFINE i == k + 1
             above == SubSeq(text, 1, i - 1)
             c == text[i]
             s == Words(above)
             t == Split(s, c)
  <2>1. i \in 1 .. n /\ i - 1 = k /\ k <= n
    BY <1>1
  <2>2. above \in Seq(Form!Chars) /\ c \in Form!Chars /\ SubSeq(text, 1, i) = Append(above, c)
    BY <1>1, <2>1, OneMore
  <2>3. Good(k)
    BY <1>3, <2>1
  <2>4. c # Space /\ (Whole => c # Quote)
    BY <1>1, <2>1
  <2> HIDE DEF i, above, c, n
  <2>5. /\ s \in Splits /\ Len(s.words) = 1 /\ (Whole => s.words = <<above>>)
    BY <2>1, <2>3 DEF above
  <2>6. W(i) = t
    BY <2>2, WordsMore DEF Form!Texts
  <2> HIDE DEF s, W, Whole
  <2>7. /\ t \in Splits
        /\ t.words = s.words \/ t.words = Grown(s.words, c)
        /\ c # Quote => t.words = Grown(s.words, c)
    BY <2>2, <2>4, <2>5, SplitIs, Zenon DEF Space, Quote
  <2>8. s.words \in PartLists
    BY <2>5 DEF Splits
  <2> HIDE DEF t
  <2> DEFINE w == s.words
  <2>9. /\ Len(Grown(w, c)) = 1
        /\ \A x \in Form!Texts : w = <<x>> => Grown(w, c) = <<Append(x, c)>>
    <3> HIDE DEF w
    <3>1. w \in PartLists /\ Len(w) = 1
      BY <2>5, <2>8 DEF w
    <3>2. QED
      BY <2>2, <3>1, GrownOne
  <2>10. above \in Form!Texts
    BY <2>2 DEF Form!Texts
  <2>11. Len(t.words) = 1 /\ (Whole => t.words = <<Append(above, c)>>)
    BY <2>4, <2>5, <2>7, <2>9, <2>10
  <2>12. Good(i)
    BY <2>2, <2>6, <2>7, <2>11
  <2>13. QED
    BY <2>12 DEF i
<1> HIDE DEF T
<1>4. Nat \subseteq T
  BY <1>2, <1>3, AllNumbers
<1>5. n \in T /\ n <= n
  BY <1>1, <1>4
<1> HIDE DEF Good
<1>6. Good(n)
  BY <1>5 DEF T
<1>7. SubSeq(text, 1, n) = text
  BY <1>1
<1>8. Words(text).words \in PartLists
  BY <1>6, <1>7 DEF Good, Splits
<1>9. QED
  BY <1>6, <1>7, <1>8 DEF Good

\* One part is kept, or none.
LEMMA OneKept ==
    ASSUME NEW p \in Form!Texts
    PROVE  /\ Form!NotEmpty(<<p>>) \in Seq(Form!Texts) /\ Len(Form!NotEmpty(<<p>>)) <= 1
           /\ p # <<>> => Form!NotEmpty(<<p>>) = <<p>>
           /\ p = <<>> => Form!NotEmpty(<<p>>) = <<>>
<1> DEFINE none == <<>>
<1>1. none \in Seq(Form!Texts) /\ <<p>> = Append(none, p) /\ <<p>> \in Seq(Form!Texts)
  OBVIOUS
<1>2. Form!NotEmpty(none) = none
  BY <1>1, NotEmptyMore
<1>3. Form!NotEmpty(Append(none, p)) = Kept(Form!NotEmpty(none), p)
  BY <1>1, NotEmptyMore
<1>4. Form!NotEmpty(<<p>>) = Kept(none, p)
  BY <1>1, <1>2, <1>3, Zenon
<1>5. Kept(none, p) = IF p = <<>> THEN none ELSE <<p>>
  BY <1>1, Zenon DEF Kept
<1>6. CASE p = <<>>
  <2>1. Form!NotEmpty(<<p>>) = none
    BY <1>4, <1>5, <1>6, Zenon
  <2>2. QED
    BY <1>1, <1>6, <2>1
<1>7. CASE p # <<>>
  <2>1. Form!NotEmpty(<<p>>) = <<p>>
    BY <1>4, <1>5, <1>7, Zenon
  <2> DEFINE single == <<p>>
             got == Form!NotEmpty(single)
  <2>2. Len(single) = 1 /\ single \in Seq(Form!Texts) /\ got = single
    BY <2>1
  <2> HIDE DEF single, got
  <2>3. got \in Seq(Form!Texts) /\ Len(got) <= 1
    <3>1. got \in Seq(Form!Texts) /\ Len(got) = 1
      BY <2>2, Zenon
    <3>2. QED
      BY <3>1
  <2>4. QED
    BY <1>7, <2>1, <2>3, Zenon DEF got, single
<1>8. QED
  BY <1>6, <1>7

\* What a line of one word is read as.
LEMMA FieldOfSolid ==
    ASSUME NEW text, Solid(text)
    PROVE  /\ Form!splitFields(text) \in Seq(Form!Texts) /\ Len(Form!splitFields(text)) <= 1
           /\ text # <<>> /\ (\A i \in 1 .. Len(text) : text[i] # Quote) =>
                 Form!splitFields(text) = <<text>>
<1> DEFINE w == Words(text).words
<1>1. /\ w \in PartLists /\ Len(w) = 1
      /\ (\A i \in 1 .. Len(text) : text[i] # Quote) => w = <<text>>
  BY WordOfSolid
<1>2. Form!splitFields(text) = Form!NotEmpty(w)
  BY FieldsAre
<1> HIDE DEF w
<1>3. w = <<w[1]>> /\ w[1] \in Form!Texts
  BY <1>1 DEF PartLists
<1>4. /\ Form!NotEmpty(<<w[1]>>) \in Seq(Form!Texts) /\ Len(Form!NotEmpty(<<w[1]>>)) <= 1
      /\ w[1] # <<>> => Form!NotEmpty(<<w[1]>>) = <<w[1]>>
  BY <1>3, OneKept
<1>5. QED
  BY <1>1, <1>2, <1>3, <1>4

\* Where no part is empty, all are kept.
LEMMA AllKept ==
    ASSUME NEW parts \in Seq(Form!Texts), \A i \in 1 .. Len(parts) : parts[i] # <<>>
    PROVE  Form!NotEmpty(parts) = parts
<1> DEFINE n == Len(parts)
           To(k) == SubSeq(parts, 1, k)
           T == {k \in Nat : k <= n => Form!NotEmpty(To(k)) = To(k)}
<1>1. n \in Nat /\ To(0) = <<>> /\ To(n) = parts
  BY AllOfThem
<1>2. 0 \in T
  <2>1. Form!NotEmpty(<<>>) = <<>>
    BY NotEmptyMore
  <2> HIDE DEF To
  <2>2. QED
    BY <1>1, <2>1
<1>3. ASSUME NEW k \in Nat, k \in T PROVE k + 1 \in T
  <2> SUFFICES ASSUME k + 1 <= n PROVE Form!NotEmpty(To(k + 1)) = To(k + 1)
    OBVIOUS
  <2> DEFINE i == k + 1
             p == parts[i]
  <2>1. i \in 1 .. n /\ i - 1 = k /\ k <= n
    BY <1>1
  <2>2. To(i - 1) \in Seq(Form!Texts) /\ p \in Form!Texts /\ To(i) = Append(To(i - 1), p) /\ p # <<>>
    BY <2>1, OneMore
  <2> HIDE DEF i, p, To, n
  <2>3. Form!NotEmpty(Append(To(i - 1), p)) = Kept(Form!NotEmpty(To(i - 1)), p)
    BY <2>2, NotEmptyMore
  <2>4. Form!NotEmpty(To(i - 1)) = To(i - 1)
    BY <1>3, <2>1
  <2>5. QED
    BY <2>2, <2>3, <2>4, Zenon DEF Kept, i
<1> HIDE DEF T
<1>4. Nat \subseteq T
  BY <1>2, <1>3, AllNumbers
<1>5. n \in T /\ n <= n
  BY <1>1, <1>4
<1> HIDE DEF To
<1>6. Form!NotEmpty(To(n)) = To(n)
  BY <1>5 DEF T
<1>7. QED
  BY <1>1, <1>6

\* What is kept is not empty.
LEMMA NoneEmpty ==
    ASSUME NEW parts \in Seq(Form!Texts)
    PROVE  \A i \in 1 .. Len(Form!NotEmpty(parts)) : Form!NotEmpty(parts)[i] # <<>>
<1> DEFINE n == Len(parts)
           To(k) == SubSeq(parts, 1, k)
           Full(s) == \A i \in 1 .. Len(s) : s[i] # <<>>
           T == {k \in Nat : k <= n => Full(Form!NotEmpty(To(k)))}
<1>1. n \in Nat /\ To(0) = <<>> /\ To(n) = parts
  BY AllOfThem
<1>2. 0 \in T
  <2>1. Form!NotEmpty(<<>>) = <<>> /\ Full(<<>>)
    BY NotEmptyMore
  <2> HIDE DEF To, Full
  <2>2. QED
    BY <1>1, <2>1
<1>3. ASSUME NEW k \in Nat, k \in T PROVE k + 1 \in T
  <2> SUFFICES ASSUME k + 1 <= n PROVE Full(Form!NotEmpty(To(k + 1)))
    OBVIOUS
  <2> DEFINE i == k + 1
             p == parts[i]
             kept == Form!NotEmpty(To(i - 1))
  <2>1. i \in 1 .. n /\ i - 1 = k /\ k <= n
    BY <1>1
  <2>2. To(i - 1) \in Seq(Form!Texts) /\ p \in Form!Texts /\ To(i) = Append(To(i - 1), p)
    BY <2>1, OneMore
  <2> HIDE DEF i, p, To, n, Full
  <2>3. Form!NotEmpty(To(i)) = Kept(kept, p) /\ kept \in Seq(Form!Texts)
    BY <2>2, NotEmptyMore
  <2>4. Full(kept)
    BY <1>3, <2>1
  <2> HIDE DEF kept
  <2>5. p # <<>> => Full(Append(kept, p))
    <3> SUFFICES ASSUME p # <<>> PROVE Full(Append(kept, p))
      OBVIOUS
    <3> DEFINE more == Append(kept, p)
    <3>1. /\ Len(more) = Len(kept) + 1 /\ Len(kept) \in Nat /\ more[Len(kept) + 1] = p
          /\ \A j \in 1 .. Len(kept) : more[j] = kept[j]
      BY <2>2, <2>3
    <3> HIDE DEF more
    <3>2. Full(more)
      <4> SUFFICES ASSUME NEW j \in 1 .. Len(more) PROVE more[j] # <<>>
        BY DEF Full
      <4>1. CASE j = Len(kept) + 1
        BY <3>1, <4>1
      <4>2. CASE j \in 1 .. Len(kept)
        <5>1. kept[j] # <<>>
          BY <2>4, <4>2 DEF Full
        <5>2. QED
          BY <3>1, <4>2, <5>1
      <4>3. QED
        BY <3>1, <4>1, <4>2
    <3>3. QED
      BY <3>2 DEF more
  <2>6. Full(Form!NotEmpty(To(i)))
    BY <2>3, <2>4, <2>5, Zenon DEF Kept
  <2>7. QED
    BY <2>6 DEF i
<1> HIDE DEF T
<1>4. Nat \subseteq T
  BY <1>2, <1>3, AllNumbers
<1>5. n \in T /\ n <= n
  BY <1>1, <1>4
<1> HIDE DEF To, Full
<1>6. Full(Form!NotEmpty(To(n)))
  BY <1>5 DEF T
<1>7. QED
  BY <1>1, <1>6 DEF Full

\* Appending to a sequence behind another.
LEMMA AppendBehind ==
    ASSUME NEW a \in Seq(Form!Chars), NEW b \in Seq(Form!Chars), NEW c \in Form!Chars
    PROVE  Append(a \o b, c) = a \o Append(b, c)
<1>1. a \o b \in Seq(Form!Chars) /\ Len(a \o b) = Len(a) + Len(b)
  OBVIOUS
<1>2. Append(b, c) \in Seq(Form!Chars) /\ Len(Append(b, c)) = Len(b) + 1
  OBVIOUS
<1> DEFINE ab == a \o b
           bc == Append(b, c)
           left == Append(ab, c)
           right == a \o bc
<1>3. Len(a) \in Nat /\ Len(b) \in Nat
  OBVIOUS
<1>4. left \in Seq(Form!Chars) /\ right \in Seq(Form!Chars) /\ Len(left) = Len(a) + Len(b) + 1 /\ Len(right) = Len(left)
  BY <1>1, <1>2, <1>3
<1>5. \A i \in 1 .. Len(left) : left[i] = right[i]
  <2> SUFFICES ASSUME NEW i \in 1 .. Len(left) PROVE left[i] = right[i]
    OBVIOUS
  <2>1. CASE i <= Len(a)
    <3>1. left[i] = ab[i]
      BY <1>1, <1>3, <1>4, <2>1
    <3>2. ab[i] = a[i] /\ right[i] = a[i]
      BY <1>1, <1>2, <1>3, <1>4, <2>1
    <3>3. QED
      BY <3>1, <3>2
  <2>2. CASE i > Len(a) /\ i <= Len(a) + Len(b)
    <3>1. left[i] = ab[i]
      BY <1>1, <1>3, <1>4, <2>2
    <3>2. ab[i] = b[i - Len(a)] /\ right[i] = bc[i - Len(a)]
      BY <1>1, <1>2, <1>3, <1>4, <2>2
    <3>3. bc[i - Len(a)] = b[i - Len(a)]
      BY <1>2, <1>3, <2>2
    <3>4. QED
      BY <3>1, <3>2, <3>3
  <2>3. CASE i = Len(a) + Len(b) + 1
    <3>1. left[i] = c
      BY <1>1, <1>3, <1>4, <2>3
    <3>2. right[i] = bc[Len(b) + 1]
      BY <1>1, <1>2, <1>3, <1>4, <2>3
    <3>3. bc[Len(b) + 1] = c
      BY <1>2, <1>3
    <3>4. QED
      BY <3>1, <3>2, <3>3
  <2>4. QED
    BY <1>3, <1>4, <2>1, <2>2, <2>3
<1> HIDE DEF left, right
<1>6. left = right
  BY <1>4, <1>5
<1>7. QED
  BY <1>6 DEF left, right

\* A text without separators belongs to the last part of what is before it.
LEMMA PartsJoin ==
    ASSUME NEW x \in Form!Texts, NEW t \in Form!Texts, NEW separators,
           \A i \in 1 .. Len(t) : t[i] \notin separators
    PROVE  LET parts == Form!Parts(x, separators)
           IN  Form!Parts(x \o t, separators)
                 = Append(Form!Front(parts), Form!Last(parts) \o t)
<1> DEFINE n == Len(t)
           parts == Form!Parts(x, separators)
           front == Form!Front(parts)
           last == Form!Last(parts)
           To(k) == SubSeq(t, 1, k)
           Good(k) == Form!Parts(x \o To(k), separators) = Append(front, last \o To(k))
           T == {k \in Nat : k <= n => Good(k)}
<1>1. x \in Seq(Form!Chars) /\ t \in Seq(Form!Chars) /\ n \in Nat
  BY DEF Form!Texts
<1>2. parts \in PartLists
  BY PartsMore
<1>3. front \in Seq(Form!Texts) /\ last \in Seq(Form!Chars)
  <2> HIDE DEF parts
  <2>1. \A c \in Form!Chars : front \in Seq(Form!Texts) /\ last \in Form!Texts
    BY <1>2, GrownTyped
  <2>2. Space \in Form!Chars
    BY Zenon DEF Space, Form!Chars
  <2>3. QED
    BY <2>1, <2>2 DEF Form!Texts
<1>4. Append(front, last) = parts
  <2> HIDE DEF parts
  <2>1. parts \in Seq(Form!Texts) /\ parts # <<>>
    BY <1>2 DEF PartLists
  <2>2. QED
    BY <2>1 DEF Form!Front, Form!Last
<1>5. 0 \in T
  <2>1. To(0) = <<>> /\ x \o <<>> = x
    BY <1>1
  <2> HIDE DEF last
  <2>2. last \o <<>> = last
    BY <1>3
  <2> HIDE DEF front, parts, To
  <2>3. Good(0)
    BY <1>4, <2>1, <2>2, Zenon DEF parts
  <2>4. QED
    BY <2>3
<1>6. ASSUME NEW k \in Nat, k \in T PROVE k + 1 \in T
  <2> SUFFICES ASSUME k + 1 <= n PROVE Good(k + 1)
    OBVIOUS
  <2> DEFINE i == k + 1
             c == t[i]
             u == To(i - 1)
             before == Form!Parts(x \o u, separators)
  <2>1. i \in 1 .. n /\ i - 1 = k /\ k <= n
    BY <1>1
  <2>2. u \in Seq(Form!Chars) /\ c \in Form!Chars /\ To(i) = Append(u, c) /\ c \notin separators
    BY <1>1, <2>1, OneMore
  <2>3. Good(i - 1)
    BY <1>6, <2>1
  <2> HIDE DEF i, c, u, n, To, front, last, parts
  <2>4. x \o Append(u, c) = Append(x \o u, c) /\ x \o u \in Form!Texts
    BY <1>1, <2>2 DEF Form!Texts
  <2>5. Form!Parts(Append(x \o u, c), separators) = Grown(before, c)
    BY <2>2, <2>4, PartsMore
  <2>6. before = Append(front, last \o u)
    BY <2>3 DEF u
  <2>7. Form!Front(before) = front /\ Form!Last(before) = last \o u
    <3> DEFINE text == last \o u
    <3>1. text \in Form!Texts
      BY <1>3, <2>2 DEF Form!Texts
    <3> HIDE DEF text, before
    <3>2. before = Append(front, text)
      BY <2>6 DEF text
    <3>3. QED
      BY <1>3, <3>1, <3>2 DEF Form!Front, Form!Last, text
  <2>8. Append(last \o u, c) = last \o Append(u, c)
    <3>1. last \in Seq(Form!Chars) /\ u \in Seq(Form!Chars) /\ c \in Form!Chars
      BY <1>3, <2>2
    <3>2. QED
      BY <3>1, AppendBehind, Zenon
  <2> HIDE DEF before
  <2>9. Grown(before, c) = Append(front, last \o Append(u, c))
    BY <2>7, <2>8, Zenon DEF Grown
  <2>10. Good(i)
    BY <2>2, <2>4, <2>5, <2>9, Zenon
  <2>11. QED
    BY <2>10 DEF i
<1> HIDE DEF T
<1>7. Nat \subseteq T
  BY <1>5, <1>6, AllNumbers
<1>8. n \in T /\ n <= n
  BY <1>1, <1>7
<1> HIDE DEF Good
<1>9. Good(n)
  BY <1>8 DEF T
<1>10. To(n) = t
  BY <1>1
<1>11. QED
  BY <1>9, <1>10, Zenon DEF Good, front, last, parts

-----------------------------------------------------------------------------
(* Tags, written and read.                                                 *)

Comma == ","

Commas == {","}

\* A tag behind its space.
Marked(t) == <<Space>> \o t

\* A comma is not a space, and no tag becomes one.
LEMMA CommasAre ==
    /\ Space \in Form!Chars /\ Comma \in Form!Chars /\ Comma # Space /\ Comma \in Commas
    /\ \A c : c # Comma => c \notin Commas
  BY Zenon DEF Comma, Commas, Space, Form!Chars

\* The space before a tag is part of it.
LEMMA MarkedIs ==
    ASSUME NEW t \in Form!Texts
    PROVE  /\ Marked(t) \in Form!Texts /\ Marked(t) # <<>>
           /\ (\A i \in 1 .. Len(t) : t[i] # Comma) =>
                 \A i \in 1 .. Len(Marked(t)) : Marked(t)[i] \notin Commas
<1> DEFINE u == <<Space>> \o t
           n == Len(t)
<1>1. t \in Seq(Form!Chars) /\ n \in Nat
  BY DEF Form!Texts
<1>2. u \in Seq(Form!Chars) /\ Len(u) = n + 1 /\ u[1] = Space /\ \A i \in 2 .. (n + 1) : u[i] = t[i - 1]
  BY <1>1, CommasAre
<1> HIDE DEF u
<1>3. u \in Form!Texts /\ u # <<>>
  BY <1>1, <1>2 DEF Form!Texts
<1>4. ASSUME \A i \in 1 .. n : t[i] # Comma, NEW i \in 1 .. Len(u) PROVE u[i] \notin Commas
  <2>1. CASE i = 1
    BY <1>2, <2>1, CommasAre
  <2>2. CASE i # 1
    <3>1. i \in 2 .. (n + 1) /\ i - 1 \in 1 .. n
      BY <1>1, <1>2, <2>2
    <3> DEFINE c == t[i - 1]
    <3>2. u[i] = c /\ c # Comma
      BY <1>2, <1>4, <3>1
    <3> HIDE DEF c
    <3>3. QED
      BY <3>2, CommasAre
  <2>3. QED
    BY <2>1, <2>2
<1>5. QED
  BY <1>3, <1>4 DEF Marked, u

\* What a tag adds to the text of the tags is a part of its own.
LEMMA JoinedParts ==
    ASSUME NEW text \in Form!Texts, NEW t \in Form!Texts, \A i \in 1 .. Len(t) : t[i] # Comma
    PROVE  /\ Joined(text, t) # <<>>
           /\ text = <<>> => Form!Parts(Joined(text, t), Commas) = <<Marked(t)>>
           /\ text # <<>> => Form!Parts(Joined(text, t), Commas)
                               = Append(Form!Parts(text, Commas), Marked(t))
<1> DEFINE u == Marked(t)
           none == <<>>
           wide == Append(text, Comma)
           s == Space
           c == Comma
<1>1. /\ u \in Seq(Form!Chars) /\ u \in Form!Texts /\ u # none
      /\ \A i \in 1 .. Len(u) : u[i] \notin Commas
  BY MarkedIs DEF Form!Texts
<1>2. text \in Seq(Form!Chars) /\ t \in Seq(Form!Chars) /\ s \in Form!Chars /\ c \in Form!Chars
  BY CommasAre DEF Form!Texts
<1>3. Joined(text, t) = text \o (IF text = <<>> THEN <<s>> ELSE <<c, s>>) \o t
  BY Zenon DEF Joined, Space, Comma
<1>4. u = <<s>> \o t
  BY DEF Marked
<1>5. CASE text = none
  <2> HIDE DEF s, c, u
  <2>1. (none \o <<s>>) \o t = <<s>> \o t
    BY <1>2
  <2>2. Joined(text, t) = u
    BY <1>3, <1>4, <1>5, <2>1, Zenon
  <2>3. none \o u = u /\ none \in Form!Texts
    BY <1>1 DEF Form!Texts
  <2>4. Form!Parts(none, Commas) = << <<>> >>
    BY <2>3, PartsMore
  <2> DEFINE parts == Form!Parts(none, Commas)
  <2>5. Form!Parts(none \o u, Commas) = Append(Form!Front(parts), Form!Last(parts) \o u)
    BY <1>1, <2>3, PartsJoin, Zenon
  <2>6. Form!Front(<< <<>> >>) = <<>> /\ Form!Last(<< <<>> >>) \o u = u
    BY <1>1 DEF Form!Front, Form!Last
  <2>7. Append(<<>>, u) = <<u>>
    OBVIOUS
  <2>8. Form!Parts(u, Commas) = <<u>>
    BY <2>3, <2>4, <2>5, <2>6, <2>7, Zenon
  <2>9. QED
    BY <1>1, <1>5, <2>2, <2>8, Zenon DEF u
<1>6. CASE text # none
  <2> HIDE DEF s, c, u
  <2>1. (text \o <<c, s>>) \o t = wide \o (<<s>> \o t)
    <3>1. text \o <<c, s>> = Append(text, c) \o <<s>>
      <4> DEFINE one == <<c>>
                 w == Append(text, c)
      <4>1. one \in Seq(Form!Chars) /\ <<c, s>> = Append(one, s) /\ text \o one = w /\ w \in Seq(Form!Chars)
        BY <1>2
      <4> HIDE DEF one, w
      <4>2. Append(text \o one, s) = text \o Append(one, s)
        BY <1>2, <4>1, AppendBehind
      <4>3. Append(w, s) = w \o <<s>>
        BY <1>2, <4>1
      <4>4. QED
        BY <4>1, <4>2, <4>3, Zenon DEF w
    <3> DEFINE w == Append(text, c)
    <3>2. w \in Seq(Form!Chars) /\ <<s>> \in Seq(Form!Chars)
      BY <1>2
    <3> HIDE DEF w
    <3>3. (w \o <<s>>) \o t = w \o (<<s>> \o t)
      BY <1>2, <3>2
    <3>4. QED
      BY <3>1, <3>3, Zenon DEF w, c
  <2>2. Joined(text, t) = wide \o u
    BY <1>3, <1>4, <1>6, <2>1, Zenon
  <2>3. wide \in Form!Texts
    <3>1. Append(text, c) \in Seq(Form!Chars)
      BY <1>2
    <3>2. QED
      BY <3>1 DEF Form!Texts, c
  <2> DEFINE parts == Form!Parts(text, Commas)
             more == Form!Parts(wide, Commas)
  <2>4. more = Append(parts, <<>>) /\ parts \in PartLists
    BY CommasAre, PartsMore, Zenon
  <2>5. Form!Parts(wide \o u, Commas) = Append(Form!Front(more), Form!Last(more) \o u)
    BY <1>1, <2>3, PartsJoin, Zenon
  <2> HIDE DEF parts, more
  <2>6. Form!Front(Append(parts, <<>>)) = parts /\ Form!Last(Append(parts, <<>>)) = <<>>
    <3>1. parts \in Seq(Form!Texts) /\ none \in Form!Texts
      BY <2>4 DEF PartLists, Form!Texts
    <3> HIDE DEF none
    <3>2. Form!Front(Append(parts, none)) = parts /\ Form!Last(Append(parts, none)) = none
      BY <3>1 DEF Form!Front, Form!Last
    <3>3. QED
      BY <3>2 DEF none
  <2>7. <<>> \o u = u
    BY <1>1
  <2>8. Form!Parts(wide \o u, Commas) = Append(parts, u)
    BY <2>4, <2>5, <2>6, <2>7, Zenon
  <2>9. wide \o u # none
    <3>1. wide \in Seq(Form!Chars)
      BY <2>3 DEF Form!Texts
    <3> HIDE DEF wide
    <3>2. Len(wide \o u) = Len(wide) + Len(u) /\ Len(u) > 0 /\ Len(wide) \in Nat
      BY <1>1, <3>1
    <3>3. QED
      BY <3>2
  <2>10. QED
    BY <1>6, <2>2, <2>8, <2>9, Zenon DEF parts, u
<1>7. QED
  BY <1>5, <1>6

\* The tags of a host are the parts of the text they are written as.
LEMMA TagsWritten ==
    ASSUME NEW tags \in Seq(Form!Texts), tags # <<>>,
           \A i \in 1 .. Len(tags) : \A j \in 1 .. Len(tags[i]) : tags[i][j] # Comma
    PROVE  /\ Form!TagText(tags) \in Form!Texts
           /\ Form!Parts(Form!TagText(tags), Commas) = [i \in 1 .. Len(tags) |-> Marked(tags[i])]
<1> DEFINE n == Len(tags)
           To(k) == SubSeq(tags, 1, k)
           W(k) == Form!TagText(To(k))
           P(k) == Form!Parts(W(k), Commas)
           M(k) == [i \in 1 .. k |-> Marked(tags[i])]
           Good(k) == W(k) # <<>> /\ P(k) = M(k)
           T == {k \in Nat : k + 1 <= n => Good(k + 1)}
<1>1. n \in Nat /\ To(0) = <<>> /\ To(n) = tags /\ n > 0
  BY AllOfThem
<1>2. \A i \in 1 .. n : /\ tags[i] \in Form!Texts /\ Marked(tags[i]) \in Form!Texts
                        /\ \A j \in 1 .. Len(tags[i]) : tags[i][j] # Comma
  BY MarkedIs
<1>3. ASSUME NEW i \in 1 .. n
      PROVE  W(i) = Joined(W(i - 1), tags[i]) /\ W(i - 1) \in Form!Texts
  <2> DEFINE before == To(i - 1)
             t == tags[i]
  <2>1. before \in Seq(Form!Texts) /\ t \in Form!Texts /\ To(i) = Append(before, t)
    BY OneMore
  <2> HIDE DEF before, t, To
  <2>2. Form!TagText(Append(before, t)) = Joined(Form!TagText(before), t)
        /\ Form!TagText(before) \in Form!Texts
    BY <2>1, TagTextMore
  <2>3. QED
    BY <2>1, <2>2, Zenon DEF before, t
<1>4. 0 \in T
  <2> SUFFICES ASSUME 1 <= n PROVE Good(1)
    OBVIOUS
  <2>1. 1 \in 1 .. n /\ 1 - 1 = 0
    BY <1>1
  <2>2. W(0) = <<>>
    <3>1. Form!TagText(<<>>) = <<>>
      BY TagTextMore
    <3> HIDE DEF To
    <3>2. QED
      BY <1>1, <3>1
  <2> DEFINE t == tags[1]
             text == W(0)
  <2>3. t \in Form!Texts /\ \A j \in 1 .. Len(t) : t[j] # Comma
    BY <1>2, <2>1
  <2>4. W(1) = Joined(text, t) /\ text \in Form!Texts
    <3> HIDE DEF W
    <3>1. QED
      BY <1>3, <2>1
  <2> HIDE DEF W, t, text
  <2>5. Joined(text, t) # <<>> /\ Form!Parts(Joined(text, t), Commas) = <<Marked(t)>>
    BY <2>2, <2>3, <2>4, JoinedParts, Zenon DEF text
  <2>6. M(1) = <<Marked(t)>>
    BY DEF t
  <2>7. QED
    BY <2>4, <2>5, <2>6, Zenon DEF P
<1>5. ASSUME NEW k \in Nat, k \in T PROVE k + 1 \in T
  <2> SUFFICES ASSUME k + 1 + 1 <= n PROVE Good(k + 1 + 1)
    OBVIOUS
  <2> DEFINE l == k + 1
             i == l + 1
             t == tags[i]
             text == W(l)
  <2>1. i \in 1 .. n /\ i - 1 = l /\ l \in 1 .. n /\ l <= n
    BY <1>1
  <2>2. Good(l)
    BY <1>5, <2>1
  <2>3. t \in Form!Texts /\ \A j \in 1 .. Len(t) : t[j] # Comma
    BY <1>2, <2>1
  <2>4. W(i) = Joined(text, t) /\ text \in Form!Texts
    <3> HIDE DEF W
    <3>1. QED
      BY <1>3, <2>1
  <2>5. M(l) \in Seq(Form!Texts) /\ Len(M(l)) = l /\ M(i) = Append(M(l), Marked(t))
    <3> DEFINE small == M(l)
               big == M(i)
               last == Marked(t)
               more == Append(small, last)
    <3>1. \A j \in 1 .. n : Marked(tags[j]) \in Form!Texts
      BY <1>2
    <3>2. small \in Seq(Form!Texts) /\ Len(small) = l /\ \A j \in 1 .. l : small[j] = Marked(tags[j])
      BY <1>1, <2>1, <3>1
    <3>3. big \in Seq(Form!Texts) /\ Len(big) = i /\ \A j \in 1 .. i : big[j] = Marked(tags[j])
      BY <1>1, <2>1, <3>1
    <3>4. last \in Form!Texts /\ last = Marked(tags[i])
      BY <2>1, <3>1
    <3> HIDE DEF small, big, last
    <3>5. /\ more \in Seq(Form!Texts) /\ Len(more) = l + 1 /\ more[l + 1] = last
          /\ \A j \in 1 .. l : more[j] = small[j]
      BY <2>1, <3>2, <3>4
    <3> HIDE DEF more
    <3>6. big = more
      <4>1. Len(big) = Len(more) /\ Len(big) = l + 1 /\ l \in Nat
        BY <2>1, <3>3, <3>5
      <4>2. \A j \in 1 .. (l + 1) : big[j] = more[j]
        <5> SUFFICES ASSUME NEW j \in 1 .. (l + 1) PROVE big[j] = more[j]
          OBVIOUS
        <5>1. CASE j = l + 1
          BY <3>3, <3>4, <3>5, <5>1
        <5>2. CASE j \in 1 .. l
          BY <3>2, <3>3, <3>5, <5>2
        <5>3. QED
          BY <4>1, <5>1, <5>2
      <4>3. QED
        BY <3>3, <3>5, <4>1, <4>2
    <3>7. QED
      BY <3>2, <3>6 DEF small, big, more, last
  <2> HIDE DEF W, t, text, l, i, M
  <2>6. Joined(text, t) # <<>> /\ Form!Parts(Joined(text, t), Commas)
                                    = Append(Form!Parts(text, Commas), Marked(t))
    BY <2>2, <2>3, <2>4, JoinedParts, Zenon DEF text
  <2>7. Good(i)
    BY <2>2, <2>4, <2>5, <2>6, Zenon DEF text
  <2>8. QED
    BY <2>7 DEF i, l
<1> HIDE DEF T
<1>6. Nat \subseteq T
  BY <1>4, <1>5, AllNumbers
<1> HIDE DEF Good
<1>7. Good(n)
  <2>1. n - 1 \in T /\ (n - 1) + 1 = n
    BY <1>1, <1>6
  <2>2. QED
    BY <2>1, <1>1 DEF T
<1>8. W(n) = Form!TagText(tags)
  <2> HIDE DEF To
  <2>1. QED
    BY <1>1, Zenon
<1>9. Form!TagText(tags) \in Form!Texts
  BY TagTextMore
<1>10. QED
  BY <1>7, <1>8, <1>9, Zenon DEF Good

\* What is taken from a text is a text.
LEMMA TakenTyped ==
    ASSUME NEW text \in Form!Texts, NEW prefix
    PROVE  /\ Form!Without(text, prefix) \in Form!Texts /\ Form!unquote(text) \in Form!Texts
           /\ Form!stripComment(text) \in Form!Texts /\ Form!ValueOf(text) \in Form!Texts
<1>1. ASSUME NEW t \in Form!Texts, NEW p PROVE Form!Without(t, p) \in Form!Texts
  BY DEF Form!Without, Form!StartsWith, Form!Texts
<1>2. ASSUME NEW t \in Form!Texts PROVE Form!unquote(t) \in Form!Texts
  <2> DEFINE less == SubSeq(t, 2, Len(t) - 1)
  <2>1. Form!unquote(t) = t \/ (Len(t) >= 2 /\ Form!unquote(t) = less)
    BY Zenon DEF Form!unquote
  <2>2. Len(t) >= 2 => less \in Form!Texts
    BY DEF Form!Texts
  <2>3. QED
    BY <2>1, <2>2
<1>3. ASSUME NEW t \in Form!Texts PROVE Form!stripComment(t) \in Form!Texts
  <2> DEFINE n == Len(t)
             marks == [i \in DOMAIN t |-> i > 1 /\ t[i] = "#" /\ t[i - 1] = " "]
             I == {i \in 1 .. Len(marks) : marks[i]}
             at == IF I # {} THEN Min(I) ELSE 0
  <2>1. Form!stripComment(t) = IF at = 0 THEN t ELSE SubSeq(t, 1, at - 1)
    BY Zenon DEF Form!stripComment, Form!SelectInSeq, Form!Min, Min
  <2>2. t \in Seq(Form!Chars) /\ n \in Nat /\ DOMAIN t = 1 .. n
    BY DEF Form!Texts
  <2>3. Len(marks) = n
    <3> DEFINE mark(i) == i > 1 /\ t[i] = "#" /\ t[i - 1] = " "
    <3> HIDE DEF mark
    <3>1. Len([i \in 1 .. n |-> mark(i)]) = n
      BY <2>2
    <3>2. marks = [i \in 1 .. n |-> mark(i)]
      BY <2>2, Zenon DEF mark
    <3> HIDE DEF marks
    <3>3. QED
      BY <3>1, <3>2
  <2> HIDE DEF marks
  <2>4. I \in SUBSET (1 .. n)
    BY <2>3
  <2> HIDE DEF I
  <2>5. at # 0 => at \in 1 .. n
    BY <2>2, <2>4, FirstIs
  <2> HIDE DEF at
  <2>6. at # 0 => SubSeq(t, 1, at - 1) \in Seq(Form!Chars)
    BY <2>2, <2>5
  <2>7. QED
    BY <2>1, <2>2, <2>6 DEF Form!Texts
<1>4. ASSUME NEW t \in Form!Texts PROVE Form!ValueOf(t) \in Form!Texts
  <2> DEFINE a == Form!stripComment(t)
             b == Form!Trim(a)
             c == Form!Without(b, "=")
             d == Form!Trim(c)
             e == Form!unquote(d)
  <2>1. a \in Form!Texts
    BY <1>3
  <2>2. Form!ValueOf(t) = Form!Trim(e)
    BY Zenon DEF Form!ValueOf
  <2> HIDE DEF a
  <2>3. b \in Form!Texts
    BY <2>1, TrimIs
  <2> HIDE DEF b
  <2>4. c \in Form!Texts
    BY <2>3, <1>1
  <2> HIDE DEF c
  <2>5. d \in Form!Texts
    BY <2>4, TrimIs
  <2> HIDE DEF d
  <2>6. e \in Form!Texts
    BY <2>5, <1>2
  <2> HIDE DEF e
  <2>7. Form!Trim(e) \in Form!Texts
    BY <2>6, TrimIs
  <2>8. QED
    BY <2>2, <2>7
<1>5. QED
  BY <1>1, <1>2, <1>3, <1>4

\* A tag as it is read from its part.
TagOf(p) == Form!Trim(Form!Without(Form!Trim(p), "#"))

\* The tags read from a text are texts; those of a host are read as they were, unless
\* one begins with the sign of a comment.
LEMMA TagsReadIs ==
    /\ \A text \in Form!Texts : Form!TagsRead(text) \in Seq(Form!Texts)
    /\ Form!TagsRead(<<>>) = <<>>
    /\ \A tags \in Seq(Form!Texts) :
          /\ tags # <<>>
          /\ \A i \in 1 .. Len(tags) :
                /\ Solid(tags[i]) /\ tags[i] # <<>> /\ ~Form!StartsWith(tags[i], "#")
                /\ \A j \in 1 .. Len(tags[i]) : tags[i][j] # Comma
          => Form!TagsRead(Form!TagText(tags)) = tags
<1> DEFINE P(text) == Form!Parts(text, Commas)
           Told(parts) == [i \in DOMAIN parts |-> TagOf(parts[i])]
           none == <<>>
<1>1. \A text : Form!TagsRead(text) = Form!NotEmpty(Told(P(text)))
  BY Zenon DEF Form!TagsRead, TagOf, Commas
<1>2. ASSUME NEW p \in Form!Texts PROVE TagOf(p) \in Form!Texts
  <2> DEFINE a == Form!Trim(p)
             b == Form!Without(a, "#")
  <2>1. a \in Form!Texts
    BY TrimIs
  <2> HIDE DEF a
  <2>2. b \in Form!Texts
    BY <2>1, TakenTyped
  <2> HIDE DEF b
  <2>3. Form!Trim(b) \in Form!Texts
    BY <2>2, TrimIs
  <2>4. QED
    BY <2>3, Zenon DEF TagOf, a, b
<1>3. ASSUME NEW parts \in Seq(Form!Texts)
      PROVE  Told(parts) \in Seq(Form!Texts)
  BY <1>2
<1>4. ASSUME NEW text \in Form!Texts PROVE Form!TagsRead(text) \in Seq(Form!Texts)
  <2>1. P(text) \in Seq(Form!Texts)
    BY PartsMore DEF PartLists
  <2> DEFINE told == Told(P(text))
  <2>2. told \in Seq(Form!Texts)
    BY <1>3, <2>1
  <2> HIDE DEF told
  <2>3. Form!NotEmpty(told) \in Seq(Form!Texts)
    BY <2>2, NotEmptyMore
  <2>4. QED
    BY <1>1, <2>3, Zenon DEF told
<1>5. Form!TagsRead(none) = none
  <2>1. none \in Form!Texts
    BY DEF Form!Texts
  <2>2. P(none) = <<none>>
    BY <2>1, PartsMore
  <2>3. TagOf(none) = none
    <3>1. Solid(none) /\ ~Form!StartsWith(none, "#")
      BY <2>1 DEF Solid, Form!StartsWith
    <3> HIDE DEF none
    <3>2. Form!Trim(none) = none /\ Form!Without(none, "#") = none
      BY <3>1, TrimSolid, SolidParts
    <3>3. QED
      BY <3>2, Zenon DEF TagOf
  <2> HIDE DEF none
  <2>4. Told(<<none>>) = <<none>>
    BY <2>3
  <2>5. Form!NotEmpty(<<none>>) = none
    BY <2>1, OneKept DEF none
  <2>6. QED
    BY <1>1, <2>2, <2>4, <2>5, Zenon
<1>6. ASSUME NEW tags \in Seq(Form!Texts), tags # <<>>,
             \A i \in 1 .. Len(tags) :
                /\ Solid(tags[i]) /\ tags[i] # <<>> /\ ~Form!StartsWith(tags[i], "#")
                /\ \A j \in 1 .. Len(tags[i]) : tags[i][j] # Comma
      PROVE  Form!TagsRead(Form!TagText(tags)) = tags
  <2> DEFINE n == Len(tags)
             text == Form!TagText(tags)
             wide == [i \in 1 .. n |-> Marked(tags[i])]
  <2>1. text \in Form!Texts /\ P(text) = wide
    BY <1>6, TagsWritten
  <2>2. \A i \in 1 .. n : TagOf(Marked(tags[i])) = tags[i]
    <3> SUFFICES ASSUME NEW i \in 1 .. n PROVE TagOf(Marked(tags[i])) = tags[i]
      OBVIOUS
    <3> DEFINE t == tags[i]
    <3>1. Solid(t) /\ ~Form!StartsWith(t, "#")
      BY <1>6
    <3> HIDE DEF t
    <3>2. Form!Trim(<<Space>> \o t) = t /\ Form!Trim(t) = t /\ Form!Without(t, "#") = t
      BY <3>1, TrimSolid, SolidParts
    <3>3. TagOf(Marked(t)) = t
      BY <3>2, Zenon DEF TagOf, Marked
    <3>4. QED
      BY <3>3 DEF t
  <2>3. Told(wide) = tags
    <3> DEFINE told == Told(wide)
    <3>1. n \in Nat /\ DOMAIN wide = 1 .. n /\ \A i \in 1 .. n : wide[i] = Marked(tags[i])
      OBVIOUS
    <3> HIDE DEF wide
    <3>2. told = [i \in 1 .. n |-> tags[i]]
      BY <2>2, <3>1
    <3>3. tags = [i \in 1 .. n |-> tags[i]]
      OBVIOUS
    <3>4. QED
      BY <3>2, <3>3
  <2>4. Form!NotEmpty(tags) = tags
    BY <1>6, AllKept
  <2> HIDE DEF wide, text
  <2>5. QED
    BY <1>1, <2>1, <2>3, <2>4, Zenon DEF text
<1>7. QED
  BY <1>4, <1>5, <1>6, Zenon DEF none

-----------------------------------------------------------------------------
(* The lines of a host, and those that are read of them.                   *)

\* The line of a keyword is the first that has it.
LEMMA FirstLineIs ==
    ASSUME Len(block) \in Nat, NEW key
    PROVE  /\ (\A j \in 1 .. Len(block) : block[j].key # key) => Form!LineOf(key) = <<>>
           /\ \A i \in 1 .. Len(block) :
                 /\ block[i].key = key
                 /\ \A j \in 1 .. (i - 1) : block[j].key # key
                 => Form!LineOf(key) = block[i].text
<1> DEFINE n == Len(block)
           I == {i \in 1 .. n : block[i].key = key}
           at == IF I # {} THEN Min(I) ELSE 0
           none == <<>>
<1>1. Form!LineOf(key) = IF at = 0 THEN none ELSE block[at].text
  BY DEF Form!LineOf, Form!SelectInSeq, Form!Min, Min
<1>2. I \in SUBSET (1 .. n) /\ n \in Nat
  OBVIOUS
<1>3. /\ at = 0 => I = {}
      /\ at # 0 => at \in I /\ at \in 1 .. n /\ \A j \in I : at <= j
  <2> HIDE DEF n, I
  <2>1. QED
    BY <1>2, FirstIs
<1> HIDE DEF at, none
<1>4. ASSUME \A j \in 1 .. n : block[j].key # key PROVE Form!LineOf(key) = none
  <2>1. I = {}
    BY <1>4
  <2>2. at = 0
    BY <1>3, <2>1
  <2>3. QED
    BY <1>1, <2>2
<1>5. ASSUME NEW i \in 1 .. n, block[i].key = key, \A j \in 1 .. (i - 1) : block[j].key # key
      PROVE  Form!LineOf(key) = block[i].text
  <2>1. i \in I
    BY <1>5
  <2>2. at # 0
    BY <1>3, <2>1
  <2>3. at \in 1 .. n /\ at <= i /\ block[at].key = key
    BY <1>3, <2>1, <2>2
  <2>4. ~(at \in 1 .. (i - 1))
    BY <1>5, <2>3
  <2>5. at = i
    BY <1>2, <2>3, <2>4
  <2>6. QED
    BY <1>1, <2>2, <2>5
<1>6. QED
  BY <1>4, <1>5 DEF none

TagsLine == "# Tags:"

HostLine == "Host"

NameLine == "HostName"

HostLines == [key : {"# Tags:", "Host", "HostName"}, text : Form!Texts]

Described(h) == h.alias \in Form!Texts /\ h.host \in Form!Texts /\ h.tags \in Seq(Form!Texts)

\* Two lines, and three.
LEMMA FewLines ==
    ASSUME NEW S, NEW a \in S, NEW b \in S, NEW c \in S
    PROVE  /\ <<a>> \in Seq(S) /\ <<a, b>> \in Seq(S) /\ Append(<<a>>, b) = <<a, b>>
           /\ Append(<<b>>, c) = <<b, c>> /\ Append(<<a, b>>, c) = <<a, b, c>>
<1>1. <<a>> \in Seq(S) /\ <<a, b>> \in Seq(S) /\ <<b>> \in Seq(S) /\ <<b, c>> \in Seq(S)
      /\ <<a, b, c>> \in Seq(S)
  OBVIOUS
<1>2. ASSUME NEW x \in S, NEW y \in S PROVE Append(<<x>>, y) = <<x, y>>
  <2> DEFINE u == Append(<<x>>, y)
             v == <<x, y>>
  <2>1. u \in Seq(S) /\ Len(u) = 2 /\ u[1] = x /\ u[2] = y
    OBVIOUS
  <2>2. v \in Seq(S) /\ Len(v) = 2 /\ v[1] = x /\ v[2] = y
    OBVIOUS
  <2> HIDE DEF u, v
  <2>3. \A i \in 1 .. 2 : u[i] = v[i]
    BY <2>1, <2>2
  <2>4. u = v
    BY <2>1, <2>2, <2>3
  <2>5. QED
    BY <2>4 DEF u, v
<1>3. Append(<<a, b>>, c) = <<a, b, c>>
  <2> DEFINE w == <<a, b>>
             u == Append(w, c)
             v == <<a, b, c>>
  <2>1. w \in Seq(S) /\ Len(w) = 2 /\ w[1] = a /\ w[2] = b
    OBVIOUS
  <2>2. v \in Seq(S) /\ Len(v) = 3 /\ v[1] = a /\ v[2] = b /\ v[3] = c
    OBVIOUS
  <2> HIDE DEF w, v
  <2>3. u \in Seq(S) /\ Len(u) = 3 /\ u[1] = a /\ u[2] = b /\ u[3] = c
    <3>1. u \in Seq(S) /\ Len(u) = Len(w) + 1 /\ u[Len(w) + 1] = c /\ \A i \in 1 .. Len(w) : u[i] = w[i]
      <4>1. w \in Seq(S)
        BY <2>1
      <4>2. u \in Seq(S) /\ Len(u) = Len(w) + 1
        BY <4>1
      <4>3. u[Len(w) + 1] = c
        BY <4>1
      <4>4. \A i \in 1 .. Len(w) : u[i] = w[i]
        BY <4>1
      <4>5. QED
        BY <4>2, <4>3, <4>4
    <3> HIDE DEF u
    <3>2. u \in Seq(S) /\ Len(u) = 3 /\ u[3] = c
      BY <2>1, <3>1
    <3>3. 1 \in 1 .. Len(w) /\ 2 \in 1 .. Len(w)
      BY <2>1
    <3>4. QED
      BY <2>1, <3>1, <3>2, <3>3
  <2> HIDE DEF u
  <2>4. \A i \in 1 .. 3 : u[i] = v[i]
    BY <2>2, <2>3
  <2>5. u = v
    BY <2>2, <2>3, <2>4
  <2>6. QED
    BY <2>5 DEF u, v, w
<1>4. QED
  BY <1>1, <1>2, <1>3

\* The lines of a host are lines, and the first of each keyword says what was meant.
LEMMA LinesOf ==
    ASSUME NEW h, Described(h), block = Form!Block(h)
    PROVE  /\ block \in Seq(HostLines)
           /\ Form!LineOf("Host") = <<Space>> \o h.alias
           /\ Form!LineOf("HostName") = IF h.host = <<>> THEN <<>> ELSE <<Space>> \o h.host
           /\ Form!LineOf("# Tags:") = IF h.tags = <<>> THEN <<>> ELSE Form!TagText(h.tags)
<1> DEFINE kt == TagsLine
           kh == HostLine
           kn == NameLine
           ta == Form!TagText(h.tags)
           tb == <<Space>> \o h.alias
           tc == <<Space>> \o h.host
           a == [key |-> kt, text |-> ta]
           b == [key |-> kh, text |-> tb]
           c == [key |-> kn, text |-> tc]
           none == <<>>
           L(key) == Form!LineOf(key)
<1>1. kt # kh /\ kt # kn /\ kh # kn
  BY Zenon DEF TagsLine, HostLine, NameLine
<1>2. ta \in Form!Texts /\ tb \in Form!Texts /\ tc \in Form!Texts
  <2>1. tb = Marked(h.alias) /\ tc = Marked(h.host)
    BY DEF Marked
  <2>2. tb \in Form!Texts /\ tc \in Form!Texts
    BY <2>1, MarkedIs, Zenon DEF Described
  <2>3. ta \in Form!Texts
    BY TagTextMore DEF Described
  <2>4. QED
    BY <2>2, <2>3
<1>3. a \in HostLines /\ b \in HostLines /\ c \in HostLines
  <2> HIDE DEF kt, kh, kn, ta, tb, tc
  <2> DEFINE keys == {"# Tags:", "Host", "HostName"}
  <2>1. kt \in keys /\ kh \in keys /\ kn \in keys
    BY Zenon DEF kt, kh, kn, TagsLine, HostLine, NameLine
  <2>2. HostLines = [key : keys, text : Form!Texts]
    BY Zenon DEF HostLines
  <2> HIDE DEF keys
  <2>3. QED
    BY <1>2, <2>1, <2>2
<1>4. /\ a.key = kt /\ b.key = kh /\ c.key = kn
      /\ a.text = ta /\ b.text = tb /\ c.text = tc
  OBVIOUS
<1>5. block = ((IF h.tags = <<>> THEN <<>> ELSE <<a>>) \o <<b>>) \o (IF h.host = <<>> THEN <<>> ELSE <<c>>)
  <2>1. Form!writeDirective("HostName", h.host) = IF h.host = <<>> THEN <<>> ELSE <<c>>
    BY Zenon DEF Form!writeDirective, Space, NameLine
  <2>2. Form!Block(h) = ((IF h.tags = <<>> THEN <<>> ELSE <<a>>) \o <<b>>) \o Form!writeDirective("HostName", h.host)
    BY Zenon DEF Form!Block, Space, TagsLine, HostLine
  <2> HIDE DEF a, b, c
  <2>3. QED
    BY <2>1, <2>2
<1> HIDE DEF kt, kh, kn, ta, tb, tc, a, b, c
<1> DEFINE sa == <<a>>
           sb == <<b>>
           sab == <<a, b>>
<1>11. /\ sa \in Seq(HostLines) /\ sb \in Seq(HostLines) /\ sab \in Seq(HostLines)
       /\ Append(sa, b) = sab /\ Append(sb, c) = <<b, c>> /\ Append(sab, c) = <<a, b, c>>
  <2>1. /\ sa \in Seq(HostLines) /\ sab \in Seq(HostLines) /\ Append(sa, b) = sab
        /\ Append(sb, c) = <<b, c>> /\ Append(sab, c) = <<a, b, c>>
    BY <1>3, FewLines
  <2>2. sb \in Seq(HostLines)
    BY <1>3
  <2>3. QED
    BY <2>1, <2>2
<1> HIDE DEF sa, sb, sab
<1>12. none \o sb = sb /\ sa \o <<b>> = sab /\ sb \o <<c>> = <<b, c>> /\ sab \o <<c>> = <<a, b, c>>
       /\ sab \o none = sab
  <2>1. \A s \in Seq(HostLines), l \in HostLines : s \o <<l>> = Append(s, l) /\ s \o none = s /\ none \o s = s
    OBVIOUS
  <2> HIDE DEF none
  <2>2. QED
    BY <1>3, <1>11, <2>1
<1>6. CASE h.tags = none /\ h.host = none
  <2>1. block = <<b>>
    BY <1>5, <1>6
  <2>2. /\ block \in Seq(HostLines) /\ Len(block) = 1 /\ block[1] = b
        /\ Len(block) \in Nat /\ 1 \in 1 .. Len(block) /\ \A j \in 1 .. Len(block) : j = 1
    BY <1>3, <2>1
  <2>3. L(kt) = none /\ L(kn) = none
    BY <1>1, <1>4, <2>2, FirstLineIs
  <2>4. L(kh) = block[1].text
    <3>1. 1 .. (1 - 1) = {}
      OBVIOUS
    <3>2. QED
      BY <1>4, <2>2, <3>1, FirstLineIs
  <2>5. QED
    BY <1>4, <1>6, <2>2, <2>3, <2>4, Zenon DEF kt, kh, kn, ta, tb, tc, TagsLine, HostLine, NameLine
<1>7. CASE h.tags # none /\ h.host = none
  <2>1. block = <<a, b>>
    BY <1>5, <1>7, <1>12, Zenon DEF sa, sb, sab
  <2>2. /\ block \in Seq(HostLines) /\ Len(block) = 2 /\ block[1] = a /\ block[2] = b
        /\ Len(block) \in Nat /\ 1 \in 1 .. Len(block) /\ 2 \in 1 .. Len(block)
        /\ \A j \in 1 .. Len(block) : j = 1 \/ j = 2
    BY <1>3, <2>1
  <2>3. L(kn) = none
    BY <1>1, <1>4, <2>2, FirstLineIs
  <2>4. L(kt) = block[1].text
    <3>1. 1 .. (1 - 1) = {}
      OBVIOUS
    <3>2. QED
      BY <1>4, <2>2, <3>1, FirstLineIs
  <2>5. L(kh) = block[2].text
    <3>1. \A j \in 1 .. (2 - 1) : j = 1
      OBVIOUS
    <3>2. QED
      BY <1>1, <1>4, <2>2, <3>1, FirstLineIs
  <2>6. QED
    BY <1>4, <1>7, <2>2, <2>3, <2>4, <2>5, Zenon DEF kt, kh, kn, ta, tb, tc, TagsLine, HostLine, NameLine
<1>8. CASE h.tags = none /\ h.host # none
  <2>1. block = <<b, c>>
    BY <1>5, <1>8, <1>12, Zenon DEF sa, sb, sab
  <2>2. /\ block \in Seq(HostLines) /\ Len(block) = 2 /\ block[1] = b /\ block[2] = c
        /\ Len(block) \in Nat /\ 1 \in 1 .. Len(block) /\ 2 \in 1 .. Len(block)
        /\ \A j \in 1 .. Len(block) : j = 1 \/ j = 2
    BY <1>3, <2>1
  <2>3. L(kt) = none
    BY <1>1, <1>4, <2>2, FirstLineIs
  <2>4. L(kh) = block[1].text
    <3>1. 1 .. (1 - 1) = {}
      OBVIOUS
    <3>2. QED
      BY <1>4, <2>2, <3>1, FirstLineIs
  <2>5. L(kn) = block[2].text
    <3>1. \A j \in 1 .. (2 - 1) : j = 1
      OBVIOUS
    <3>2. QED
      BY <1>1, <1>4, <2>2, <3>1, FirstLineIs
  <2>6. QED
    BY <1>4, <1>8, <2>2, <2>3, <2>4, <2>5, Zenon DEF kt, kh, kn, ta, tb, tc, TagsLine, HostLine, NameLine
<1>9. CASE h.tags # none /\ h.host # none
  <2>1. block = <<a, b, c>>
    BY <1>5, <1>9, <1>12, Zenon DEF sa, sb, sab
  <2>2. /\ block \in Seq(HostLines) /\ Len(block) = 3 /\ block[1] = a /\ block[2] = b /\ block[3] = c
        /\ Len(block) \in Nat /\ 1 \in 1 .. Len(block) /\ 2 \in 1 .. Len(block) /\ 3 \in 1 .. Len(block)
    BY <1>3, <2>1
  <2>3. L(kt) = block[1].text
    <3>1. 1 .. (1 - 1) = {}
      OBVIOUS
    <3>2. QED
      BY <1>4, <2>2, <3>1, FirstLineIs
  <2>4. L(kh) = block[2].text
    <3>1. \A j \in 1 .. (2 - 1) : j = 1
      OBVIOUS
    <3>2. QED
      BY <1>1, <1>4, <2>2, <3>1, FirstLineIs
  <2>5. L(kn) = block[3].text
    <3>1. \A j \in 1 .. (3 - 1) : j = 1 \/ j = 2
      OBVIOUS
    <3>2. QED
      BY <1>1, <1>4, <2>2, <3>1, FirstLineIs
  <2>6. QED
    BY <1>4, <1>9, <2>2, <2>3, <2>4, <2>5, Zenon DEF kt, kh, kn, ta, tb, tc, TagsLine, HostLine, NameLine
<1>10. QED
  BY <1>6, <1>7, <1>8, <1>9

\* A text that lacks a character has it nowhere, its head included.
LEMMA HoldsNot ==
    ASSUME NEW text \in Form!Texts, NEW c, ~Form!Holds(text, c)
    PROVE  (\A i \in 1 .. Len(text) : text[i] # c) /\ ~Form!StartsWith(text, c)
<1>1. DOMAIN text = 1 .. Len(text) /\ (text # <<>> => 1 \in 1 .. Len(text) /\ Head(text) = text[1])
  BY DEF Form!Texts
<1>2. QED
  BY <1>1 DEF Form!Holds, Form!StartsWith

\* A field that passes the check has no space.
LEMMA UsableIs ==
    ASSUME NEW text \in Form!Texts, Form!usableField(text)
    PROVE  Solid(text)
<1>1. ~Form!Holds(text, Space)
  BY Zenon DEF Form!usableField, Space
<1>2. QED
  BY <1>1, HoldsNot DEF Solid

\* The fields of the form are texts, and no tag is empty.
LEMMA SpecIs ==
    ASSUME form \in Typed
    PROVE  Described(Form!spec) /\ \A i \in 1 .. Len(Form!spec.tags) : Form!spec.tags[i] # <<>>
<1> DEFINE separators == {",", " "}
           parts == Form!Parts(form.tags, separators)
           kept == Form!NotEmpty(parts)
           a == Form!Trim(form.alias)
           b == Form!Trim(form.host)
<1>1. form.alias \in Form!Texts /\ form.host \in Form!Texts /\ form.tags \in Form!Texts
  BY TypedAssumption
<1>2. a \in Form!Texts /\ b \in Form!Texts
  BY <1>1, TrimIs
<1> HIDE DEF separators, a, b
<1>3. parts \in Seq(Form!Texts)
  BY <1>1, PartsMore DEF PartLists
<1> HIDE DEF parts
<1>4. kept \in Seq(Form!Texts) /\ \A i \in 1 .. Len(kept) : kept[i] # <<>>
  BY <1>3, NotEmptyMore, NoneEmpty
<1>5. Form!spec = [alias |-> a, host |-> b, tags |-> kept]
  BY Zenon DEF Form!spec, a, b, kept, parts, separators
<1> HIDE DEF kept
<1>6. QED
  BY <1>2, <1>4, <1>5 DEF Described

ReadHosts == [names : Seq(Form!Texts), host : Form!Texts, tags : Seq(Form!Texts)]

\* A host that passes the check is read from its lines as a host with one name at most,
\* and where nothing in it is punctuation as the host it was.
LEMMA ReadBackIs ==
    ASSUME NEW h, Described(h), \A i \in 1 .. Len(h.tags) : h.tags[i] # <<>>,
           Form!Validate(h), block = Form!Block(h)
    PROVE  /\ Form!ReadBack \in ReadHosts
           /\ Form!Plain(h) => Form!ReadBack = [names |-> <<h.alias>>, host |-> h.host, tags |-> h.tags]
           /\ Len(Form!ReadBack.names) <= 1
<1> DEFINE alias == h.alias
           host == h.host
           tags == h.tags
           lh == Form!LineOf("Host")
           ln == Form!LineOf("HostName")
           lt == Form!LineOf("# Tags:")
           value == Form!ValueOf(lh)
           rn == Form!splitFields(value)
           rh == Form!ValueOf(ln)
           rt == Form!TagsRead(lt)
           none == <<>>
<1>1. Form!ReadBack = [names |-> rn, host |-> rh, tags |-> rt]
  BY Zenon DEF Form!ReadBack
<1>2. /\ lh = <<Space>> \o alias
      /\ ln = IF host = none THEN none ELSE <<Space>> \o host
      /\ lt = IF tags = none THEN none ELSE Form!TagText(tags)
  BY LinesOf
<1>3. alias \in Form!Texts /\ host \in Form!Texts /\ tags \in Seq(Form!Texts) /\ none \in Form!Texts
  BY DEF Described, Form!Texts
<1>4. /\ alias # none /\ Form!usableField(alias) /\ ~Form!Holds(alias, "#") /\ Form!usableField(host)
      /\ \A i \in DOMAIN tags : Form!usableField(tags[i]) /\ ~Form!Holds(tags[i], ",")
  BY Zenon DEF Form!Validate
<1>5. Solid(alias) /\ Solid(host)
  BY <1>3, <1>4, UsableIs
<1>6. \A i \in 1 .. Len(tags) :
         Solid(tags[i]) /\ tags[i] # <<>> /\ \A j \in 1 .. Len(tags[i]) : tags[i][j] # Comma
  <2> SUFFICES ASSUME NEW i \in 1 .. Len(tags)
               PROVE  Solid(tags[i]) /\ tags[i] # <<>> /\ \A j \in 1 .. Len(tags[i]) : tags[i][j] # Comma
    OBVIOUS
  <2> DEFINE t == tags[i]
  <2>1. t \in Form!Texts /\ i \in DOMAIN tags /\ t # <<>>
    BY <1>3
  <2>2. Form!usableField(t) /\ ~Form!Holds(t, Comma)
    BY <1>4, <2>1, Zenon DEF Comma
  <2> HIDE DEF t
  <2>3. Solid(t) /\ \A j \in 1 .. Len(t) : t[j] # Comma
    BY <2>1, <2>2, UsableIs, HoldsNot
  <2>4. QED
    BY <2>1, <2>3 DEF t
<1>7. ~Form!StartsWith(alias, "#")
  <2> DEFINE hash == "#"
  <2>1. ~Form!Holds(alias, hash)
    BY <1>4
  <2> HIDE DEF hash
  <2>2. ~Form!StartsWith(alias, hash)
    BY <1>3, <2>1, HoldsNot
  <2>3. QED
    BY <2>2 DEF hash
<1> HIDE DEF alias, host, tags, lh, ln, lt, none
<1>8. Solid(value) /\ (Form!Plain(h) => value = alias)
  <2>1. /\ Solid(Form!ValueOf(<<Space>> \o alias))
        /\ Form!ValueOf(<<Space>> \o alias) = Form!unquote(Form!Without(alias, "="))
    BY <1>5, <1>7, ValueIs
  <2>2. value = Form!ValueOf(<<Space>> \o alias)
    BY <1>2
  <2>3. ASSUME Form!Plain(h) PROVE value = alias
    <3>1. ~Form!StartsWith(alias, "=") /\ ~Form!Holds(alias, Quote)
      BY <2>3, Zenon DEF Form!Plain, Quote, alias
    <3>2. Form!Without(alias, "=") = alias
      BY <1>5, <3>1, SolidParts
    <3>3. Form!unquote(alias) = alias
      <4>1. ~Form!StartsWith(alias, Quote)
        BY <1>3, <3>1, HoldsNot
      <4>2. Len(alias) >= 2 => alias # <<>>
        BY <1>3 DEF Form!Texts
      <4>3. QED
        BY <4>1, <4>2, Zenon DEF Form!StartsWith, Form!unquote, Quote
    <3>4. QED
      BY <2>1, <2>2, <3>2, <3>3, Zenon
  <2>4. QED
    BY <2>1, <2>2, <2>3
<1> HIDE DEF value
<1>9. /\ rn \in Seq(Form!Texts) /\ Len(rn) <= 1
      /\ Form!Plain(h) => rn = <<alias>>
  <2>1. rn \in Seq(Form!Texts) /\ Len(rn) <= 1
        /\ (value # <<>> /\ (\A i \in 1 .. Len(value) : value[i] # Quote) => rn = <<value>>)
    BY <1>8, FieldOfSolid
  <2>2. ASSUME Form!Plain(h) PROVE rn = <<alias>>
    <3>1. ~Form!Holds(alias, Quote)
      BY <2>2, Zenon DEF Form!Plain, Quote, alias
    <3>2. \A i \in 1 .. Len(alias) : alias[i] # Quote
      BY <1>3, <3>1, HoldsNot
    <3>3. value = alias /\ alias # <<>>
      BY <1>4, <1>8, <2>2 DEF none
    <3>4. QED
      BY <2>1, <3>2, <3>3
  <2>3. QED
    BY <2>1, <2>2
<1>10. rh \in Form!Texts /\ (Form!Plain(h) => rh = host)
  <2>1. ln \in Form!Texts
    <3>1. <<Space>> \o host = Marked(host)
      BY DEF Marked
    <3>2. Marked(host) \in Form!Texts
      BY <1>3, MarkedIs
    <3>3. QED
      BY <1>2, <1>3, <3>1, <3>2, Zenon
  <2>2. rh \in Form!Texts
    BY <2>1, TakenTyped
  <2>3. ASSUME Form!Plain(h) PROVE rh = host
    <3>1. Form!unquote(host) = host /\ ~Form!StartsWith(host, "=") /\ ~Form!StartsWith(host, "#")
      BY <2>3, Zenon DEF Form!Plain, host
    <3>2. CASE host = none
      BY <1>2, <3>2, NoValue, Zenon DEF none
    <3>3. CASE host # none
      <4>1. Form!ValueOf(<<Space>> \o host) = host
        BY <1>5, <3>1, ValueIs
      <4>2. QED
        BY <1>2, <3>3, <4>1, Zenon
    <3>4. QED
      BY <3>2, <3>3
  <2>4. QED
    BY <2>2, <2>3
<1>11. rt \in Seq(Form!Texts) /\ (Form!Plain(h) => rt = tags)
  <2>1. Form!TagText(tags) \in Form!Texts
    BY <1>3, TagTextMore
  <2>2. lt \in Form!Texts
    BY <1>2, <1>3, <2>1, Zenon
  <2>3. rt \in Seq(Form!Texts)
    BY <2>2, TagsReadIs
  <2>4. ASSUME Form!Plain(h) PROVE rt = tags
    <3>1. CASE tags = none
      BY <1>2, <3>1, TagsReadIs, Zenon DEF none
    <3>2. CASE tags # none
      <4>1. \A i \in DOMAIN tags : ~Form!StartsWith(tags[i], "#")
        BY <2>4, Zenon DEF Form!Plain, tags
      <4>2. \A i \in 1 .. Len(tags) : i \in DOMAIN tags
        BY <1>3
      <4>3. \A i \in 1 .. Len(tags) :
               /\ Solid(tags[i]) /\ tags[i] # <<>> /\ ~Form!StartsWith(tags[i], "#")
               /\ \A j \in 1 .. Len(tags[i]) : tags[i][j] # Comma
        BY <1>6, <4>1, <4>2, Zenon
      <4>4. Form!TagsRead(Form!TagText(tags)) = tags
        BY <1>3, <3>2, <4>3, TagsReadIs, Zenon DEF none
      <4>5. QED
        BY <1>2, <3>2, <4>4, Zenon
    <3>3. QED
      BY <3>1, <3>2
  <2>5. QED
    BY <2>3, <2>4
<1> HIDE DEF rn, rh, rt
<1>12. Form!ReadBack \in ReadHosts
  BY <1>1, <1>9, <1>10, <1>11 DEF ReadHosts
<1>13. Len(Form!ReadBack.names) <= 1
  BY <1>1, <1>9
<1>14. ASSUME Form!Plain(h)
       PROVE  Form!ReadBack = [names |-> <<alias>>, host |-> host, tags |-> tags]
  BY <1>1, <1>9, <1>10, <1>11, <1>14, Zenon
<1>15. QED
  BY <1>12, <1>13, <1>14 DEF alias, host, tags

-----------------------------------------------------------------------------
(* The way of a host from the form to the list.                            *)

FormInv ==
    /\ form \in Typed
    /\ stage \in {"typing", "refused", "written", "read"}
    /\ stage \in {"typing", "refused"} => block = <<>> /\ read = NoHost
    /\ stage = "written" => Form!Validate(Form!spec) /\ block = Form!Block(Form!spec) /\ read = NoHost
    /\ stage = "read" =>
          /\ block \in Seq(HostLines) /\ read \in ReadHosts /\ Len(read.names) <= 1
          /\ Form!Plain(Form!spec) => read = Form!Meant

\* The form begins with what the user typed.
LEMMA FormBegins == ASSUME Form!Init PROVE FormInv
  BY DEF Form!Init, FormInv

\* What the form describes is the same while the form is.
LEMMA SameSpec == ASSUME UNCHANGED form PROVE Form!spec' = Form!spec /\ Form!Meant' = Form!Meant
<1>1. Form!spec' = Form!spec
  BY Zenon DEF Form!spec
<1>2. QED
  BY <1>1, Zenon DEF Form!Meant

\* A step of the form writes the lines of a host that passes the check, or reads them.
LEMMA FormStep == ASSUME FormInv, Form!Next PROVE FormInv'
<1>1. CASE Form!Submit
  <2>1. UNCHANGED <<form, read>> /\ stage = "typing" /\ read = NoHost /\ block = <<>> /\ form \in Typed
    BY <1>1 DEF Form!Submit, FormInv
  <2>2. \/ Form!Validate(Form!spec) /\ block' = Form!Block(Form!spec) /\ stage' = "written"
        \/ block' = block /\ stage' = "refused"
    BY <1>1, Zenon DEF Form!Submit
  <2> DEFINE now == Form!spec
             then == Form!spec'
  <2>3. then = now
    BY <2>1, SameSpec
  <2> HIDE DEF now, then
  <2>4. CASE block' = block /\ stage' = "refused"
    BY <2>1, <2>4 DEF FormInv
  <2>5. CASE stage' = "written" /\ Form!Validate(now) /\ block' = Form!Block(now)
    <3>1. Form!Validate(then) /\ block' = Form!Block(then)
      BY <2>3, <2>5, Zenon
    <3>2. form' \in Typed /\ read' = NoHost
      BY <2>1
    <3>3. QED
      BY <2>5, <3>1, <3>2 DEF FormInv, then
  <2>6. QED
    BY <2>2, <2>4, <2>5 DEF now
<1>2. CASE Form!Reload
  <2>1. /\ UNCHANGED <<form, block>> /\ form \in Typed /\ stage' = "read" /\ read' = Form!ReadBack
        /\ Form!Validate(Form!spec) /\ block = Form!Block(Form!spec)
    BY <1>2 DEF Form!Reload, FormInv
  <2> DEFINE h == Form!spec
             back == Form!ReadBack
             meant == [names |-> <<h.alias>>, host |-> h.host, tags |-> h.tags]
  <2>2. Described(h) /\ \A i \in 1 .. Len(h.tags) : h.tags[i] # <<>>
    BY <2>1, SpecIs
  <2>3. Form!Validate(h) /\ block = Form!Block(h)
    BY <2>1
  <2> HIDE DEF h
  <2>4. back \in ReadHosts /\ Len(back.names) <= 1 /\ (Form!Plain(h) => back = meant)
    BY <2>2, <2>3, ReadBackIs
  <2>5. block \in Seq(HostLines)
    BY <2>2, <2>3, LinesOf
  <2>6. Form!Meant = meant
    BY Zenon DEF Form!Meant, h
  <2> DEFINE then == Form!spec'
             thenMeant == Form!Meant'
  <2>7. then = h /\ thenMeant = meant
    BY <2>1, <2>6, SameSpec DEF h
  <2> HIDE DEF then, thenMeant, meant, back
  <2>8. read' = back
    BY <2>1 DEF back
  <2>9. /\ form' \in Typed /\ block' \in Seq(HostLines) /\ read' \in ReadHosts /\ Len(read'.names) <= 1
        /\ Form!Plain(then) => read' = thenMeant
    BY <2>1, <2>4, <2>5, <2>7, <2>8
  <2>10. QED
    BY <2>1, <2>9 DEF FormInv, then, thenMeant
<1>3. QED
  BY <1>1, <1>2 DEF Form!Next

\* Where nothing moves the form is as it was.
LEMMA FormRests == ASSUME FormInv, UNCHANGED formVars PROVE FormInv'
<1> DEFINE now == Form!spec
           then == Form!spec'
           nowMeant == Form!Meant
           thenMeant == Form!Meant'
<1>1. UNCHANGED <<form, block, read, stage>>
  BY DEF formVars
<1>2. then = now /\ thenMeant = nowMeant
  BY <1>1, SameSpec
<1>3. /\ stage = "written" => Form!Validate(now) /\ block = Form!Block(now)
      /\ stage = "read" => (Form!Plain(now) => read = nowMeant)
  BY DEF FormInv
<1> HIDE DEF now, then, nowMeant, thenMeant
<1>4. /\ stage' = "written" => Form!Validate(then) /\ block' = Form!Block(then)
      /\ stage' = "read" => (Form!Plain(then) => read' = thenMeant)
  BY <1>1, <1>2, <1>3
<1>5. QED
  BY <1>1, <1>4 DEF FormInv, then, thenMeant

\* What the form keeps has its type.
LEMMA FormTypes == ASSUME FormInv PROVE Form!HostBlockTypeOK
<1>1. form \in [alias : Form!Texts, host : Form!Texts, tags : Form!Texts]
  BY TypedAssumption DEF FormInv
<1>2. block \in Seq(HostLines)
  <2>1. <<>> \in Seq(HostLines)
    OBVIOUS
  <2>2. CASE stage = "written"
    <3> DEFINE h == Form!spec
    <3>1. Described(h)
      BY SpecIs DEF FormInv
    <3>2. block = Form!Block(h)
      BY <2>2 DEF FormInv
    <3> HIDE DEF h
    <3>3. QED
      BY <3>1, <3>2, LinesOf
  <2>3. QED
    BY <2>1, <2>2 DEF FormInv
<1>3. read # NoHost => read \in ReadHosts
  BY DEF FormInv
<1>4. stage \in {"typing", "refused", "written", "read"}
  BY DEF FormInv
<1>5. QED
  BY <1>1, <1>2, <1>3, <1>4, Zenon DEF Form!HostBlockTypeOK, HostLines, ReadHosts

\* What is read back is what was typed.
LEMMA FormReads == ASSUME FormInv PROVE Form!ReadsBack
  BY DEF FormInv, Form!ReadsBack

-----------------------------------------------------------------------------
(* The three parts together.                                               *)

ConfigInv ==
    /\ EditInv
    /\ part = "read" => ReadInv
    /\ part = "form" => FormInv

\* Whichever part runs, it begins well and goes on so.
LEMMA ConfigGoesOn == (Init => ConfigInv) /\ (ConfigInv /\ [Next]_vars => ConfigInv')
<1>1. ASSUME Init PROVE ConfigInv
  <2>1. EditInv
    BY <1>1, EditBegins
  <2>2. part = "read" => ReadInv
    BY <1>1, ReadBegins DEF Init
  <2>3. part = "form" => FormInv
    BY <1>1, FormBegins DEF Init
  <2>4. QED
    BY <2>1, <2>2, <2>3 DEF ConfigInv
<1>2. ASSUME ConfigInv, [Next]_vars PROVE ConfigInv'
  <2>1. EditInv'
    BY <1>2, EditOrRest DEF ConfigInv
  <2>2. part' = "read" => ReadInv'
    <3> SUFFICES ASSUME part' = "read" PROVE ReadInv'
      OBVIOUS
    <3>1. part = "read" => ReadInv
      BY <1>2 DEF ConfigInv
    <3>2. CASE UNCHANGED vars
      BY <3>1, <3>2 DEF vars, readVars, ReadInv
    <3>3. CASE Next
      BY <3>1, <3>3, ReadStep DEF Next
    <3>4. QED
      BY <1>2, <3>2, <3>3
  <2>3. part' = "form" => FormInv'
    <3> SUFFICES ASSUME part' = "form" PROVE FormInv'
      OBVIOUS
    <3>1. part = "form" => FormInv
      BY <1>2 DEF ConfigInv
    <3>2. CASE UNCHANGED vars
      BY <3>1, <3>2, FormRests DEF vars, formVars
    <3>3. CASE Next
      BY <3>1, <3>3, FormStep DEF Next
    <3>4. QED
      BY <1>2, <3>2, <3>3
  <2>4. QED
    BY <2>1, <2>2, <2>3 DEF ConfigInv
<1>3. QED
  BY <1>1, <1>2

\* The parts keep their types, and Includes are never nested deeper than the bound.
THEOREM ConfigTyped == Spec => []ConfigTypeOK
<1>1. (Init => ConfigInv) /\ (ConfigInv /\ [Next]_vars => ConfigInv')
  BY ConfigGoesOn
<1>2. ConfigInv => ConfigTypeOK
  BY EditTypes, ReadTypes, FormTypes DEF ConfigInv, ConfigTypeOK
<1>3. QED
  BY <1>1, <1>2, PTL DEF Spec

\* A host that was typed is in the list as it was typed, unless it holds the config's
\* own punctuation, and with one name at most; and an add that is taken back leaves the
\* file as it was, but for tags that labelled nothing and an empty line at its end.
THEOREM ConfigAddsAreExact == Spec => []AddsAreExact
<1>1. (Init => ConfigInv) /\ (ConfigInv /\ [Next]_vars => ConfigInv')
  BY ConfigGoesOn
<1>2. ConfigInv => AddsAreExact
  <2> SUFFICES ASSUME ConfigInv PROVE AddsAreExact
    OBVIOUS
  <2>1. part = "form" => Form!ReadsBack
    BY FormReads DEF ConfigInv
  <2>2. body \in Seq(HostsLines)
    BY DEF ConfigInv, EditInv
  <2>3. Edit!RemoveUndoesAdd
    BY <2>2, RemovalUndoes DEF Edit!RemoveUndoesAdd
  <2>4. QED
    BY <2>1, <2>3 DEF AddsAreExact
<1>3. QED
  BY <1>1, <1>2, PTL DEF Spec

=============================================================================
