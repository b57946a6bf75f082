-------------------------- MODULE GlobMatchProofs ---------------------------
(***************************************************************************)
(* matchPattern is right for every pattern and name.  That it invents no   *)
(* match needs one laying of what was passed (Found); that it loses none,  *)
(* that every laying of the whole keeps level with the loop or ahead of it *)
(* (Level).                                                                *)
(***************************************************************************)
EXTENDS GlobMatch, TLAPS

\* What was passed can be laid over what was read, and up to the last star
\* over what was read before its run ended.
Found ==
    /\ Scanning => Fits(pattern, name, p, n)
    /\ Trailing => Fits(pattern, name, p, n)
    /\ star # None => Fits(pattern, name, star + 1, match)
    /\ answer = "yes" => GlobMatches(pattern, name)

\* Whole is a laying of all the pattern over all the name.
Whole(glob, string, f) == Lays(glob, string, f, Len(glob), Len(string))

Wholes == {f \in [0..Len(pattern) -> 0..Len(name)] : Whole(pattern, name, f)}

\* Every laying of the whole has the last star's run end at match or later,
\* reaches p at n or later, and, if the run ends at match, reaches p at n.
Level ==
    /\ \A f \in Wholes :
          /\ f[p] >= n
          /\ star # None => f[star + 1] >= match
          /\ Scanning /\ (star # None => f[star + 1] = match) => f[p] = n
    /\ answer = "no" => Wholes = {}

\* An argument is a string.
LEMMA StringsAreSequences ==
    ASSUME NEW S, NEW s \in Strings(S)
    PROVE  s \in Seq(S)
  BY CharsAssumption DEF Strings

\* A laying of i characters is one of i + 1 once the next is covered.
LEMMA LayOneMore ==
    ASSUME GlobTypeOK, NEW i \in 0..(Len(pattern) - 1), NEW j \in 0..Len(name),
           NEW k \in 0..Len(name), Fits(pattern, name, i, j),
           IF pattern[i + 1] = Star THEN j <= k
           ELSE k = j + 1 /\ pattern[i + 1] \in {Any, name[k]}
    PROVE  Fits(pattern, name, i + 1, k)
<1>1. PICK f \in [0..i -> 0..Len(name)] : Lays(pattern, name, f, i, j)
  BY DEF Fits
<1> DEFINE g == [m \in 0..(i + 1) |-> IF m = i + 1 THEN k ELSE f[m]]
<1>2. g \in [0..(i + 1) -> 0..Len(name)]
  OBVIOUS
<1>3. g[0] = 0 /\ g[i + 1] = k /\ g[i] = j
  BY <1>1 DEF Lays
<1>4. ASSUME NEW m \in 0..i
      PROVE  IF pattern[m + 1] = Star THEN g[m] <= g[m + 1]
             ELSE g[m + 1] = g[m] + 1 /\ pattern[m + 1] \in {Any, name[g[m + 1]]}
  <2>1. CASE m = i
    BY <1>3, <2>1
  <2>2. CASE m # i
    <3>1. m \in 0..(i - 1) /\ g[m] = f[m] /\ g[m + 1] = f[m + 1]
      BY <2>2
    <3>2. QED
      BY <1>1, <3>1 DEF Lays
  <2>3. QED
    BY <2>1, <2>2
<1>5. Lays(pattern, name, g, i + 1, k)
  <2> HIDE DEF g
  <2>1. 0..((i + 1) - 1) = 0..i
    OBVIOUS
  <2>2. QED
    BY <1>2, <1>3, <1>4, <2>1 DEF Lays
<1>6. QED
  BY <1>2, <1>5 DEF Fits

\* The run of a star that was laid can be made longer.
LEMMA LayLongerRun ==
    ASSUME GlobTypeOK, NEW i \in 0..(Len(pattern) - 1), pattern[i + 1] = Star,
           NEW j \in 0..Len(name), Fits(pattern, name, i + 1, j),
           NEW k \in 0..Len(name), j <= k
    PROVE  Fits(pattern, name, i + 1, k)
<1>1. PICK f \in [0..(i + 1) -> 0..Len(name)] : Lays(pattern, name, f, i + 1, j)
  BY DEF Fits
<1> DEFINE g == [f EXCEPT ![i + 1] = k]
<1>2. g \in [0..(i + 1) -> 0..Len(name)] /\ g[0] = 0 /\ g[i + 1] = k
  BY <1>1 DEF Lays
<1>3. ASSUME NEW m \in 0..i
      PROVE  IF pattern[m + 1] = Star THEN g[m] <= g[m + 1]
             ELSE g[m + 1] = g[m] + 1 /\ pattern[m + 1] \in {Any, name[g[m + 1]]}
  <2>1. CASE m = i
    BY <1>1, <2>1 DEF Lays
  <2>2. CASE m # i
    <3>1. m \in 0..((i + 1) - 1) /\ g[m] = f[m] /\ g[m + 1] = f[m + 1]
      BY <2>2
    <3>2. QED
      BY <1>1, <3>1 DEF Lays
  <2>3. QED
    BY <2>1, <2>2
<1>4. Lays(pattern, name, g, i + 1, k)
  <2> HIDE DEF g
  <2>1. 0..((i + 1) - 1) = 0..i
    OBVIOUS
  <2>2. QED
    BY <1>2, <1>3, <2>1 DEF Lays
<1>5. QED
  BY <1>2, <1>4 DEF Fits

\* What a laying of the whole does at one character of the pattern.
LEMMA WholeAt ==
    ASSUME GlobTypeOK, NEW f \in Wholes, NEW k \in 0..(Len(pattern) - 1)
    PROVE  /\ f[k] \in 0..Len(name) /\ f[k + 1] \in 0..Len(name)
           /\ pattern[k + 1] = Star => f[k] <= f[k + 1]
           /\ pattern[k + 1] # Star =>
                 f[k + 1] = f[k] + 1 /\ pattern[k + 1] \in {Any, name[f[k + 1]]}
<1>1. f \in [0..Len(pattern) -> 0..Len(name)]
  BY DEF Wholes
<1>2. k \in 0..Len(pattern) /\ k + 1 \in 0..Len(pattern)
  BY DEF GlobTypeOK
<1>3. IF pattern[k + 1] = Star THEN f[k] <= f[k + 1]
      ELSE f[k + 1] = f[k] + 1 /\ pattern[k + 1] \in {Any, name[f[k + 1]]}
  BY DEF Wholes, Whole, Lays
<1>4. QED
  BY <1>1, <1>2, <1>3

LEMMA WholeEnds ==
    ASSUME GlobTypeOK, NEW f \in Wholes
    PROVE  /\ f[0] = 0 /\ f[Len(pattern)] = Len(name)
           /\ \A k \in 0..Len(pattern) : f[k] \in 0..Len(name)
  BY DEF GlobTypeOK, Wholes, Whole, Lays

\* The loop never indexes outside the pattern or the name, and what it keeps of
\* the last star is right (sshconfig.go:314-341).
THEOREM Bounds == Spec => [](GlobTypeOK /\ StarInv)
<1>1. Init => GlobTypeOK /\ StarInv
  BY StringsAreSequences DEF Init, GlobTypeOK, StarInv, None
<1>2. GlobTypeOK /\ StarInv /\ [Next]_globVars => GlobTypeOK' /\ StarInv'
  <2> SUFFICES ASSUME GlobTypeOK, StarInv, [Next]_globVars
               PROVE  GlobTypeOK' /\ StarInv'
    OBVIOUS
  <2> USE DEF GlobTypeOK, StarInv, Scanning, Trailing, None, args
  <2>1. CASE Step
    <3>1. p + 1 \in 0..Len(pattern) /\ n + 1 \in 0..Len(name)
      BY <2>1 DEF Step, Covers
    <3>2. GlobTypeOK'
      BY <2>1, <3>1 DEF Step
    <3>3. StarInv'
      BY <2>1 DEF Step
    <3>4. QED
      BY <3>2, <3>3
  <2>2. CASE TakeStar
    BY <2>2 DEF TakeStar, AtStar
  <2>3. CASE BackUp
    BY <2>3 DEF BackUp
  <2>4. CASE Mismatch
    BY <2>4 DEF Mismatch
  <2>5. CASE SkipStar
    BY <2>5 DEF SkipStar, AtStar
  <2>6. CASE Finish
    BY <2>6 DEF Finish
  <2>7. CASE UNCHANGED globVars
    BY <2>7 DEF globVars
  <2>8. QED
    BY <2>1, <2>2, <2>3, <2>4, <2>5, <2>6, <2>7 DEF Next
<1>3. QED
  BY <1>1, <1>2, PTL DEF Spec

\* What was passed stays laid over what was read (sshconfig.go:323-332).
LEMMA FoundStep ==
    GlobTypeOK /\ StarInv /\ Found /\ [Next]_globVars => Found'
<1> SUFFICES ASSUME GlobTypeOK, StarInv, Found, [Next]_globVars
             PROVE  Found'
  OBVIOUS
<1> USE DEF GlobTypeOK, StarInv, Scanning, Trailing, None, args
<1>1. CASE Step
  <2>1. Fits(pattern, name, p + 1, n + 1)
    BY <1>1, LayOneMore, CharsAssumption DEF Step, Covers, Found
  <2>2. QED
    BY <1>1, <2>1 DEF Step, Found
<1>2. CASE TakeStar
  <2>1. Fits(pattern, name, p + 1, n)
    BY <1>2, LayOneMore DEF TakeStar, AtStar, Found
  <2>2. QED
    BY <1>2, <2>1 DEF TakeStar, Found
<1>3. CASE BackUp
  <2>1. Fits(pattern, name, star + 1, match + 1)
    BY <1>3, LayLongerRun DEF BackUp, Found
  <2>2. QED
    BY <1>3, <2>1 DEF BackUp, Found
<1>4. CASE Mismatch
  BY <1>4 DEF Mismatch, Found
<1>5. CASE SkipStar
  <2>1. Fits(pattern, name, p + 1, n)
    BY <1>5, LayOneMore DEF SkipStar, AtStar, Found
  <2>2. QED
    BY <1>5, <2>1 DEF SkipStar, Found
<1>6. CASE Finish
  BY <1>6 DEF Finish, Found, GlobMatches
<1>7. CASE UNCHANGED globVars
  BY <1>7 DEF globVars, Found
<1>8. QED
  BY <1>1, <1>2, <1>3, <1>4, <1>5, <1>6, <1>7 DEF Next

\* Every laying of the whole stays level with the loop or ahead of it
\* (sshconfig.go:323-341).
LEMMA LevelStep ==
    GlobTypeOK /\ StarInv /\ Level /\ [Next]_globVars => Level'
<1> SUFFICES ASSUME GlobTypeOK, StarInv, Level, [Next]_globVars
             PROVE  Level'
  OBVIOUS
<1> USE DEF GlobTypeOK, StarInv, Scanning, Trailing, None, args
<1>1. Wholes' = Wholes
  BY DEF Next, Step, TakeStar, BackUp, Mismatch, SkipStar, Finish, globVars, Wholes
<1>2. CASE Step
  <2>1. ASSUME NEW f \in Wholes PROVE f[p + 1] = f[p] + 1
    <3>1. p \in 0..(Len(pattern) - 1)
      BY <1>2 DEF Step, Covers
    <3>2. pattern[p + 1] # Star
      BY <1>2, CharsAssumption DEF Step, Covers
    <3>3. QED
      BY <3>1, <3>2, WholeAt
  <2>2. QED
    BY <1>1, <1>2, <2>1, WholeEnds DEF Step, Covers, Level
<1>3. CASE TakeStar
  <2>1. ASSUME NEW f \in Wholes PROVE f[p] <= f[p + 1]
    <3>1. p \in 0..(Len(pattern) - 1) /\ pattern[p + 1] = Star
      BY <1>3 DEF TakeStar, AtStar
    <3>2. QED
      BY <3>1, WholeAt
  <2>2. QED
    BY <1>1, <1>3, <2>1, WholeEnds DEF TakeStar, AtStar, Level
<1>4. CASE BackUp
  <2>1. ASSUME NEW f \in Wholes PROVE f[star + 1] > match
    <3>1. f[star + 1] \in Nat /\ f[p] \in Nat
      BY <1>4, WholeEnds DEF BackUp
    <3>2. SUFFICES ASSUME f[star + 1] = match PROVE FALSE
      BY <1>4, <3>1 DEF BackUp, Level
    <3>3. f[p] = n
      BY <1>4, <3>2 DEF BackUp, Level
    <3>4. CASE p = Len(pattern)
      BY <1>4, <3>3, <3>4, WholeEnds DEF BackUp
    <3>5. CASE p < Len(pattern)
      <4>1. p \in 0..(Len(pattern) - 1) /\ pattern[p + 1] # Star
        BY <1>4, <3>5 DEF BackUp, AtStar
      <4>2. pattern[p + 1] \in {Any, name[n + 1]}
        BY <3>3, <4>1, WholeAt
      <4>3. QED
        BY <1>4, <3>5, <4>2 DEF BackUp, Covers
    <3>6. QED
      BY <3>4, <3>5
  <2>2. ASSUME NEW f \in Wholes PROVE f[star + 1] \in Nat
    BY <1>4, WholeEnds DEF BackUp
  <2>3. QED
    BY <1>1, <1>4, <2>1, <2>2 DEF BackUp, Level
<1>5. CASE Mismatch
  <2>1. ASSUME NEW f \in Wholes PROVE FALSE
    <3>1. f[p] = n
      BY <1>5 DEF Mismatch, Level
    <3>2. CASE p = Len(pattern)
      BY <1>5, <3>1, <3>2, WholeEnds DEF Mismatch
    <3>3. CASE p < Len(pattern)
      <4>1. p \in 0..(Len(pattern) - 1) /\ pattern[p + 1] # Star
        BY <1>5, <3>3 DEF Mismatch, AtStar
      <4>2. pattern[p + 1] \in {Any, name[n + 1]}
        BY <3>1, <4>1, WholeAt
      <4>3. QED
        BY <1>5, <3>3, <4>2 DEF Mismatch, Covers
    <3>4. QED
      BY <3>2, <3>3
  <2>2. QED
    BY <1>1, <1>5, <2>1 DEF Mismatch, Level
<1>6. CASE SkipStar
  <2>1. ASSUME NEW f \in Wholes
        PROVE  f[p] <= f[p + 1] /\ f[p] \in Nat /\ f[p + 1] \in Nat
    <3>1. p \in 0..(Len(pattern) - 1) /\ pattern[p + 1] = Star
      BY <1>6 DEF SkipStar, AtStar
    <3>2. QED
      BY <3>1, WholeAt
  <2>2. QED
    BY <1>1, <1>6, <2>1 DEF SkipStar, Level
<1>7. CASE Finish
  <2>1. ASSUME NEW f \in Wholes, p # Len(pattern) PROVE FALSE
    <3>1. f[p] >= Len(name)
      BY <1>7 DEF Finish, Level
    <3>2. f[p + 1] = f[p] + 1 /\ f[p + 1] \in 0..Len(name) /\ f[p] \in Nat
      BY <1>7, <2>1, WholeAt DEF Finish, AtStar
    <3>3. QED
      BY <3>1, <3>2
  <2>2. QED
    BY <1>1, <1>7, <2>1 DEF Finish, Level
<1>8. CASE UNCHANGED globVars
  BY <1>1, <1>8 DEF globVars, Level
<1>9. QED
  BY <1>2, <1>3, <1>4, <1>5, <1>6, <1>7, <1>8 DEF Next

\* matchPattern answers as the glob is defined, whatever the pattern and the
\* name (sshconfig.go:311-342).
THEOREM Correct == Spec => []AnswersTheGlob
<1>1. Init => Found /\ Level
  <2> SUFFICES ASSUME Init PROVE Found /\ Level
    OBVIOUS
  <2>1. GlobTypeOK
    BY StringsAreSequences DEF Init, GlobTypeOK, None
  <2>2. Fits(pattern, name, 0, 0)
    <3> DEFINE f == [k \in 0..0 |-> 0]
    <3>1. f \in [0..0 -> 0..Len(name)] /\ Lays(pattern, name, f, 0, 0)
      BY <2>1 DEF GlobTypeOK, Lays
    <3>2. QED
      BY <3>1 DEF Fits
  <2>3. Found
    BY <2>2 DEF Init, Found, Scanning, Trailing, None
  <2>4. Level
    BY <2>1, WholeEnds DEF Init, Level, Scanning, None
  <2>5. QED
    BY <2>3, <2>4
<1>2. GlobTypeOK /\ Found /\ Level => AnswersTheGlob
  BY DEF GlobTypeOK, Found, Level, AnswersTheGlob, GlobMatches, Fits, Wholes, Whole
<1>3. QED
  BY <1>1, <1>2, Bounds, FoundStep, LevelStep, PTL DEF Spec

=============================================================================
