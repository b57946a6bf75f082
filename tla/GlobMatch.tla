------------------------------ MODULE GlobMatch ------------------------------
(***************************************************************************)
(* matchPattern of internal/config/sshconfig.go: OpenSSH's glob matched by *)
(* one loop that remembers the last star and backs up to it.  Indices are  *)
(* the code's, from 0.                                                     *)
(***************************************************************************)
EXTENDS Integers, Sequences

CONSTANTS
    Chars,     \* what a name is made of
    Star, Any, \* the pattern characters '*' and '?'
    MaxLength  \* the longest pattern and the longest name given

ASSUME CharsAssumption ==
    /\ Star \notin Chars /\ Any \notin Chars /\ Star # Any
    /\ MaxLength \in Nat

None == -1 \* star before a star was seen

VARIABLES
    pattern, name, \* the arguments
    p, n,          \* where the loop is in each
    star, match,   \* the last star, and where in name the run it spans ends
    answer         \* what was returned

args == <<pattern, name>>
globVars == <<pattern, name, p, n, star, match, answer>>

Letters == Chars \union {Star, Any}
Strings(S) == UNION {[1..k -> S] : k \in 0..MaxLength}

GlobTypeOK ==
    /\ pattern \in Seq(Letters) /\ name \in Seq(Chars)
    /\ p \in 0..Len(pattern)
    /\ n \in 0..Len(name)
    /\ star \in None..(Len(pattern) - 1)
    /\ match \in 0..Len(name)
    /\ answer \in {"none", "yes", "no"}

Init ==
    /\ pattern \in Strings(Letters) /\ name \in Strings(Chars)
    /\ p = 0 /\ n = 0
    /\ star = None /\ match = 0
    /\ answer = "none"

-----------------------------------------------------------------------------
Scanning == answer = "none" /\ n < Len(name)
Trailing == answer = "none" /\ ~(n < Len(name))

\* pattern[p] and name[n], read only inside the strings.
Covers == p < Len(pattern) /\ pattern[p + 1] \in {Any, name[n + 1]}
AtStar == p < Len(pattern) /\ pattern[p + 1] = Star

\* The pattern's character covers the name's.
Step ==
    /\ Scanning /\ Covers
    /\ p' = p + 1 /\ n' = n + 1
    /\ UNCHANGED <<args, star, match, answer>>

\* A star first spans nothing.
TakeStar ==
    /\ Scanning /\ ~Covers /\ AtStar
    /\ star' = p /\ match' = n /\ p' = p + 1
    /\ UNCHANGED <<args, n, answer>>

\* Fault: backing up leaves the end of the star's run where it was.
BackUpInPlace ==
    /\ Scanning /\ ~Covers /\ ~AtStar /\ star # None
    /\ p' = star + 1 /\ n' = n + 1
    /\ UNCHANGED <<args, star, match, answer>>

\* Fault: backing up tries the same run again.
BackUpNowhere ==
    /\ Scanning /\ ~Covers /\ ~AtStar /\ star # None
    /\ p' = star + 1 /\ n' = match
    /\ UNCHANGED <<args, star, match, answer>>

\* A mismatch lengthens the last star's run by one and goes on from there.
BackUp ==
    /\ Scanning /\ ~Covers /\ ~AtStar /\ star # None
    /\ p' = star + 1 /\ match' = match + 1 /\ n' = match'
    /\ UNCHANGED <<args, star, answer>>

Mismatch ==
    /\ Scanning /\ ~Covers /\ ~AtStar /\ star = None
    /\ answer' = "no"
    /\ UNCHANGED <<args, p, n, star, match>>

\* Fault: the second loop does not look where the pattern ends.
SkipStarUnbounded ==
    /\ Trailing /\ (p < Len(pattern) => AtStar)
    /\ p' = p + 1
    /\ UNCHANGED <<args, n, star, match, answer>>

\* The second loop: stars left over span nothing.
SkipStar ==
    /\ Trailing /\ AtStar
    /\ p' = p + 1
    /\ UNCHANGED <<args, n, star, match, answer>>

Finish ==
    /\ Trailing /\ ~AtStar
    /\ answer' = IF p = Len(pattern) THEN "yes" ELSE "no"
    /\ UNCHANGED <<args, p, n, star, match>>

Next ==
    \/ Step \/ TakeStar \/ BackUp \/ Mismatch \/ SkipStar \/ Finish

Spec == Init /\ [][Next]_globVars
FairSpec == Spec /\ WF_globVars(Next)

-----------------------------------------------------------------------------
\* f lays the first i characters of the glob over the first j of the string: a
\* star spans any run, every other character exactly one that it covers.
Lays(glob, string, f, i, j) ==
    /\ f \in [0..i -> 0..Len(string)]
    /\ f[0] = 0 /\ f[i] = j
    /\ \A k \in 0..(i - 1) :
          IF glob[k + 1] = Star THEN f[k] <= f[k + 1]
          ELSE /\ f[k + 1] = f[k] + 1
               /\ glob[k + 1] \in {Any, string[f[k + 1]]}

Fits(glob, string, i, j) ==
    \E f \in [0..i -> 0..Len(string)] : Lays(glob, string, f, i, j)

GlobMatches(glob, string) == Fits(glob, string, Len(glob), Len(string))

\* What the loop answers is what the glob means: backing up to the last star
\* alone, and never to an earlier one, loses no match and invents none
\* (sshconfig.go:311-342).
AnswersTheGlob ==
    answer # "none" => (answer = "yes" <=> GlobMatches(pattern, name))

\* The loop never reads outside the strings, and the bookkeeping of the last
\* star holds: it is a star that was passed, its run ends no further than the
\* name has been read, and what follows it in the pattern has covered
\* exactly what was read since.  Each step back is thereby a step on
\* (sshconfig.go:314-337).
StarInv ==
    /\ star # None =>
          /\ star < p /\ pattern[star + 1] = Star
          /\ match <= n
          /\ Scanning => p - (star + 1) = n - match
    /\ star = None /\ Scanning => p = n

\* The loop always ends (sshconfig.go:313).
MatchEnds == <>(answer # "none")

=============================================================================
