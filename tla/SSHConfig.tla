----------------------------- MODULE SSHConfig ------------------------------
(***************************************************************************)
(* Reading ssh config files (internal/config/sshconfig.go): parseBlocks,   *)
(* one line at a time with a frame for each Include in progress, and the   *)
(* resolution of a name against the blocks it leaves.                      *)
(*                                                                         *)
(* A pattern is the set of names it covers (module GlobMatch is the        *)
(* matching itself).  One directive stands for all, since none bears on    *)
(* another, and its value is the place it was written at.  Comments, tags  *)
(* and blank lines are in module HostsEdit.                                *)
(*                                                                         *)
(* The condition of a Match line is written as the patterns of the names   *)
(* it holds for, which ssh goes by and ohmyssh does not.  A "nothing" line *)
(* is an Include of no file, or of what is no pattern; a "broken" one is   *)
(* where a file cannot be read on, or what an Include names cannot be      *)
(* opened.  A file that is missing is one without lines.                   *)
(***************************************************************************)
EXTENDS Naturals, Sequences, SequencesExt

CONSTANTS
    Names,           \* what a host may be called
    Files, Paths,    \* the files there are, and those read, in order
    Contents,        \* what the files may hold: functions from Files to lines
    MaxIncludeDepth  \* maxIncludeDepth, 16 in the code

VARIABLES
    files,  \* what the files hold
    unread, \* the rest of Paths
    stack,  \* a frame for each parseBlocks in progress, the innermost last
    blocks, \* the blocks of the files read so far
    status  \* "reading", "read" or "failed"

vars == <<files, unread, stack, blocks, status>>

-----------------------------------------------------------------------------
(* Patterns, and whether a block's cover a name.                           *)

Alias(a) == [neg |-> FALSE, kind |-> "alias", covers |-> {a}]
Glob(S) == [neg |-> FALSE, kind |-> "glob", covers |-> S]
CatchAll == [neg |-> FALSE, kind |-> "all", covers |-> Names]
Not(a) == [neg |-> TRUE, kind |-> "alias", covers |-> {a}]

BlockMatches(patterns, name) ==
    /\ \E pat \in patterns : ~pat.neg /\ name \in pat.covers
    /\ ~\E pat \in patterns : pat.neg /\ name \in pat.covers

EnclosingMatches(enclosing, name) ==
    \A k \in DOMAIN enclosing : BlockMatches(enclosing[k], name)

IsCatchAll(patterns) == CatchAll \in patterns

-----------------------------------------------------------------------------
NoBlock == [isMatch |-> FALSE, patterns |-> {}, values |-> <<>>,
            line |-> <<>>, enclosing |-> <<>>]

Block(patterns, isMatch, line, enclosing) ==
    [isMatch |-> isMatch, patterns |-> patterns, values |-> <<>>,
     line |-> line, enclosing |-> enclosing]

\* parseBlocks(path, depth, enclosing) as it begins.
Frame(file, enclosing) ==
    [file |-> file, at |-> 0, enclosing |-> enclosing, blocks |-> <<>>,
     global |-> <<>>, current |-> NoBlock]

SSHConfigTypeOK ==
    /\ status \in {"reading", "read", "failed"}
    /\ Len(stack) \in 0..(MaxIncludeDepth + 1)
    /\ \A k \in DOMAIN stack : stack[k].at \in 0..Len(files[stack[k].file])
    /\ status = "read" => stack = <<>> /\ unread = <<>>
    /\ \A k \in DOMAIN blocks : blocks[k].isMatch \/ blocks[k].patterns # {}

Init ==
    /\ files \in Contents
    /\ unread = Tail(Paths)
    /\ stack = <<Frame(Head(Paths), <<>>)>>
    /\ blocks = <<>>
    /\ status = "reading"

Top == stack[Len(stack)]
Here == <<Top.file, Top.at + 1>>
Line == files[Top.file][Top.at + 1]

AtLine(kind) ==
    /\ status = "reading" /\ stack # <<>>
    /\ Top.at < Len(files[Top.file])
    /\ Line.kind = kind

\* The innermost call goes on to its next line as frame.
Advance(frame) ==
    /\ stack' = [stack EXCEPT ![Len(stack)] = [frame EXCEPT !.at = @ + 1]]
    /\ UNCHANGED <<files, unread, blocks, status>>

Closed(frame) ==
    IF frame.current = NoBlock THEN frame.blocks
    ELSE Append(frame.blocks, frame.current)

Open(patterns, isMatch) ==
    [Top EXCEPT !.blocks = Closed(Top),
                !.current = Block(patterns, isMatch, Here, Top.enclosing)]

HostLine == AtLine("host") /\ Advance(Open(Line.patterns, FALSE))

\* The condition is not looked at.
MatchLine == AtLine("match") /\ Advance(Open({}, TRUE))

DirectiveLine ==
    /\ AtLine("set")
    /\ Advance(IF Top.current = NoBlock
               THEN [Top EXCEPT !.global = Append(@, Here)]
               ELSE [Top EXCEPT !.current.values = Append(@, Here)])

\* The block around an Include, if it recorded anything, ends above what is
\* included and goes on below it.
Split(frame) ==
    IF frame.current # NoBlock /\ frame.current.values # <<>>
       THEN [frame EXCEPT !.blocks = Append(@, frame.current),
                          !.current.values = <<>>]
       ELSE frame

\* What an included file is read inside.
Inner(frame) ==
    IF frame.current # NoBlock /\ ~frame.current.isMatch
       THEN Append(frame.enclosing, frame.current.patterns)
       ELSE frame.enclosing

Descend(frame, enclosing) ==
    /\ stack' = Append([stack EXCEPT ![Len(stack)] = [frame EXCEPT !.at = @ + 1]],
                       Frame(Line.file, enclosing))
    /\ UNCHANGED <<files, unread, blocks, status>>

\* Fault: the block around an Include is left open.
IncludeUnsplit ==
    /\ AtLine("include") /\ Len(stack) <= MaxIncludeDepth
    /\ Descend(Top, Inner(Top))

\* Fault: nothing bounds how deep Includes go.
IncludeUnbounded ==
    /\ AtLine("include")
    /\ Descend(Split(Top), Inner(Top))

IncludeLine ==
    /\ AtLine("include") /\ Len(stack) <= MaxIncludeDepth
    /\ Descend(Split(Top), Inner(Top))

\* No file matches, or the pattern is malformed, which is skipped without a word.
IncludeNothing == AtLine("nothing") /\ Advance(Split(Top))

\* The whole read fails, whatever file it was in.
Refuse ==
    /\ status' = "failed"
    /\ UNCHANGED <<files, unread, stack, blocks>>

IncludeTooDeep == AtLine("include") /\ Len(stack) > MaxIncludeDepth /\ Refuse

Unreadable == AtLine("broken") /\ Refuse

\* What parseBlocks returns: the file's own defaults lead.
Parsed(frame) ==
    LET defaults == [Block({CatchAll}, FALSE, <<>>, frame.enclosing)
                     EXCEPT !.values = frame.global]
    IN  (IF frame.global = <<>> THEN <<>> ELSE <<defaults>>) \o Closed(frame)

EndOfFile ==
    /\ status = "reading" /\ stack # <<>>
    /\ Top.at = Len(files[Top.file])
    /\ IF Len(stack) > 1
          THEN /\ stack' = [k \in 1..(Len(stack) - 1) |->
                              IF k = Len(stack) - 1
                                 THEN [stack[k] EXCEPT !.blocks = @ \o Parsed(Top)]
                                 ELSE stack[k]]
               /\ UNCHANGED blocks
          ELSE stack' = <<>> /\ blocks' = blocks \o Parsed(Top)
    /\ UNCHANGED <<files, unread, status>>

\* parseFiles goes on to the next path, or hands the blocks back.
NextPath ==
    /\ status = "reading" /\ stack = <<>>
    /\ IF unread = <<>> THEN status' = "read" /\ UNCHANGED <<unread, stack>>
       ELSE /\ stack' = <<Frame(Head(unread), <<>>)>>
            /\ unread' = Tail(unread)
            /\ UNCHANGED status
    /\ UNCHANGED <<files, blocks>>

Next ==
    \/ HostLine \/ MatchLine \/ DirectiveLine
    \/ IncludeLine \/ IncludeNothing \/ IncludeTooDeep \/ Unreadable
    \/ EndOfFile \/ NextPath

Spec == Init /\ [][Next]_vars

-----------------------------------------------------------------------------
(* resolveBlocks and resolveHost.                                          *)

Applies(b, name) ==
    /\ ~b.isMatch
    /\ BlockMatches(b.patterns, name)
    /\ EnclosingMatches(b.enclosing, name)

Earliest(S) == CHOOSE k \in S : \A m \in S : k <= m

\* The first value obtained, or none.
Value(name) ==
    LET set == {k \in DOMAIN blocks : Applies(blocks[k], name) /\ blocks[k].values # <<>>}
    IN  IF set = {} THEN <<>> ELSE Head(blocks[Earliest(set)].values)

\* Where the host is said to come from: SourceFile and LineNumber.
Source(name) ==
    LET own == {k \in DOMAIN blocks :
                   Applies(blocks[k], name) /\ ~IsCatchAll(blocks[k].patterns)}
    IN  IF own = {} THEN <<>> ELSE blocks[Earliest(own)].line

\* The hosts listed.
Offered ==
    {a \in Names : \E k \in DOMAIN blocks :
       /\ ~blocks[k].isMatch /\ Alias(a) \in blocks[k].patterns
       /\ EnclosingMatches(blocks[k].enclosing, a)}

\* ResolveName: whether a name with no alias of its own is defined at all.
Defined(name) ==
    \E k \in DOMAIN blocks :
       Applies(blocks[k], name) /\ ~IsCatchAll(blocks[k].patterns)

-----------------------------------------------------------------------------
(* How ssh reads the same files for one host: line by line, taking values  *)
(* while the block it is in covers the host, and reading an Include where  *)
(* it stands, when it stands in a block that does.                         *)

\* The lines looked for: one that gives a value, the Host lines that name the host,
\* and those that cover it and are not a catch-all.  around and scope say whether the
\* file, and the block the line stands in, are read for the host: "in" or "out".
Wanted(what, name, line, around, scope) ==
    \/ what = "value" /\ line.kind = "set" /\ scope = "in"
    \/ /\ line.kind = "host" /\ around = "in"
       /\ \/ what = "declared" /\ Alias(name) \in line.patterns
          \/ /\ what = "defined"
             /\ BlockMatches(line.patterns, name) /\ ~IsCatchAll(line.patterns)

\* Line i of file f, after those that left ssh in scope s.scope and at s.found with the
\* first line wanted; within has what is found in each file that may be included.
SshLine(what, name, f, around, within, s, i) ==
    LET line == files[f][i]
    IN  [scope |->
            IF line.kind \notin {"host", "match"} THEN s.scope
            ELSE IF around = "in" /\ BlockMatches(line.patterns, name) THEN "in" ELSE "out",
         found |->
            IF s.found # <<>> THEN s.found
            ELSE IF Wanted(what, name, line, around, s.scope) THEN <<f, i>>
            ELSE IF line.kind = "include" THEN within[<<line.file, s.scope>>]
            ELSE <<>>]

SshFile(what, name, f, around, within) ==
    FoldLeftDomain(LAMBDA s, i : SshLine(what, name, f, around, within, s, i),
                   [scope |-> around, found |-> <<>>], files[f])

\* What is found in each file, read with so many levels of Includes at most.
SshWithin(what, name) ==
    LET within[levels \in 0..(MaxIncludeDepth + 1)] ==
          [p \in Files \X {"in", "out"} |->
             IF levels = 0 THEN <<>>
             ELSE SshFile(what, name, p[1], p[2], within[levels - 1]).found]
    IN  within

\* The place of the first line wanted of all that ssh reads.
Ssh(what, name) ==
    FoldLeft(LAMBDA found, f :
                IF found # <<>> THEN found
                ELSE SshWithin(what, name)[MaxIncludeDepth + 1][<<f, "in">>],
             <<>>, Paths)

\* No file writes one of its own defaults below an Include at file scope.
DefaultsLead ==
    \A f \in Files : \A i, j \in DOMAIN files[f] :
       /\ files[f][i].kind = "include" /\ files[f][j].kind = "set" /\ i < j
       => \E k \in 1..j : files[f][k].kind \in {"host", "match"}

\* The condition of no Match line holds for the name, and no Include stands below one.
MatchApart(name) ==
    \A f \in Files : \A i \in DOMAIN files[f] : files[f][i].kind = "match" =>
       /\ ~BlockMatches(files[f][i].patterns, name)
       /\ \A j \in i..Len(files[f]) : files[f][j].kind = "include" =>
             \E k \in i..j : files[f][k].kind = "host"

\* Reading the files into blocks once and resolving names against them later gives
\* every host that no Match block bears on the value ssh obtains by reading them for
\* it: Includes count where they stand and only where the block around them does, what
\* a Match block sets goes to no other host, and of several files the first wins
\* (sshconfig.go:124-132, 397-426, 464-471).
ValuesAsSsh ==
    status = "read" /\ DefaultsLead =>
       \A a \in Names : MatchApart(a) => Value(a) = Ssh("value", a)

\* Such a host is offered exactly if a Host line ssh would read for it names it
\* (sshconfig.go:202-207), and a name without an alias resolves exactly if one
\* that is not a catch-all covers it (sshconfig.go:157-166).
NamesAsSsh ==
    status = "read" =>
       \A a \in Names : MatchApart(a) =>
          /\ a \in Offered <=> Ssh("declared", a) # <<>>
          /\ Defined(a) <=> Ssh("defined", a) # <<>>

Includes(f, g) ==
    \E i \in DOMAIN files[f] : files[f][i].kind = "include" /\ files[f][i].file = g

\* The ways down from the files that are read, of so many Includes.
Chains(m) ==
    {chain \in [0..m -> Files] :
       /\ \E p \in DOMAIN Paths : Paths[p] = chain[0]
       /\ \A k \in 1..m : Includes(chain[k - 1], chain[k])}

NestTooDeep == Chains(MaxIncludeDepth + 1) # {}

\* They lead to a line that cannot be read.
ReachesBroken ==
    \E m \in 0..MaxIncludeDepth : \E chain \in Chains(m) :
       \E i \in DOMAIN files[chain[m]] : files[chain[m]][i].kind = "broken"

\* They lead around for ever: among some files, one of them read, each includes one.
IncludesLoop ==
    \E loop \in SUBSET Files :
       /\ \E p \in DOMAIN Paths : Paths[p] \in loop
       /\ \A f \in loop : \E g \in loop : Includes(f, g)

\* A config is refused exactly if its Includes nest too deep, as those of one that
\* includes itself always do, or a part of it cannot be read: no file that an Include
\* names is passed over without a word, in whatever block or file it stands
\* (sshconfig.go:344-361, 441-453, 482-484).
LoopsAreRefused ==
    status # "reading" => /\ status = "failed" <=> NestTooDeep \/ ReachesBroken
                          /\ IncludesLoop => status = "failed"

\* What the files are read as is what ssh makes of them, Match blocks aside.
ReadsAsSsh == ValuesAsSsh /\ NamesAsSsh /\ LoopsAreRefused

(* Claims of the code that do not hold.                                    *)

\* sshconfig.go:397-399 says that an Include is read where its line is, and that
\* the values it sets compete for first-value-wins like any other.  A file's
\* defaults win over what it includes also when they are written below it.
IncludesCountInPlace ==
    status = "read" => \A a \in Names : MatchApart(a) => Value(a) = Ssh("value", a)

\* src/README.md:287-288 says that Match blocks behave as they do in ssh.  Nothing is taken
\* from one, also where its condition holds, and an Include in one is read where it does
\* not.
MatchCounts ==
    status = "read" /\ DefaultsLead => \A a \in Names : Value(a) = Ssh("value", a)

\* sshconfig.go:31-32 says that SourceFile and LineNumber are where the alias came
\* from.  A pattern that covers it takes its place.
SourceNamesTheAlias ==
    status = "read" =>
       \A a \in Offered : Source(a) # <<>> =>
          Alias(a) \in files[Source(a)[1]][Source(a)[2]].patterns

=============================================================================
