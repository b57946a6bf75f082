----------------------------- MODULE HostsEdit ------------------------------
(***************************************************************************)
(* How the hosts file is edited (internal/config/hosts.go): a block is     *)
(* appended, or the blocks naming an alias are taken out line by line, and *)
(* everything else the user wrote by hand has to mean what it meant.       *)
(* Reading and replacing the file is in module HostsFile.                  *)
(*                                                                         *)
(* A line is its kind and what it says.  A '#' comment that is not a tag   *)
(* comment says nothing.                                                   *)
(***************************************************************************)
EXTENDS Naturals, Sequences, SequencesExt

CONSTANTS
    Aliases,  \* names of hosts
    Values,   \* what a directive may say
    Tags,     \* what a tag comment may say
    AnyHost,  \* the pattern *
    Bodies,   \* what the user may have written into the file
    MaxLines  \* a bound on the file, for TLC

VARIABLES
    body,    \* the file's lines
    lastEdit \* the edit that led to it

vars == <<body, lastEdit>>

TextLine(kind, says) == [kind |-> kind, says |-> says, quoted |-> FALSE]
Blank == TextLine("blank", {})
Comment == TextLine("comment", {})
TagLine(t) == TextLine("tags", {t})
HostLine(names) == TextLine("host", names)
MatchLine == TextLine("match", {})
Directive(v) == TextLine("set", {v})

Starts(line) == line.kind \in {"host", "match"}

HostsEditTypeOK ==
    /\ \A i \in DOMAIN body :
          /\ body[i].kind \in {"blank", "comment", "tags", "host", "match", "set"}
          /\ body[i].kind = "host" => body[i].says # {}
    /\ lastEdit.alias \in Aliases \union {"none"}

Init ==
    /\ body \in Bodies
    /\ lastEdit = [kind |-> "none", alias |-> "none"]

-----------------------------------------------------------------------------
(* What the file means: parseBlocks and resolveHost on a file of its own,  *)
(* read for one host, a line at a time.                                    *)

Covers(line, a) == line.kind = "host" /\ line.says \intersect {a, AnyHost} # {}

\* Nothing read yet: the directives that count, those of the file itself before those
\* of its blocks; whether the line is in the file itself, in a block of the host's own
\* or in another; the tag comment that waits for its Host line; and the host's tags.
Unread == [file |-> <<>>, own |-> <<>>, scope |-> "file", pending |-> {}, tags |-> {}]

\* A host's tags are those of the first block that covers it and has any.
ReadLine(r, line, a) ==
    CASE Starts(line) ->
           [r EXCEPT !.scope = IF Covers(line, a) THEN "own" ELSE "other",
                     !.tags = IF Covers(line, a) /\ @ = {} THEN r.pending ELSE @,
                     !.pending = {}]
      [] line.kind = "tags" -> [r EXCEPT !.pending = line.says]
      [] line.kind = "set" ->
           [r EXCEPT !.file = IF r.scope = "file" THEN Append(@, line.says) ELSE @,
                     !.own = IF r.scope = "own" THEN Append(@, line.says) ELSE @]
      [] OTHER -> r

ReadFor(lines, a) == FoldLeft(LAMBDA r, line : ReadLine(r, line, a), Unread, lines)

\* The directives that count for a host, in order.
Resolved(lines, a) == ReadFor(lines, a).file \o ReadFor(lines, a).own

Tagged(lines, a) == ReadFor(lines, a).tags

Named(lines, a) == \E i \in DOMAIN lines : lines[i].kind = "host" /\ a \in lines[i].says

-----------------------------------------------------------------------------
(* AddHost.                                                                *)

\* Block: a tag comment if there are tags, the Host line, its directives.
BlockOf(a, tags, v) ==
    (IF tags = {} THEN <<>> ELSE <<TextLine("tags", tags)>>)
    \o <<HostLine({a}), Directive(v)>>

Appended(lines, a, tags, v) ==
    lines
    \o (IF lines = <<>> \/ Last(lines) = Blank THEN <<>> ELSE <<Blank>>)
    \o BlockOf(a, tags, v)

\* The service has checked that nothing is named so yet.
AddHost(a) ==
    /\ ~Named(body, a)
    /\ \E tags \in {{}} \union {{t} : t \in Tags}, v \in Values :
          body' = Appended(body, a, tags, v)
    /\ Len(body') <= MaxLines
    /\ lastEdit' = [kind |-> "add", alias |-> a]

-----------------------------------------------------------------------------
(* RemoveHost.                                                             *)

\* Fault: the lines below are not looked at for the next block.
BlockEndMissed(lines, from) == Len(lines) + 1

BlockEnd(lines, from) ==
    LET after == SelectInSubSeq(lines, from + 1, Len(lines), Starts)
    IN  IF after = 0 THEN Len(lines) + 1 ELSE after

\* The block's last directive; the blank lines and comments below it stay.
BlockStop(lines, from) ==
    SelectLastInSubSeq(lines, from, BlockEnd(lines, from) - 1,
                       LAMBDA l : l.kind \notin {"blank", "comment", "tags"})

\* Fault: every comment above a block goes with it.
DropComments(kept) ==
    SubSeq(kept, 1, SelectLastInSeq(kept, LAMBDA l : l.kind \notin {"blank", "tags", "comment"}))

DropPreamble(kept) ==
    SubSeq(kept, 1, SelectLastInSeq(kept, LAMBDA l : l.kind \notin {"blank", "tags"}))

\* One line of the loop of withoutHost: at is where the loop goes on.
WithoutLine(lines, a, edit, i) ==
    LET line == lines[i]
        rest == line.says \ {a}
        stop == BlockStop(lines, i)
        after == SelectInSubSeq(lines, stop + 1, Len(lines), LAMBDA l : l # Blank)
        kept == DropPreamble(edit.kept)
    IN  IF edit.refused \/ i < edit.at THEN edit
        ELSE IF line.kind # "host" \/ a \notin line.says
                THEN [edit EXCEPT !.kept = Append(@, line)]
        ELSE IF rest # {} /\ line.quoted
                THEN [edit EXCEPT !.refused = TRUE]
        ELSE IF rest # {}
                THEN [edit EXCEPT !.kept = Append(@, [line EXCEPT !.says = rest])]
        ELSE [edit EXCEPT
                !.at = IF after = 0 THEN Len(lines) + 1 ELSE after,
                !.kept = IF after = 0 \/ kept = <<>> THEN kept ELSE Append(kept, Blank)]

WithoutHost(lines, a) ==
    FoldLeftDomain(LAMBDA edit, i : WithoutLine(lines, a, edit, i),
                   [kept |-> <<>>, at |-> 1, refused |-> FALSE], lines)

\* A file that does not name the alias, or names it on a line a hand quoted, is
\* left as it is.
RemoveHost(a) ==
    /\ Named(body, a)
    /\ ~WithoutHost(body, a).refused
    /\ body' = WithoutHost(body, a).kept
    /\ lastEdit' = [kind |-> "remove", alias |-> a]

Next == \E a \in Aliases : AddHost(a) \/ RemoveHost(a)

Spec == Init /\ [][Next]_vars

-----------------------------------------------------------------------------
\* Each tag comment stands above the Host line it is for, with nothing but blank
\* lines and other tag comments between.
TagsAbove(lines) ==
    \A i \in DOMAIN lines : lines[i].kind = "tags" =>
       LET next == SelectInSubSeq(lines, i + 1, Len(lines),
                                  LAMBDA l : l.kind \notin {"blank", "tags"})
       IN  next # 0 /\ lines[next].kind = "host"

\* An edit changes what the file says of the host it names and of no other: the
\* directives of the others are as they were, in their order (hosts.go:122-124,
\* 160-162, 186-189).
OthersResolveTheSame ==
    [][\A a \in Aliases \ {lastEdit'.alias} : Resolved(body', a) = Resolved(body, a)]_vars

\* Where tag comments stand above their hosts, no host gets or loses a tag by an
\* edit of another (hosts.go:162-164).
TagsStayPut ==
    [][TagsAbove(body) =>
          \A a \in Aliases \ {lastEdit'.alias} : Tagged(body', a) = Tagged(body, a)]_vars

\* Every mention goes, on whatever Host line it stands (hosts.go:186-189).
NoMentionIsLeft ==
    [][lastEdit'.kind = "remove" => ~Named(body', lastEdit'.alias)]_vars

\* The line of the Host or Match block that line i is in, 0 for the file itself.
Owner(lines, i) == SelectLastInSubSeq(lines, 1, i, Starts)

\* Line i is between the Host line of a block of a's alone and the block's last
\* directive.
InOwnBlock(lines, i, a) ==
    LET h == Owner(lines, i)
    IN  /\ h # 0 /\ lines[h].kind = "host" /\ lines[h].says = {a}
        /\ i = h \/ \E j \in i..Len(lines) : lines[j].kind = "set" /\ Owner(lines, j) = h

\* What a removal of a has to leave, but for blank lines and tags.
ByHand(lines, a) ==
    FoldLeftDomain(
        LAMBDA r, i : IF lines[i].kind \in {"blank", "tags"} \/ InOwnBlock(lines, i, a)
                         THEN r
                         ELSE Append(r, [lines[i] EXCEPT
                                 !.says = IF lines[i].kind = "host" THEN @ \ {a} ELSE @]),
        <<>>, lines)

\* A file but for its blank lines and tags.  src/README.md:354-356 says of blank lines too
\* that a removal leaves them; those above and below the block it takes are not covered.
HandWritten(lines) ==
    FoldLeft(LAMBDA r, line : IF line.kind \in {"blank", "tags"} THEN r ELSE Append(r, line),
             <<>>, lines)

\* Blank lines and tag comments aside, which HandWritten leaves out, a removal takes the
\* lines of the host's own blocks and nothing more: other comments and directives stay,
\* in their order (hosts.go:160-162, 223-227).
HandWrittenStays ==
    [][lastEdit'.kind = "remove" =>
          HandWritten(body') = ByHand(body, lastEdit'.alias)]_vars

\* An edit is about one host, and what the user wrote about the others stays, but for
\* blank lines, and for tags where a tag comment stands elsewhere than above its host.
EditsTouchOneHost == OthersResolveTheSame /\ TagsStayPut /\ NoMentionIsLeft /\ HandWrittenStays

\* Removing what was just added leaves the file as it was (hosts.go:230-249).
RemoveUndoesAdd ==
    \A a \in Aliases, v \in Values, t \in Tags :
       (/\ ~Named(body, a)
        /\ body = <<>> \/ Last(body) # Blank
        /\ TagsAbove(body))
       => WithoutHost(Appended(body, a, {t}, v), a).kept = body

(* Claims of the code that do not hold.                                    *)

\* hosts.go:162-164 says that a block takes its tag comment with it, which would
\* otherwise label a host nobody tagged.  With another comment between the two,
\* it stays, and does.
NobodyIsTagged ==
    [][lastEdit'.kind = "remove" =>
          \A a \in Aliases : Tagged(body', a) \subseteq Tagged(body, a)]_vars

\* src/README.md:354-356 says that blank lines survive a removal untouched.  Those above
\* the block it takes, and below, make way for one, or for none at an end of the file.
BlankLinesSurvive ==
    [][lastEdit'.kind = "remove" =>
          \A k \in 1..MaxLines :
             (\E i \in DOMAIN body :
                 /\ i + k \in DOMAIN body
                 /\ \A j \in i..(i + k) : body[j] = Blank /\ ~InOwnBlock(body, j, lastEdit'.alias))
             => \E i \in DOMAIN body' : i + k \in DOMAIN body'
                                        /\ \A j \in i..(i + k) : body'[j] = Blank]_vars

=============================================================================
