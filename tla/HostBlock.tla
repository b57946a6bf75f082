----------------------------- MODULE HostBlock ------------------------------
(***************************************************************************)
(* A host from the add form to the list and back: the fields as the form   *)
(* takes them (spec, splitTags, internal/ui/hostform.go), the check and    *)
(* the lines that are written (Validate, Block, internal/config/hosts.go), *)
(* and what those lines are read as (parseBlocks and what it calls,        *)
(* internal/config/sshconfig.go).                                          *)
(*                                                                         *)
(* A text is a sequence of characters, as many kinds as the code tells     *)
(* apart; * stands for itself, ? and !, which an alias may not hold.  The  *)
(* user and the port are written and read as the address is.               *)
(***************************************************************************)
EXTENDS Naturals, Sequences, SequencesExt

CONSTANTS
    Typed,  \* what the user may type: records of alias, host and tags
    NoHost  \* nothing read yet

VARIABLES
    form,  \* the fields of the add form, as typed
    block, \* the lines written, none before that and if the host is refused
    read,  \* what the lines are read as
    stage  \* "typing", "refused", "written" or "read"

vars == <<form, block, read, stage>>

Chars == {"x", "=", "#", "*", "\"", ",", " "}
Texts == Seq(Chars)

Holds(text, char) == \E i \in DOMAIN text : text[i] = char
StartsWith(text, char) == text # <<>> /\ Head(text) = char

\* strings.TrimSpace.
Trim(text) ==
    LET first == SelectInSeq(text, LAMBDA c : c # " ")
        last == SelectLastInSeq(text, LAMBDA c : c # " ")
    IN  IF first = 0 THEN <<>> ELSE SubSeq(text, first, last)

\* strings.TrimPrefix.
Without(text, prefix) == IF StartsWith(text, prefix) THEN Tail(text) ELSE text

\* The parts of a text between the characters of a set.
Parts(text, separators) ==
    FoldLeft(LAMBDA parts, c : IF c \in separators THEN Append(parts, <<>>)
                               ELSE Append(Front(parts), Append(Last(parts), c)),
             << <<>> >>, text)

NotEmpty(parts) ==
    FoldLeft(LAMBDA kept, p : IF p = <<>> THEN kept ELSE Append(kept, p), <<>>, parts)

-----------------------------------------------------------------------------
(* The form, the check and the lines.                                      *)

\* spec and splitTags: the host the fields describe.
spec ==
    [alias |-> Trim(form.alias), host |-> Trim(form.host),
     tags |-> NotEmpty(Parts(form.tags, {",", " "}))]

\* Fault: a space in a field is let through.
UsableAnyway(text) == TRUE

usableField(text) == ~Holds(text, " ")

Validate(h) ==
    /\ h.alias # <<>> /\ usableField(h.alias) /\ ~Holds(h.alias, "*") /\ ~Holds(h.alias, "#")
    /\ usableField(h.host)
    /\ \A i \in DOMAIN h.tags : usableField(h.tags[i]) /\ ~Holds(h.tags[i], ",")

\* A line is its keyword and what stands behind it.
writeDirective(key, value) ==
    IF value = <<>> THEN <<>> ELSE <<[key |-> key, text |-> <<" ">> \o value]>>

TagText(tags) ==
    FoldLeft(LAMBDA text, t : text \o (IF text = <<>> THEN <<" ">> ELSE <<",", " ">>) \o t,
             <<>>, tags)

Block(h) ==
    (IF h.tags = <<>> THEN <<>> ELSE <<[key |-> "# Tags:", text |-> TagText(h.tags)]>>)
    \o <<[key |-> "Host", text |-> <<" ">> \o h.alias]>>
    \o writeDirective("HostName", h.host)

-----------------------------------------------------------------------------
(* What a line is read as.                                                 *)

\* parseTagComment: the tags of a comment, none if it is another.
TagsRead(text) ==
    LET tag(part) == Trim(Without(Trim(part), "#"))
        parts == Parts(text, {","})
    IN  NotEmpty([i \in DOMAIN parts |-> tag(parts[i])])

\* stripComment: a '#' at the start of a token ends the line.
stripComment(text) ==
    LET hash == SelectInSeq([i \in DOMAIN text |-> i > 1 /\ text[i] = "#" /\ text[i - 1] = " "],
                            LAMBDA here : here)
    IN  IF hash = 0 THEN text ELSE SubSeq(text, 1, hash - 1)

unquote(text) ==
    IF Len(text) >= 2 /\ Head(text) = "\"" /\ Last(text) = "\""
    THEN SubSeq(text, 2, Len(text) - 1) ELSE text

\* splitDirective, of what follows the keyword.
ValueOf(text) == Trim(unquote(Trim(Without(Trim(stripComment(text)), "="))))

\* splitFields: words, in which a quoted space is a character like another.
splitFields(text) ==
    LET step(s, c) ==
            IF c = "\"" THEN [s EXCEPT !.quoted = ~@]
            ELSE IF c = " " /\ ~s.quoted THEN [s EXCEPT !.words = Append(@, <<>>)]
            ELSE [s EXCEPT !.words = Append(Front(@), Append(Last(@), c))]
    IN  NotEmpty(FoldLeft(step, [words |-> << <<>> >>, quoted |-> FALSE], text).words)

\* The text of the first line with a keyword, nothing if there is none.
LineOf(key) ==
    LET at == SelectInSeq(block, LAMBDA l : l.key = key)
    IN  IF at = 0 THEN <<>> ELSE block[at].text

\* parseBlocks and resolveHost, on the lines of one host: the names it has, where it
\* is, and its tags.
ReadBack ==
    [names |-> splitFields(ValueOf(LineOf("Host"))),
     host |-> ValueOf(LineOf("HostName")),
     tags |-> TagsRead(LineOf("# Tags:"))]

-----------------------------------------------------------------------------
Init ==
    /\ form \in Typed
    /\ block = <<>> /\ read = NoHost /\ stage = "typing"

\* submitForm, and AddHost of a service and a file that have nothing against it.
Submit ==
    /\ stage = "typing"
    /\ IF Validate(spec) THEN block' = Block(spec) /\ stage' = "written"
       ELSE UNCHANGED block /\ stage' = "refused"
    /\ UNCHANGED <<form, read>>

\* The list is read again.
Reload ==
    /\ stage = "written"
    /\ read' = ReadBack /\ stage' = "read"
    /\ UNCHANGED <<form, block>>

Next == Submit \/ Reload

Spec == Init /\ [][Next]_vars

-----------------------------------------------------------------------------
(* Properties.                                                             *)

HostBlockTypeOK ==
    /\ form \in [alias : Texts, host : Texts, tags : Texts]
    /\ block \in Seq([key : {"# Tags:", "Host", "HostName"}, text : Texts])
    /\ read # NoHost => read \in [names : Seq(Texts), host : Texts, tags : Seq(Texts)]
    /\ stage \in {"typing", "refused", "written", "read"}

\* Nothing in a host is the config's own punctuation: no quote in the alias, none
\* around the address, no '=' at the head of either, no '#' at the head of the address
\* or of a tag.
Plain(h) ==
    /\ ~Holds(h.alias, "\"") /\ ~StartsWith(h.alias, "=")
    /\ unquote(h.host) = h.host /\ ~StartsWith(h.host, "=") /\ ~StartsWith(h.host, "#")
    /\ \A i \in DOMAIN h.tags : ~StartsWith(h.tags[i], "#")

Meant == [names |-> <<spec.alias>>, host |-> spec.host, tags |-> spec.tags]

\* A host that passes the check is read back from the file as the host that was typed,
\* unless punctuation stands where the reader takes it for its own; and then still it
\* has one name at most, so no line of the form defines two hosts (hosts.go:37-45,
\* hosts_test.go:196-197).
ReadsBack ==
    stage = "read" => /\ Plain(spec) => read = Meant
                      /\ Len(read.names) <= 1

(* Claims of the code that do not hold.                                    *)

\* hosts.go:37-38 has Validate tell whether the fields are "read back as the host the
\* user meant", and hosts_test.go:196-197 calls the round trip the whole contract of
\* form and parser.  An alias =web, which no host has, is read as another block of web;
\* a quote in an alias goes, and a tag #prod comes back without its sign.
ReadsBackAsMeant == stage = "read" => read = Meant

=============================================================================
