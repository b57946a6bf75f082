------------------------------ MODULE MCConfig ------------------------------
(***************************************************************************)
(* The two ends of the config for TLC: every text or file that is short    *)
(* enough.                                                                 *)
(***************************************************************************)
EXTENDS Config, SequencesExt, TLC

CONSTANT MaxText \* a bound on what is typed

(* The files: the user's config, the file it may include, and the file     *)
(* ohmyssh writes.                                                         *)

ConfigPaths == <<"config", "hosts">>
ConfigFiles == {"config", "extra", "hosts"}

Pattern(neg, kind, covers) == [neg |-> neg, kind |-> kind, covers |-> covers]
Alias(a) == Pattern(FALSE, "alias", {a})

TextLine(kind, patterns, file) == [kind |-> kind, patterns |-> patterns, file |-> file]
Host(patterns) == TextLine("host", patterns, "none")
\* A Match line whose condition holds for b alone.
Match == TextLine("match", {Alias("b")}, "none")
Set == TextLine("set", {}, "none")
Include(f) == TextLine("include", {}, f)
Nothing == TextLine("nothing", {}, "none")
Broken == TextLine("broken", {}, "none")

UpTo(k, S) == UNION {[1..m -> S] : m \in 0..k}

Plain ==
    {Host({Alias("a")}), Host({Pattern(FALSE, "all", Aliases)}),
     Host({Pattern(FALSE, "glob", Aliases), Pattern(TRUE, "alias", {"a"})}),
     Match, Set}

\* One config and the file it may include, which may include itself.
Nested ==
    [config : UpTo(4, Plain \union {Include("extra")}),
     extra : UpTo(2, Plain \union {Include("extra")}),
     hosts : {<<>>}]

\* The same with Includes of no file, and lines that cannot be read.
Faulty ==
    [config : UpTo(3, {Host({Alias("a")}), Match, Set, Include("extra"), Nothing, Broken}),
     extra : UpTo(2, {Host({Alias("a")}), Set, Include("extra"), Nothing, Broken}),
     hosts : {<<>>, <<Broken>>}]

\* The user's config and the file ohmyssh writes: hosts with their directives.
Added ==
    [config : UpTo(2, Plain \union {Host({Pattern(FALSE, "glob", {"a"})})}),
     extra : {<<>>},
     hosts : UpTo(4, {Host({Alias("a")}), Host({Alias("b")}), Set})]

ConfigContents == Nested \union Faulty \union Added

Line(kind, says) == [kind |-> kind, says |-> says, quoted |-> FALSE]

\* What the user may have written into the hosts file.  One line of two aliases is
\* quoted.
Written ==
    BoundedSeq({Line("blank", {}), Line("comment", {}), Line("match", {}), Line("host", {AnyHost}),
                Line("host", Aliases), [Line("host", Aliases) EXCEPT !.quoted = TRUE]}
                  \union {Line("tags", {t}) : t \in Tags}
                  \union {Line("host", {a}) : a \in Aliases}
                  \union {Line("set", {v}) : v \in Values}, 4)

\* What is typed: one field at a time holds any text, and the others a plain one.
Fields ==
    LET texts == BoundedSeq({"x", "=", "#", "*", "\"", ",", " "}, MaxText)
        fields(a, h, t) == [alias |-> a, host |-> h, tags |-> t]
    IN  {fields(t, <<"x">>, <<>>) : t \in texts} \union {fields(<<"x">>, t, <<>>) : t \in texts}
           \union {fields(<<"x">>, <<>>, t) : t \in texts}

=============================================================================
