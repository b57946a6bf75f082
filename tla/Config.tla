------------------------------- MODULE Config -------------------------------
(***************************************************************************)
(* The two ends of the config: how ohmyssh writes a host that is typed     *)
(* (HostBlock), how it edits its hosts file (HostsEdit), and how it reads  *)
(* that file after the user's own (SSHConfig).  Each runs with the others  *)
(* at rest.                                                                *)
(***************************************************************************)
EXTENDS Naturals, Sequences

CONSTANTS
    Aliases, Values, Tags, AnyHost, MaxLines, \* what a hosts file may hold
    Bodies,                                   \* what it holds before the first edit
    Files, Paths, Contents, MaxIncludeDepth,  \* what is read
    Typed, NoHost                             \* what is typed

VARIABLES
    part, \* which of them runs
    body, lastEdit,
    files, unread, stack, blocks, status,
    form, block, read, stage

Read == INSTANCE SSHConfig WITH Names <- Aliases
Edit == INSTANCE HostsEdit
Form == INSTANCE HostBlock

-----------------------------------------------------------------------------
(* What the lines of a config may be, and those of a hosts file.           *)

Patterns == [neg : BOOLEAN, kind : {"alias", "glob", "all"}, covers : SUBSET Aliases]

ConfigLines ==
    {l \in [kind : {"host", "match", "set", "include", "nothing", "broken"},
            patterns : SUBSET Patterns, file : Files \union {"none"}] :
       /\ l.kind = "host" => l.patterns # {}
       /\ l.kind = "include" => l.file \in Files}

HostsLines ==
    {l \in [kind : {"blank", "comment", "tags", "host", "match", "set"},
            says : SUBSET (Aliases \union {AnyHost} \union Values \union Tags),
            quoted : BOOLEAN] :
       /\ l.kind = "host" => l.says # {}
       /\ l.kind = "blank" => l = Edit!Blank}

\* An Include names a file that may be read, and a Host line at least one pattern.
ASSUME ReadAssumption ==
    /\ Paths \in Seq(Files) /\ Paths # <<>>
    /\ Contents \subseteq [Files -> Seq(ConfigLines)]
    /\ MaxIncludeDepth \in Nat

\* No host is called * (Validate refuses it, hosts.go:66-71).
ASSUME EditAssumption ==
    /\ AnyHost \notin Aliases /\ "none" \notin Aliases
    /\ Bodies \subseteq Seq(HostsLines)
    /\ MaxLines \in Nat

ASSUME TypedAssumption == Typed \subseteq [alias : Form!Texts, host : Form!Texts, tags : Form!Texts]

-----------------------------------------------------------------------------
formVars == <<form, block, read, stage>>
editVars == <<body, lastEdit>>
readVars == <<files, unread, stack, blocks, status>>
vars == <<part, formVars, editVars, readVars>>

Init ==
    /\ part \in {"form", "edit", "read"}
    /\ IF part = "form" THEN Form!Init
                        ELSE form = <<>> /\ block = <<>> /\ read = NoHost /\ stage = "none"
    /\ IF part = "edit" THEN Edit!Init
                        ELSE body = <<>> /\ lastEdit = [kind |-> "none", alias |-> "none"]
    /\ IF part = "read" THEN Read!Init
                        ELSE files = <<>> /\ unread = <<>> /\ stack = <<>> /\ blocks = <<>>
                             /\ status = "none"

Next ==
    /\ UNCHANGED part
    /\ \/ part = "edit" /\ Edit!Next /\ UNCHANGED <<formVars, readVars>>
       \/ part = "read" /\ Read!Next /\ UNCHANGED <<formVars, editVars>>
       \/ part = "form" /\ Form!Next /\ UNCHANGED <<editVars, readVars>>

Spec == Init /\ [][Next]_vars

-----------------------------------------------------------------------------
\* The types of the modules; Includes are never nested deeper than the bound of the
\* code (sshconfig.go:344-352).
ConfigTypeOK ==
    /\ Edit!HostsEditTypeOK
    /\ part = "read" => Read!SSHConfigTypeOK
    /\ part = "form" => Form!HostBlockTypeOK

\* What the files are read as is what ssh makes of them: which value a host that no
\* Match block bears on gets, which such hosts are offered, and which configs are
\* refused (sshconfig.go:124-166, 202-207, 344-361, 397-471, 482-484).
ReadsAsSsh == part = "read" => Read!ReadsAsSsh

\* An edit changes what the file says of one host, and takes every mention of the one
\* it removes and, blank lines and tag comments aside, no line of the user's
\* (hosts.go:122-124, 160-164, 186-189, 223-227).
EditsTouchOneHost == Edit!EditsTouchOneHost

\* What is added is what was typed (hosts.go:37-45, hosts_test.go:196-197), and removing
\* it leaves the file as it was (hosts.go:230-249).
AddsAreExact == (part = "form" => Form!ReadsBack) /\ Edit!RemoveUndoesAdd

\* Not so: see IncludesCountInPlace in SSHConfig (sshconfig.go:397-399).
IncludesCountInPlace == part = "read" => Read!IncludesCountInPlace

=============================================================================
