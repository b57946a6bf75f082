---------------------------- MODULE TransferPlan -----------------------------
(***************************************************************************)
(* How what is named is measured before a transfer (PlanUpload and         *)
(* PlanDownload with the walks they begin,                                 *)
(* internal/sshclient/transfer.go): where it lands, which files are moved  *)
(* and which directories are made first.                                   *)
(*                                                                         *)
(* A tree is given by the entry each entry is in and by what each is; 0 is *)
(* the directory the transfer names.  A link to a directory may point back *)
(* up the tree.  A path is the sequence of the entries it goes through, on *)
(* either end: both walks join the same names to both roots.               *)
(***************************************************************************)
EXTENDS Naturals, Sequences, FiniteSets, SequencesExt

CONSTANT MaxEntries \* bound: the entries of a tree

MaxEntriesAssumption == MaxEntries \in Nat \ {0}

VARIABLES
    direction, \* "upload" walks this end, "download" the host
    source,    \* what is named on that end: "dir", "file" or "nothing"
    target,    \* what is named on the other end
    there,     \* what stands there, as far as Stat can tell
    root,      \* where the plan lands: a directory, and whether under its own name in it
    parent,    \* the directory each entry is in
    kind,      \* what each entry is
    stack,     \* the calls of the recursion: the path and the entries left
    dirs,      \* Plan.Dirs
    items,     \* Plan.Items
    outcome    \* "walking", "planned" or "error"

vars == <<direction, source, target, there, root, parent, kind, stack, dirs, items, outcome>>
given == <<direction, source, target, there, parent, kind>>

\* No path at all, slashes alone, and a path without and with one behind it.
Targets == {"none", "/", "path", "path/"}
Landings == [at : {".", "/", "path"}, own : BOOLEAN]
NoRoot == [at |-> "none", own |-> FALSE]

Entries == 1..MaxEntries
FileKinds == {"file", "link to file", "other"}
Kinds == FileKinds \union {"dir", "link to dir", "dangling"}

\* The directory a path ends in, as ReadDir resolves it: links lead to the root.
Resolve(path) ==
    IF path = <<>> THEN 0
    ELSE IF kind[Last(path)] = "link to dir" THEN 0 ELSE Last(path)

Inside(path) == {e \in Entries : parent[e] = Resolve(path)}

TransferPlanTypeOK ==
    /\ direction \in {"upload", "download"}
    /\ source \in {"dir", "file", "nothing"} /\ target \in Targets
    /\ there \in {"nothing", "file", "dir", "unknown"}
    /\ root \in Landings \union {NoRoot}
    /\ parent \in [Entries -> 0..MaxEntries] /\ kind \in [Entries -> Kinds]
    /\ stack \in Seq([path : Seq(Entries), left : SUBSET Entries])
    /\ Len(stack) <= MaxEntries + 1
    /\ dirs \in Seq(Seq(Entries)) /\ items \in Seq(Seq(Entries))
    /\ outcome \in {"walking", "planned", "error"}
    /\ stack # <<>> => outcome = "walking"

\* The tree matters if a directory is named, and what stands at the other end if a
\* file is.
Init ==
    /\ direction \in {"upload", "download"}
    /\ source \in {"dir", "file", "nothing"} /\ target \in Targets
    /\ there \in {"nothing", "file", "dir", "unknown"}
    /\ source # "file" => there = "nothing"
    /\ root = NoRoot
    /\ kind \in [Entries -> Kinds]
    /\ parent \in [Entries -> 0..MaxEntries]
    /\ \A e \in {f \in Entries : parent[f] # 0} : parent[e] < e /\ kind[parent[e]] = "dir"
    /\ source # "dir" => \A e \in Entries : parent[e] = 0 /\ kind[e] = "file"
    /\ stack = <<>> /\ dirs = <<>> /\ items = <<>>
    /\ outcome = "walking"

-----------------------------------------------------------------------------
Top == Last(stack)

\* A call for the directory at path: it is to be made, and is read.
Walk(path, below) ==
    /\ dirs' = Append(dirs, path)
    /\ \/ stack' = Append(below, [path |-> path, left |-> Inside(path)])
          /\ UNCHANGED outcome
       \/ stack' = <<>> /\ outcome' = "error"
    /\ UNCHANGED <<given, items>>

\* Fault: a root of nothing but slashes is trimmed away.
DirRootTrimmed == IF target \in {"none", "/"} THEN "." ELSE "path"

\* remoteDirRoot and localDirRoot: trailing slashes go, but not those of the root.
DirRoot == CASE target = "none" -> "." [] target = "/" -> "/" [] OTHER -> "path"

Unplanned == outcome = "walking" /\ root = NoRoot

\* PlanUpload and PlanDownload, of what is not there.
BeginNothing ==
    /\ Unplanned /\ source = "nothing"
    /\ outcome' = "error"
    /\ UNCHANGED <<given, root, stack, dirs, items>>

\* Of a directory: its contents go into the one named.
BeginDir ==
    /\ Unplanned /\ source = "dir"
    /\ root' = [at |-> DirRoot, own |-> FALSE]
    /\ Walk(<<>>, <<>>)

\* Of a file: into a directory, which only the other end can say of a bare path, or to
\* the path itself.
BeginFile ==
    /\ Unplanned /\ source = "file"
    /\ root' = [at |-> DirRoot, own |-> target # "path" \/ there = "dir"]
    /\ items' = << <<>> >> /\ outcome' = "planned"
    /\ UNCHANGED <<given, stack, dirs>>

\* The caller's frame, with entry e behind it.
Behind(e) == Append(Front(stack), [Top EXCEPT !.left = @ \ {e}])

\* Fault: a link to a directory is a directory.
IsDirFollowed(e) == kind[e] \in {"dir", "link to dir"}

\* os.Stat finds a directory at either end of a link; a listing over SFTP says what
\* the entry itself is.  Neither walk goes through a link.
IsDir(e) == kind[e] = "dir"

\* A link to a file is a file where resolving it costs nothing.
IsFile(e) == kind[e] = "file" \/ (kind[e] = "link to file" /\ direction = "upload")

\* An entry that is neither a directory nor a file to move is passed over.
TakeDir(e) ==
    /\ stack # <<>> /\ e \in Top.left /\ IsDir(e)
    /\ Walk(Append(Top.path, e), Behind(e))
    /\ UNCHANGED root

TakeFile(e) ==
    /\ stack # <<>> /\ e \in Top.left /\ IsFile(e)
    /\ items' = Append(items, Append(Top.path, e))
    /\ stack' = Behind(e)
    /\ UNCHANGED <<given, root, dirs, outcome>>

PassOver(e) ==
    /\ stack # <<>> /\ e \in Top.left /\ ~IsDir(e) /\ ~IsFile(e)
    /\ stack' = Behind(e)
    /\ UNCHANGED <<given, root, dirs, items, outcome>>

\* Fault: an upper call gives up what it had left when a lower one returns.
ReturnTwice ==
    /\ stack # <<>> /\ Top.left = {}
    /\ stack' = IF Len(stack) > 1 THEN SubSeq(stack, 1, Len(stack) - 2) ELSE <<>>
    /\ outcome' = IF stack' = <<>> THEN "planned" ELSE "walking"
    /\ UNCHANGED <<given, root, dirs, items>>

Return ==
    /\ stack # <<>> /\ Top.left = {}
    /\ stack' = Front(stack)
    /\ outcome' = IF stack' = <<>> THEN "planned" ELSE "walking"
    /\ UNCHANGED <<given, root, dirs, items>>

Next ==
    \/ BeginNothing \/ BeginDir \/ BeginFile \/ Return
    \/ \E e \in Entries : TakeDir(e) \/ TakeFile(e) \/ PassOver(e)

Spec == Init /\ [][Next]_vars

-----------------------------------------------------------------------------
(* Properties.                                                             *)

\* The entry a path ends in, or the directory the transfer names.
End(path) == IF path = <<>> THEN 0 ELSE Last(path)

\* A path as the tree has it: from that directory on, each entry in the one before.
InTree(path) == \A i \in DOMAIN path : parent[path[i]] = IF i = 1 THEN 0 ELSE path[i - 1]

\* Each entry of S by its own path, once, and nothing else.
Holds(list, S) ==
    /\ \A i \in DOMAIN list : InTree(list[i]) /\ End(list[i]) \in S
    /\ \A i, j \in DOMAIN list : End(list[i]) = End(list[j]) => i = j
    /\ \A e \in S : \E i \in DOMAIN list : End(list[i]) = e

Directories == {e \in Entries : kind[e] = "dir"}
FilesToMove == {e \in Entries : kind[e] = "file" \/ (direction = "upload" /\ kind[e] = "link to file")}

\* A plan that comes of a walk has exactly the tree: each directory, and each regular
\* file by its own path - links to files in an upload only, links to directories and
\* what has no bytes never - once each, in whatever order the entries are read
\* (transfer.go:231-252, 305-321, README.md:203-209).
PlanIsTheTree ==
    outcome = "planned" /\ source = "dir" => Holds(dirs, {0} \union Directories) /\ Holds(items, FilesToMove)

\* Directories come parents first, and no file is planned before the directory it
\* goes into: Run makes them in order and then writes (transfer.go:64-66).
ParentsFirst ==
    /\ \A i \in DOMAIN dirs : dirs[i] # <<>> => \E j \in 1..i - 1 : dirs[j] = Front(dirs[i])
    /\ source = "dir" => \A i \in DOMAIN items : Front(items[i]) \in ToSet(dirs)

\* What is planned lands where it was sent: the working directory takes what was sent
\* nowhere, never what was sent to the root; a file is not written over a directory,
\* nor put into what is none (transfer.go:116-128, 147-156).
LandsWhereSent ==
    outcome = "planned" =>
        /\ root.at = "." <=> target = "none"
        /\ root.at = "/" <=> target = "/"
        /\ source = "file" /\ there = "dir" => root.own
        /\ root.own => source = "file" /\ (there = "dir" \/ target # "path")

\* A plan is the whole tree, in an order it can be carried out in, in the right place.
PlanIsSound == PlanIsTheTree /\ ParentsFirst /\ LandsWhereSent

=============================================================================
