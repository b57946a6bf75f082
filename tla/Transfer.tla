------------------------------ MODULE Transfer ------------------------------
(***************************************************************************)
(* Run carrying out a transfer plan (internal/sshclient/transfer.go), and  *)
(* what it does to the directory it writes into: the local one for a       *)
(* download, the host's for an upload.  Several runs may write into it at  *)
(* once: another terminal, or a transfer of a view that has been left and  *)
(* is still ending.                                                        *)
(*                                                                         *)
(* A name points at a file, as a directory entry does: creating a name     *)
(* that exists truncates its file, and a rename moves the file.  Bytes are *)
(* counted in packets; a file is half until its last writer wrote it all.  *)
(***************************************************************************)
EXTENDS Naturals, Sequences, SequencesExt

CONSTANTS
    Runs,      \* calls of Run
    Plans,     \* destinations of the items of each plan a run may be given
    NoFile,    \* what a name that does not exist points at
    MaxPackets \* bound: packets of one file

\* A path is a name with the suffixes it ends in: a.part is <<"a", ".part">>.
Partial(path) == Append(path, ".part")
Dests == UNION {ToSet(p) : p \in Plans}
Paths == Dests \union {Partial(d) : d \in Dests}

VARIABLES
    direction, \* "upload" or "download", the same for all runs
    plan,      \* per run: the destinations in order
    before,    \* names that were there before any run
    names,     \* what each name points at: the file once there, or one a run made
    content,   \* of each file: as it was, half written by a run, or whole
    run        \* per run: how far it is

vars == <<direction, plan, before, names, content, run>>
given == <<direction, plan, before>>

MaxItems == CHOOSE n \in {Len(p) : p \in Plans} : \A p \in Plans : Len(p) <= n
Made == Runs \X (1 .. MaxItems)
FileIds == Paths \union Made

TransferAssumption ==
    /\ MaxPackets \in Nat
    /\ Plans \subseteq Seq(Seq(STRING))
    /\ MaxItems \in Nat /\ \A p \in Plans : Len(p) <= MaxItems
    /\ NoFile \notin FileIds /\ \A p \in Paths : p \notin Made

Previous == <<"previous">>
Whole == <<"whole">>
Half == {<<"half", r>> : r \in Runs}
NotCancelled == MaxItems + 1

RunState ==
    [pc : {"dirs", "next", "open", "copying", "closing", "placing", "ended"},
     item : 0 .. MaxItems, file : FileIds \union {NoFile}, packets : 0 .. MaxPackets,
     cancelledAt : 0 .. NotCancelled, link : BOOLEAN, moved : Nat,
     finished : 0 .. MaxItems, shown : Nat \X (0 .. MaxItems),
     result : {"running", "ok", "error"}]

TransferTypeOK ==
    /\ direction \in {"upload", "download"}
    /\ plan \in [Runs -> Plans]
    /\ before \subseteq Paths
    /\ names \in [Paths -> FileIds \union {NoFile}]
    /\ content \in [FileIds -> {Previous, Whole} \union Half]
    /\ run \in [Runs -> RunState]

Init ==
    /\ direction \in {"upload", "download"}
    /\ plan \in [Runs -> Plans]
    /\ before \in SUBSET Paths
    /\ names = [p \in Paths |-> IF p \in before THEN p ELSE NoFile]
    /\ content = [f \in FileIds |-> Previous]
    /\ run = [r \in Runs |->
                 [pc |-> "dirs", item |-> 0, file |-> NoFile, packets |-> 0,
                  cancelledAt |-> NotCancelled, link |-> TRUE, moved |-> 0,
                  finished |-> 0, shown |-> <<0, 0>>, result |-> "running"]]

Dest(r) == plan[r][run[r].item]
\* The name the bytes go to while they are arriving.
Target(r) == IF direction = "download" THEN Partial(Dest(r)) ELSE Dest(r)
Cancelled(r) == run[r].cancelledAt # NotCancelled

End(r, result) == run' = [run EXCEPT ![r].pc = "ended", ![r].result = result]

-----------------------------------------------------------------------------
\* The context is cancelled, or the connection goes away.
Cancel(r) ==
    /\ run[r].pc # "ended" /\ ~Cancelled(r)
    /\ run' = [run EXCEPT ![r].cancelledAt = run[r].item]
    /\ UNCHANGED <<given, names, content>>

LinkDrops(r) ==
    /\ run[r].pc # "ended" /\ run[r].link
    /\ run' = [run EXCEPT ![r].link = FALSE]
    /\ UNCHANGED <<given, names, content>>

\* makeDirs, and the report that carries the totals.
MakeDirs(r) ==
    /\ run[r].pc = "dirs"
    /\ \/ run' = [run EXCEPT ![r].pc = "next"]
       \/ End(r, "error")
    /\ UNCHANGED <<given, names, content>>

\* The loop over the items.
NextItem(r) ==
    /\ run[r].pc = "next"
    /\ IF run[r].item = Len(plan[r]) THEN End(r, "ok")
       ELSE IF Cancelled(r) THEN End(r, "error")
       ELSE run' = [run EXCEPT ![r].pc = "open", ![r].item = @ + 1, ![r].packets = 0]
    /\ UNCHANGED <<given, names, content>>

\* Both ends are opened; creating the target truncates what it points at.
Open(r) ==
    /\ run[r].pc = "open"
    /\ \/ End(r, "error") /\ UNCHANGED <<names, content>>
       \/ /\ run[r].link
          /\ LET f == IF names[Target(r)] = NoFile THEN <<r, run[r].item>> ELSE names[Target(r)]
             IN  /\ names' = [names EXCEPT ![Target(r)] = f]
                 /\ content' = [content EXCEPT ![f] = <<"half", r>>]
                 /\ run' = [run EXCEPT ![r].pc = "copying", ![r].file = f]
    /\ UNCHANGED given

\* copySink.Write and copySource.Read: the context is checked, and the report may
\* be dropped by throttle.
Packet(r) ==
    /\ run[r].pc = "copying" /\ run[r].link /\ ~Cancelled(r)
    /\ run[r].packets < MaxPackets
    /\ \E shown \in {run[r].shown, <<run[r].moved + 1, run[r].finished>>} :
          run' = [run EXCEPT ![r].packets = @ + 1, ![r].moved = @ + 1, ![r].shown = shown]
    /\ UNCHANGED <<given, names, content>>

\* io.Copy returns nil.  A cancel since the last packet is not noticed.
CopyEnds(r) ==
    /\ run[r].pc = "copying" /\ run[r].link
    /\ run' = [run EXCEPT ![r].pc = "closing"]
    /\ content' = [content EXCEPT ![run[r].file] = IF @ = <<"half", r>> THEN Whole ELSE @]
    /\ UNCHANGED <<given, names>>

\* Fault: the target is not removed.
FailsLeavingTarget(r) ==
    /\ run[r].pc \in {"copying", "closing"}
    /\ End(r, "error")
    /\ UNCHANGED <<given, names, content>>

\* The copy or the close fails: a cancel seen by the next packet, the disk, the
\* far end, the connection.  The target is removed, when it can be reached.
Fails(r) ==
    /\ run[r].pc \in {"copying", "closing"}
    /\ names' = IF direction = "download" \/ run[r].link
                   THEN [names EXCEPT ![Target(r)] = NoFile] ELSE names
    /\ End(r, "error")
    /\ UNCHANGED <<given, content>>

\* Fault: the file's last report is throttled like any other.
FinishThrottled(r) ==
    \E shown \in {run[r].shown, <<run[r].moved, run[r].finished + 1>>} :
        run' = [run EXCEPT ![r].pc = "next", ![r].finished = @ + 1, ![r].shown = shown]

\* state.finish: the report that closes a file is never dropped.
Finish(r) ==
    run' = [run EXCEPT ![r].pc = "next", ![r].finished = @ + 1,
                       ![r].shown = <<run[r].moved, run[r].finished + 1>>]

\* The close succeeds.  An upload is in place by then.
Close(r) ==
    /\ run[r].pc = "closing"
    /\ IF direction = "download"
          THEN run' = [run EXCEPT ![r].pc = "placing"]
          ELSE run[r].link /\ Finish(r)
    /\ UNCHANGED <<given, names, content>>

\* os.Rename over the destination, which fails when the partial name is gone.
Place(r) ==
    /\ run[r].pc = "placing"
    /\ \/ /\ names[Target(r)] # NoFile
          /\ names' = [names EXCEPT ![Dest(r)] = names[Target(r)], ![Target(r)] = NoFile]
          /\ Finish(r)
       \/ /\ names' = [names EXCEPT ![Target(r)] = NoFile]
          /\ End(r, "error")
    /\ UNCHANGED <<given, content>>

RunStep(r) ==
    \/ MakeDirs(r) \/ NextItem(r) \/ Open(r) \/ Packet(r) \/ CopyEnds(r)
    \/ Fails(r) \/ Close(r) \/ Place(r)

Next == \E r \in Runs : Cancel(r) \/ LinkDrops(r) \/ RunStep(r)

Spec == Init /\ [][Next]_vars

-----------------------------------------------------------------------------
IsHalf(path) == names[path] # NoFile /\ content[names[path]] \in Half
AsFound(path) ==
    /\ names[path] = IF path \in before THEN path ELSE NoFile
    /\ path \in before => content[path] = Previous
Unfinished(r) == {plan[r][i] : i \in run[r].finished + 1 .. Len(plan[r])}

\* No file of a download is ever under its own name with half its contents,
\* whenever the run, or the process, stops (transfer.go:393-396).
NoHalfDownload ==
    direction = "download" => \A r \in Runs : \A d \in ToSet(plan[r]) : ~IsHalf(d)

\* A download that ended leaves every file it did not finish as it found it, and
\* no partial file of its own behind (transfer.go:393-396).
InterruptedLeavesAsFound ==
    \A r \in Runs :
        direction = "download" /\ run[r].result = "error" =>
            \A d \in Unfinished(r) : AsFound(d) /\ names[Partial(d)] \notin Made

\* An upload that failed over a connection that is still up has taken back the
\* half-written file, and only that one (transfer.go:448-452).
FailedUploadTakenBack ==
    \A r \in Runs :
        direction = "upload" /\ run[r].result = "error" /\ run[r].link =>
            \A i \in 1 .. Len(plan[r]) :
                /\ ~IsHalf(plan[r][i])
                /\ i > run[r].item => AsFound(plan[r][i])

\* A cancelled transfer begins no other file (transfer.go:328-331, 352-354).
CancelBeginsNothing == \A r \in Runs : run[r].item <= run[r].cancelledAt

\* What a run that fails or is cancelled leaves behind, at every step of it.
FailureIsClean ==
    NoHalfDownload /\ InterruptedLeavesAsFound /\ FailedUploadTakenBack /\ CancelBeginsNothing

\* The last report of a run that succeeded carries every file and every byte,
\* whatever was throttled before it (transfer.go:106-108, 556-558).
LastReportIsComplete ==
    \A r \in Runs :
        run[r].result = "ok" => run[r].shown = <<run[r].moved, Len(plan[r])>>

(* Claims of the code and the documentation that do not hold.              *)

\* transfer.go:449-452 says a copy that fails takes the half-written file back
\* with it.  When it failed because the connection went, it cannot.
NoHalfUpload ==
    \A r \in Runs :
        direction = "upload" /\ run[r].result = "error" =>
            \A d \in ToSet(plan[r]) : ~IsHalf(d)

\* src/README.md:186-190 says a transfer that is stopped part way leaves the file at
\* the far end, incomplete.  The code removes it.
StoppedUploadIsThere ==
    \A r \in Runs :
        direction = "upload" /\ run[r].result = "error" /\ Cancelled(r) /\ run[r].packets > 0
            => names[Dest(r)] # NoFile

=============================================================================
