----------------------------- MODULE HostsFile ------------------------------
(***************************************************************************)
(* Adding hosts to ~/.ohmyssh/hosts and removing them from it: AddHost and *)
(* RemoveHost of internal/service/connect.go over internal/config/hosts.go *)
(* and internal/repository/hosts.go.  A job is one call: a command of the  *)
(* browser, on a goroutine of its own, or another ohmyssh on the same      *)
(* file.  Nothing locks the file between its steps.                        *)
(*                                                                         *)
(* The file is how many of its blocks name each alias.  A write lands in a *)
(* temporary file and is renamed, so it is one step.  Aliases of the       *)
(* user's own ssh config are refused like those of the file and left out.  *)
(***************************************************************************)
EXTENDS Naturals, FiniteSets

CONSTANTS
    Aliases,  \* names a host can be given
    NoAlias,  \* the alias of a job that has not begun
    Jobs,     \* calls of AddHost and RemoveHost
    MaxActive \* bound: how many of them run at once

HostsFileAssumption == NoAlias \notin Aliases /\ IsFiniteSet(Jobs) /\ MaxActive \in Nat

VARIABLES
    file, \* the hosts file
    jobs  \* per job: what it does, how far it is, what it read and what it returns

hostsVars == <<file, jobs>>

Stages == {"idle", "check", "read", "write", "list", "done", "failed",
           "told"} \* the browser has its answer: see Browser
Counts == [Aliases -> Nat]
Empty == [a \in Aliases |-> 0]
Listed(f) == {a \in Aliases : f[a] > 0}

Job == [kind : {"add", "remove"}, alias : Aliases \union {NoAlias}, stage : Stages,
        body : Counts, hosts : Counts, written : BOOLEAN]

\* A job that holds nothing: it has not begun, or its goroutine is gone.
Blank(stage) ==
    [kind |-> "add", alias |-> NoAlias, stage |-> stage,
     body |-> Empty, hosts |-> Empty, written |-> FALSE]

HostsFileTypeOK ==
    /\ file \in Counts
    /\ jobs \in [Jobs -> Job]

Init ==
    /\ file \in [Aliases -> 0 .. 2] \* edited by hand: also twice
    /\ jobs = [j \in Jobs |-> Blank("idle")]

Active == {j \in Jobs : jobs[j].stage \in {"check", "read", "write", "list"}}

Advance(j, stage) == jobs' = [jobs EXCEPT ![j].stage = stage]

Begin(j, kind, alias) ==
    /\ jobs[j].stage = "idle"
    /\ Cardinality(Active) < MaxActive
    /\ jobs' = [jobs EXCEPT ![j].kind = kind, ![j].alias = alias,
                            ![j].stage = IF kind = "add" THEN "check" ELSE "read"]
    /\ UNCHANGED file

\* AddHost lists the hosts and refuses an alias one of them has.
CheckClash(j) ==
    /\ jobs[j].stage = "check"
    /\ Advance(j, IF jobs[j].alias \in Listed(file) THEN "failed" ELSE "read")
    /\ UNCHANGED file

\* config.AddHost and config.RemoveHost read the file; removing an alias no
\* block names is an error.
ReadFile(j) ==
    /\ jobs[j].stage = "read"
    /\ IF jobs[j].kind = "remove" /\ jobs[j].alias \notin Listed(file)
          THEN Advance(j, "failed")
          ELSE jobs' = [jobs EXCEPT ![j].body = file, ![j].stage = "write"]
    /\ UNCHANGED file

\* Fault: the add does not start from what the file held.
EditedAfresh(kind, body, alias) ==
    IF kind = "add" THEN [Empty EXCEPT ![alias] = 1] ELSE [body EXCEPT ![alias] = 0]

\* appendHost, and withoutHost, which takes out every block naming the alias.
Edited(kind, body, alias) ==
    [body EXCEPT ![alias] = IF kind = "add" THEN @ + 1 ELSE 0]

\* writeHost: the rename, or a failure of any step before it.
WriteFile(j) ==
    /\ jobs[j].stage = "write"
    /\ \/ /\ file' = Edited(jobs[j].kind, jobs[j].body, jobs[j].alias)
          /\ jobs' = [jobs EXCEPT ![j].stage = "list", ![j].written = TRUE]
       \/ Advance(j, "failed") /\ UNCHANGED file

\* The list as it reads after the write; reading it can fail by itself.
ListHosts(j) ==
    /\ jobs[j].stage = "list"
    /\ \/ jobs' = [jobs EXCEPT ![j].hosts = file, ![j].stage = "done"]
       \/ Advance(j, "failed")
    /\ UNCHANGED file

\* The answer is handed over.
Tell(j) ==
    /\ jobs[j].stage \in {"done", "failed"}
    /\ jobs' = [jobs EXCEPT ![j] = Blank("told")]
    /\ UNCHANGED file

JobStep(j) == CheckClash(j) \/ ReadFile(j) \/ WriteFile(j) \/ ListHosts(j)

Next ==
    \E j \in Jobs :
        \/ \E kind \in {"add", "remove"}, alias \in Aliases : Begin(j, kind, alias)
        \/ JobStep(j)

Spec == Init /\ [][Next]_hostsVars

-----------------------------------------------------------------------------
\* Calls that do not overlap are seen as adds and removals of one host each.
HostList == INSTANCE HostList WITH hosts <- Listed(file)
ImplementsHostList == HostList!Spec

(* Claims of the code that do not hold.                                    *)

\* hosts.go:122-124 says nothing already in the file is touched by an add, and
\* likewise a removal takes out its own alias only.  A job writes back what it
\* read before another job's write.
OthersUntouched ==
    [][\A j \in Jobs, a \in Aliases :
          jobs[j].stage = "write" /\ jobs'[j].stage = "list" /\ a # jobs[j].alias
              => (a \in Listed(file) <=> a \in Listed(file'))]_hostsVars

\* connect.go:106-110 says an alias already listed is refused rather than written
\* again.  Two adds at once both find it free.
AddsOnce ==
    [][\A a \in Aliases : file'[a] > file[a] => file'[a] = 1]_hostsVars

\* browser.go:357-359 says of a delete that failed that nothing was deleted.  The
\* write can have happened and only the list read after it failed.
FailedDeletesNothing ==
    \A j \in Jobs : jobs[j].kind = "remove" /\ jobs[j].stage = "failed" => ~jobs[j].written

=============================================================================
