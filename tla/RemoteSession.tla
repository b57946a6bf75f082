--------------------------- MODULE RemoteSession ----------------------------
(***************************************************************************)
(* An SFTP session from the dial to its release.  NewSFTPClient            *)
(* (internal/sshclient/sftp.go) tries the subsystem, then sftp-server by   *)
(* name, over channels that somebody has to close.  Its callers are        *)
(* openRemote, whose session the file view closes, and transferHost, which *)
(* copies and closes by itself (internal/service).                         *)
(*                                                                         *)
(* A step that asks the host something blocks while the host is silent,    *)
(* until the keepalive loop closes the connection (module Connection).     *)
(***************************************************************************)
EXTENDS Naturals

CONSTANT Attempts \* how many sftpServerPaths there are, 5 in the code

AttemptsAssumption == Attempts \in Nat \ {0}

VARIABLES
    caller,   \* who asked: "view" (openRemote) or "command" (transferHost)
    pc,       \* where the call is
    path,     \* what is tried: the subsystem (0), or a path by its position
    channels, \* the channels nobody has closed, by what they were opened for
    conn,     \* the connection: none, up, silent or closed
    lastErr   \* what the error to report is about, or Unset

vars == <<caller, pc, path, channels, conn, lastErr>>

Subsystem == 0
Unset == Attempts + 1

\* Where an answer of the host is waited for.
Asking == {"sftp", "channel", "start", "handshake", "home", "plan"}

RemoteSessionTypeOK ==
    /\ caller \in {"view", "command"}
    /\ pc \in Asking \union {"dial", "open", "close", "refused", "hang up",
                             "failed", "closed"}
    /\ path \in Subsystem..Attempts
    /\ channels \subseteq Subsystem..Attempts
    /\ conn \in {"none", "up", "silent", "closed"}
    /\ lastErr \in Subsystem..Unset
    /\ conn = "none" => pc \in {"dial", "failed"}

Init ==
    /\ caller \in {"view", "command"}
    /\ pc = "dial" /\ path = Subsystem
    /\ channels = {} /\ conn = "none" /\ lastErr = Unset

-----------------------------------------------------------------------------
(* The host and the connection.                                            *)

HostGoesSilent ==
    /\ conn = "up" /\ conn' = "silent"
    /\ UNCHANGED <<caller, pc, path, channels, lastErr>>

\* The connection is lost, or the keepalive loop closes it.
ConnectionEnds ==
    /\ conn \in {"up", "silent"} /\ conn' = "closed"
    /\ UNCHANGED <<caller, pc, path, channels, lastErr>>

\* The host does what it was asked; it says no, or the connection is gone.
Granted == conn = "up"
Refused == conn \in {"up", "closed"}

-----------------------------------------------------------------------------
(* dialWithPrompt, NewSFTPClient and startSFTPServer.                      *)

\* A dial that fails has released what it held (module Dial).
DialEnds ==
    /\ pc = "dial"
    /\ \/ conn' = "up" /\ pc' = "sftp"
       \/ pc' = "failed" /\ UNCHANGED conn
    /\ UNCHANGED <<caller, path, channels, lastErr>>

\* The caller has its client: openRemote asks for the home directory, transferHost
\* goes on to runPlan.
Succeed == pc' = (IF caller = "view" THEN "home" ELSE "plan")

\* What was tried was refused: the next path, or the error.
TryNext ==
    /\ lastErr' = path
    /\ IF path < Attempts
          THEN path' = path + 1 /\ pc' = "channel"
          ELSE pc' = "refused" /\ UNCHANGED path

\* sftp.NewClient over the connection.
TrySubsystem ==
    /\ pc = "sftp"
    /\ \/ Granted /\ Succeed /\ channels' = {Subsystem} /\ UNCHANGED <<path, lastErr>>
       \/ Refused /\ TryNext /\ UNCHANGED channels
    /\ UNCHANGED <<caller, conn>>

\* NewSession for one path.
OpenChannel ==
    /\ pc = "channel"
    /\ \/ /\ Granted /\ pc' = "start" /\ channels' = channels \union {path}
          /\ UNCHANGED <<path, lastErr>>
       \/ Refused /\ TryNext /\ UNCHANGED channels
    /\ UNCHANGED <<caller, conn>>

\* Fault: the path is given up, its channel is not.
StartServerLeavesChannel ==
    /\ pc = "start"
    /\ \/ Granted /\ pc' = "handshake" /\ UNCHANGED <<path, channels, lastErr>>
       \/ Refused /\ TryNext /\ UNCHANGED channels
    /\ UNCHANGED <<caller, conn>>

\* The pipes, and Start: sftp-server is not at that path, or may not be run.
StartServer ==
    /\ pc = "start"
    /\ \/ Granted /\ pc' = "handshake" /\ UNCHANGED <<path, channels, lastErr>>
       \/ Refused /\ TryNext /\ channels' = channels \ {path}
    /\ UNCHANGED <<caller, conn>>

\* NewClientPipe, which waits for the server to name its version: what runs at that
\* path may be no sftp-server.
Handshake ==
    /\ pc = "handshake"
    /\ \/ Granted /\ Succeed /\ UNCHANGED <<path, channels, lastErr>>
       \/ Refused /\ TryNext /\ channels' = channels \ {path}
    /\ UNCHANGED <<caller, conn>>

-----------------------------------------------------------------------------
(* The callers.                                                            *)

\* RealPath; a host that will not say is given "/".
AskHome ==
    /\ pc = "home" /\ (Granted \/ Refused)
    /\ pc' = "open"
    /\ UNCHANGED <<caller, path, channels, conn, lastErr>>

\* The view is left: remoteSession.Close.
CloseView ==
    /\ pc = "open" /\ pc' = "close"
    /\ UNCHANGED <<caller, path, channels, conn, lastErr>>

\* runPlan measures and copies (module Transfer), well or not.
RunPlan ==
    /\ pc = "plan" /\ (Granted \/ Refused)
    /\ pc' = "close"
    /\ UNCHANGED <<caller, path, channels, conn, lastErr>>

\* SFTPClient.Close: the client, and the channel of a server started by hand.
CloseSFTP ==
    /\ pc = "close" /\ pc' = "hang up"
    /\ channels' = channels \ {path}
    /\ UNCHANGED <<caller, path, conn, lastErr>>

\* Client.Close under it.
HangUp ==
    /\ pc = "hang up" /\ pc' = "closed"
    /\ conn' = "closed"
    /\ UNCHANGED <<caller, path, channels, lastErr>>

\* No path answered: both callers close the connection on the way out.
GiveUp ==
    /\ pc = "refused" /\ pc' = "failed"
    /\ conn' = "closed"
    /\ UNCHANGED <<caller, path, channels, lastErr>>

Steps ==
    \/ DialEnds \/ TrySubsystem \/ OpenChannel \/ StartServer \/ Handshake
    \/ AskHome \/ RunPlan \/ CloseSFTP \/ HangUp \/ GiveUp

Next == HostGoesSilent \/ ConnectionEnds \/ CloseView \/ Steps

Spec == Init /\ [][Next]_vars

-----------------------------------------------------------------------------
(* Properties.                                                             *)

\* Nothing is left behind: the only channel open is the one in hand, and a call that
\* is over, with an error or after Close, holds neither a channel nor a connection.
\* Each of the six ways out of startSFTPServer's loop has a Close of its own to forget
\* (sftp.go:75-108), and both callers a connection (filesession.go:41-45).
NothingLeftOpen ==
    /\ channels \subseteq {path}
    /\ pc \in {"channel", "refused", "failed", "closed"} => channels = {}
    /\ pc \in {"failed", "closed"} => conn \in {"none", "closed"}

\* It is let go of in order: the channel is closed before the connection under it,
\* whoever closes them (filesession.go:114-116, transfer.go:89-91).
LetsGoInOrder ==
    [][/\ NothingLeftOpen'
       /\ pc' \in {"closed", "failed"} /\ pc # pc' => channels = {}]_vars

\* Whoever opens a session gets one or an error, also from a host that stops
\* answering halfway: NewSFTPClient takes no context, and the keepalive loop is all
\* that ends its waiting (sftp.go:55-111).
OpenEnds == pc = "sftp" ~> pc \in {"open", "closed", "failed"}

\* When no path works the error is the refusal of the subsystem, "the one that says
\* what the host actually objected to" (sftp.go:69-72).
RefusalIsReported == pc = "failed" /\ conn = "closed" => lastErr = Subsystem

=============================================================================
