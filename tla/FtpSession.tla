----------------------------- MODULE FtpSession -----------------------------
(***************************************************************************)
(* The FTP daemon and its worker.  There is at most one worker: the daemon *)
(* refuses a second client while it lives.  The worker takes one command   *)
(* at a time; RETR, STOR and the lists go on to open a data connection and *)
(* to move data, during which other tasks run and the client may go away.  *)
(***************************************************************************)
EXTENDS FtpPaths

CONSTANTS
  Directories,  \* of the card, as sequences of names, the volume first
  Files,
  Args,         \* the arguments of CWD
  NumRetries,
  Timeout,      \* SocketTimeout, in ticks
  MaxPath,      \* bound: the length of m_CurrentPath
  MaxLost       \* bound: files that are left open

ASSUME FtpAssumption ==
  {NumRetries, Timeout} \subseteq Nat \ {0} /\ {MaxPath, MaxLost} \subseteq Nat

\* What paths are made of.
Tokens == Separators \cup UNION {Range(p) : p \in Directories \cup Args}

ASSUME PathAssumption ==
  /\ \A d \in Directories : d # <<>> /\ d \in Seq(Tokens \ Separators)
  /\ \A arg \in Args : arg \in Seq(Tokens) /\ NamesApart(arg)

VARIABLES
  worker,    \* where the worker is
  client,    \* its peer is there, has gone silent, or has closed
  idle,      \* ticks since nTimeout, at most Timeout
  user,      \* m_User and m_Password, as compared with what is expected
  pass,
  mode,      \* m_TransferMode
  listening, \* m_pDataSocket exists
  target,    \* m_DataSocketIPAddress and m_nDataSocketPort: of the last PORT
             \* that was understood, or not ("unset")
  path,      \* m_CurrentPath
  renaming,  \* m_RenameFrom is set
  job,       \* the command that moves data
  tries,     \* nRetries of OpenDataConnection
  open,      \* files that are open
  agreed,    \* history: how the client was last told that data will flow
  lost       \* history: transfers of files that got no data connection

login == <<user, pass>>
transfer == <<job, tries, open, lost>>
channel == <<mode, listening, target, agreed>>
vars == <<worker, client, idle, login, channel, path, renaming, transfer>>

FreshWorker ==
  /\ idle' = 0 /\ user' = "" /\ pass' = ""
  /\ mode' = "Active" /\ listening' = FALSE /\ target' = "unset" /\ agreed' = "nothing"
  /\ path' = Root /\ renaming' = FALSE /\ job' = "" /\ tries' = 0

Init ==
  /\ worker = "None" /\ client = "closed" /\ idle = 0 /\ user = "" /\ pass = ""
  /\ mode = "Active" /\ listening = FALSE /\ target = "unset" /\ agreed = "nothing"
  /\ path = Root /\ renaming = FALSE /\ job = "" /\ tries = 0
  /\ open = 0 /\ lost = 0
-----------------------------------------------------------------------------
(* The daemon.  A client that comes while there is a worker is told 421.   *)

Accept ==
  /\ worker = "None"
  /\ FreshWorker
  /\ worker' = "Greet" /\ client' = "there"
  /\ UNCHANGED <<open, lost>>

\* The peer.
Leave ==
  /\ client = "there" /\ worker # "None"
  /\ client' \in {"silent", "closed"}
  /\ UNCHANGED <<worker, idle, login, channel, path, renaming, transfer>>

Tick ==
  /\ idle < Timeout
  /\ idle' = idle + 1
  /\ UNCHANGED <<worker, client, login, channel, path, renaming, transfer>>
-----------------------------------------------------------------------------
(* CFTPWorker::Run.                                                        *)

SendsStatus(then, else) == worker' = then \/ (client # "there" /\ worker' = else)

Greet ==
  /\ worker = "Greet"
  /\ SendsStatus("Wait", "Close")
  /\ idle' = 0
  /\ UNCHANGED <<client, login, channel, path, renaming, transfer>>

\* Mutant: only a connection that has been closed ends the loop.
HangupIfClosed ==
  /\ worker = "Wait"
  /\ client = "closed"
  /\ worker' = "Close"
  /\ UNCHANGED <<client, idle, login, channel, path, renaming, transfer>>

\* The connection has been closed, or nothing has come for too long.
Hangup ==
  /\ worker = "Wait"
  /\ client = "closed" \/ idle = Timeout
  /\ worker' = "Close"
  /\ UNCHANGED <<client, idle, login, channel, path, renaming, transfer>>

\* The control socket is deleted and, with the worker, the data socket.
Close ==
  /\ worker = "Close"
  /\ FreshWorker
  /\ worker' = "None" /\ client' = "closed"
  /\ UNCHANGED <<open, lost>>

LoggedIn == user = "right" /\ pass = "right"

Receives == worker = "Wait" /\ client = "there"
Answered == idle' = 0 /\ UNCHANGED <<client, transfer>>

\* Commands that change nothing: SYST, TYPE, PWD, NOOP, unknown commands,
\* commands that are refused or that fail.  (m_DataType is never read.)
Answer ==
  /\ Receives
  /\ Answered /\ UNCHANGED <<worker, login, channel, path, renaming>>

Username ==
  /\ Receives
  /\ user' \in {"", "right", "wrong"}
  /\ Answered /\ UNCHANGED <<worker, pass, channel, path, renaming>>

Password ==
  /\ Receives /\ user # ""
  /\ pass' \in {"", "right", "wrong"}
  /\ Answered /\ UNCHANGED <<worker, user, channel, path, renaming>>

\* Mutant: the listening socket of PASV stays.
PortKeepsSocket(understood) ==
  /\ Receives /\ LoggedIn
  /\ mode' = "Active"
  /\ IF understood THEN target' = "client" /\ agreed' = "active"
     ELSE agreed' = "nothing" /\ UNCHANGED target
  /\ Answered /\ UNCHANGED <<worker, login, listening, path, renaming>>

\* The socket goes and the mode changes before the argument is looked at.
Port(understood) ==
  /\ Receives /\ LoggedIn
  /\ listening' = FALSE /\ mode' = "Active"
  /\ IF understood THEN target' = "client" /\ agreed' = "active"
     ELSE agreed' = "nothing" /\ UNCHANGED target
  /\ Answered /\ UNCHANGED <<worker, login, path, renaming>>

\* A socket that listens already is announced again; a new one may fail to
\* be bound, after the mode and the port have been set.
Passive(bound) ==
  /\ Receives /\ LoggedIn
  /\ IF listening
     THEN agreed' = "passive" /\ UNCHANGED <<mode, listening, target>>
     ELSE /\ mode' = "Passive" /\ listening' = bound /\ target' = "unset"
          /\ agreed' = IF bound THEN "passive" ELSE "nothing"
  /\ Answered /\ UNCHANGED <<worker, login, path, renaming>>

\* RNTO takes back the name of RNFR, whether FatFs can rename it or not.
\* DELE, RMD and MKD change the card alone.
Rename(from) ==
  /\ Receives /\ LoggedIn /\ (from \/ renaming)
  /\ renaming' = from
  /\ Answered /\ UNCHANGED <<worker, login, channel, path>>

\* QUIT and BYE: without a login the worker goes, else the device restarts.
\* The publisher that would take back the services is always null here.
Bye ==
  /\ Receives
  /\ worker' = IF LoggedIn THEN "Reboot" ELSE "Close"
  /\ UNCHANGED <<idle, login, channel, path, renaming, client, transfer>>

Reboot ==
  /\ worker = "Reboot"
  /\ FreshWorker
  /\ worker' = "None" /\ client' = "closed" /\ open' = 0 /\ lost' = 0
-----------------------------------------------------------------------------
(* The current path.                                                       *)

\* FatFs: f_opendir takes the root of a volume, f_stat does not, but takes
\* files as well.
CanOpenDir(p) == Understood(p) /\ Names(p) \in Directories
CanStat(p) == Understood(p) /\ Len(Names(p)) > 1 /\ Names(p) \in Directories \cup Files

\* The paths that CWD may go to.  Of more slashes than one nothing is left,
\* and the byte before the buffer is looked at: if that is a slash, the colon
\* takes its place and the path is empty, as it is for a single slash.
Absolute(arg) ==
  IF arg = <<Slash>> THEN {Root}
  ELSE {p \in {FTPPathToFatFsPath(arg)} : CanOpenDir(p)}
         \cup {p \in {Root} : Range(arg) = {Slash}}

Relative(arg) ==
  IF path = Root THEN {<<v, Colon>> : v \in {n \in {d[1] : d \in Directories} : arg = <<n>>}}
  ELSE {p \in {path \o <<Slash>> \o arg} : CanStat(p)}

ChangeWorkingDirectory(arg) ==
  /\ Receives /\ LoggedIn
  /\ path' \in IF arg # <<>> /\ arg[1] = Slash THEN Absolute(arg) ELSE Relative(arg)
  /\ Len(path') <= MaxPath
  /\ Answered /\ UNCHANGED <<worker, login, channel, renaming>>

ChangeToParentDirectory ==
  /\ Receives /\ LoggedIn /\ path # Root
  /\ path' \in {p \in {FatFsParentPath(path)} : p = Root \/ CanOpenDir(p)}
  /\ Answered /\ UNCHANGED <<worker, login, channel, renaming>>
-----------------------------------------------------------------------------
(* RETR, STOR, LIST and NLST.                                              *)

\* RETR and STOR have opened their file.
Begin(command) ==
  /\ Receives /\ LoggedIn
  /\ job' = command
  /\ open' = IF command = "list" THEN open ELSE open + 1
  /\ lost < MaxLost
  /\ worker' = "Begin"
  /\ UNCHANGED <<client, idle, login, channel, path, renaming, tries, lost>>

\* The handler returns without closing the file.
GiveUp ==
  /\ worker' = "Wait" /\ idle' = 0
  /\ lost' = IF job = "list" THEN lost ELSE lost + 1
  /\ job' = "" /\ tries' = 0 /\ UNCHANGED open

SendPreliminary ==
  /\ worker = "Begin"
  /\ \/ worker' = "Open" /\ tries' = NumRetries /\ UNCHANGED <<idle, job, open, lost>>
     \/ client # "there" /\ GiveUp
  /\ UNCHANGED <<client, login, channel, path, renaming>>

\* In passive mode without a socket every try fails at once.
OpenDataConnection ==
  /\ worker = "Open"
  /\ \/ mode = "Active" /\ tries > 0 /\ worker' = "Move" /\ tries' = 0
        /\ UNCHANGED <<idle, job, open, lost>>
     \/ (mode = "Active" \/ ~listening) /\ tries > 0 /\ tries' = tries - 1
        /\ UNCHANGED <<worker, idle, job, open, lost>>
     \/ mode = "Passive" /\ listening /\ tries > 0 /\ worker' = "Accept"
        /\ UNCHANGED <<idle, job, tries, open, lost>>
     \/ tries = 0 /\ GiveUp
  /\ UNCHANGED <<client, login, channel, path, renaming>>

\* The worker stays in CSocket::Accept until someone connects.
AcceptData ==
  /\ worker = "Accept" /\ client = "there"
  /\ worker' = "Move" /\ tries' = 0
  /\ UNCHANGED <<client, idle, login, channel, path, renaming, job, open, lost>>

AcceptFails ==
  /\ worker = "Accept"
  /\ worker' = "Open" /\ tries' = tries - 1
  /\ UNCHANGED <<client, idle, login, channel, path, renaming, job, open, lost>>

\* Mutant: the file is closed only if all went well.
EndMoveCloses(whole) ==
  /\ worker = "Move" /\ job # "list"
  /\ worker' = "Wait" /\ idle' = 0
  /\ open' = IF whole THEN open - 1 ELSE open
  /\ job' = ""
  /\ UNCHANGED <<client, login, channel, path, renaming, tries, lost>>

\* All data moved, a read, write or send that failed, or, in STOR, no data
\* for too long: the data connection and the file are closed.
EndMove(whole) ==
  /\ worker = "Move" /\ job # "list"
  /\ worker' = "Wait" /\ idle' = 0
  /\ open' = open - 1
  /\ job' = ""
  /\ UNCHANGED <<client, login, channel, path, renaming, tries, lost>>

\* The entries have been sent, or a send has failed.
EndList ==
  /\ worker = "Move" /\ job = "list"
  /\ worker' = "Wait" /\ idle' = 0
  /\ job' = ""
  /\ UNCHANGED <<client, login, channel, path, renaming, tries, open, lost>>
-----------------------------------------------------------------------------
Commands ==
  \/ Answer \/ Username \/ Password \/ Bye
  \/ \E ok \in BOOLEAN : Port(ok) \/ Passive(ok) \/ Rename(ok)
  \/ \E arg \in Args : ChangeWorkingDirectory(arg)
  \/ ChangeToParentDirectory
  \/ \E command \in {"retr", "stor", "list"} : Begin(command)

Proceed ==
  \/ Greet \/ Hangup \/ Close \/ Reboot
  \/ SendPreliminary \/ OpenDataConnection \/ AcceptData
  \/ EndList \/ \E whole \in BOOLEAN : EndMove(whole)

Next == Accept \/ Leave \/ Tick \/ Commands \/ Proceed \/ AcceptFails

Spec == Init /\ [][Next]_vars

\* Once the client has gone, data come to an end and the worker goes on with
\* what it does; the clock runs.  Nothing need ever end CSocket::Accept.
LiveSpec == Spec /\ WF_vars(client # "there" /\ Proceed) /\ WF_vars(Tick)
-----------------------------------------------------------------------------
(* Types.                                                                  *)
TypeOK ==
  /\ worker \in {"None", "Greet", "Wait", "Close", "Reboot", "Begin", "Open", "Accept", "Move"}
  /\ client \in {"there", "silent", "closed"}
  /\ idle \in 0 .. Timeout /\ tries \in 0 .. NumRetries
  /\ {user, pass} \subseteq {"", "right", "wrong"}
  /\ mode \in {"Active", "Passive"} /\ target \in {"unset", "client"}
  /\ {listening, renaming} \subseteq BOOLEAN
  /\ path = Root \/ HasVolume(path)
  /\ job \in {"", "retr", "stor", "list"}
  /\ agreed \in {"nothing", "active", "passive"}
  /\ open \in Nat /\ lost \in 0 .. MaxLost

(* Data flows as the client was last told: to the address of its PORT, or  *)
(* over the socket announced by 227, whatever PORT and PASV, understood or *)
(* not, and failures came before (ftpworker.cpp:470, 526 and 276).         *)
FlowsAsAgreed ==
  /\ agreed = "active" => mode = "Active" /\ target = "client"
  /\ agreed = "passive" => mode = "Passive" /\ listening

(* A file is open during its transfer and closed after it, but for one     *)
(* case: a transfer that gets no data connection (or whose client is gone  *)
(* at 150) leaves it open for ever (ftpworker.cpp:642-647 and 693-698).    *)
FilesClosedButLost ==
  open = lost + (IF job \in {"retr", "stor"} THEN 1 ELSE 0)

(* The directory PWD reports is the current one when it is given to CWD,   *)
(* whichever way of writing it led there (ftpworker.cpp:1098 and 1141).    *)
PwdLeadsBack ==
  path # Root =>
    LET again == FTPPathToFatFsPath(FatFsPathToFTPPath(path))
    IN HasVolume(again) /\ Names(again) = Names(path)

(* CDUP goes up by one name, from a volume to the list of volumes, however *)
(* many slashes CWD has left in the path (ftpworker.cpp:1190).             *)
CdupGoesUpByOne ==
  [][ChangeToParentDirectory => Names(path') = Front(Names(path))]_vars

(* A client that goes away frees the worker, and with it the daemon for    *)
(* the next one - unless it was expected on the data port: Accept has no   *)
(* time out.                                                               *)
WorkerFreed == (worker # "None" /\ client # "there") ~> (worker \in {"None", "Accept"})
=============================================================================
