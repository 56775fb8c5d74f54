-------------------------- MODULE FtpSessionProofs --------------------------
(***************************************************************************)
(* The FTP worker for every card, argument, number of tries and time out:  *)
(* where data flow and which files are open, and what becomes of the       *)
(* current path.  A path is read and rewritten token by token; what the    *)
(* folds compute is followed by induction over the tokens, StepByStep.     *)
(***************************************************************************)
EXTENDS FtpSession, WellFoundedInduction, TLAPS

Moves == {"retr", "stor", "list"}
InTransfer == {"Begin", "Open", "Accept", "Move"}

\* A command is in hand just while its data are to be moved.
JobInHand == job \in Moves <=> worker \in InTransfer

\* PORT gives up the socket that listens, and PASV alone makes one.
ListensPassively == listening => mode = "Passive"

Counts == open \in Int /\ lost \in Int

FilesInv == JobInHand /\ Counts /\ FilesClosedButLost
FlowInv == ListensPassively /\ FlowsAsAgreed

-----------------------------------------------------------------------------
(* The files.                                                              *)

(* Steps outside of a transfer, as far as the files are concerned.         *)
LEMMA NoFileTouched ==
  ASSUME FilesInv, UNCHANGED <<job, open, lost>>, worker \in InTransfer <=> worker' \in InTransfer
  PROVE  FilesInv'
BY DEF FilesInv, JobInHand, Counts, FilesClosedButLost

LEMMA TransferUnchanged ==
  UNCHANGED transfer => UNCHANGED <<job, open, lost>>
BY DEF transfer

(* A worker that has no command in hand begins anew, in a daemon that may  *)
(* have been restarted.                                                    *)
LEMMA FreshKeepsFiles ==
  ASSUME FilesInv, worker \notin InTransfer, worker' \notin InTransfer, job' \notin Moves,
         (open' = open /\ lost' = lost) \/ (open' = 0 /\ lost' = 0)
  PROVE  FilesInv'
<1>1. job \notin {"retr", "stor"} /\ job' \notin {"retr", "stor"}
  BY DEF FilesInv, JobInHand, Moves
<1> QED BY <1>1 DEF FilesInv, JobInHand, Counts, FilesClosedButLost

(* A command ends without a data connection, and leaves its file open.     *)
LEMMA GiveUpKeepsFiles ==
  ASSUME FilesInv, GiveUp, worker \in {"Begin", "Open"}
  PROVE  FilesInv'
<1>1. worker' \notin InTransfer /\ job' \notin Moves /\ job' \notin {"retr", "stor"}
  BY DEF GiveUp, InTransfer, Moves
<1>2. open' = open /\ lost' = (IF job = "list" THEN lost ELSE lost + 1)
  BY DEF GiveUp
<1>3. job \in Moves
  BY DEF FilesInv, JobInHand, InTransfer
<1> QED BY <1>1, <1>2, <1>3 DEF FilesInv, JobInHand, Counts, FilesClosedButLost, Moves

(* Between its beginning and its end a transfer touches no other file.     *)
LEMMA TransferKeepsFiles ==
  ASSUME FilesInv,
         \/ \E command \in {"retr", "stor", "list"} : Begin(command)
         \/ SendPreliminary \/ OpenDataConnection \/ AcceptData \/ AcceptFails
         \/ EndList \/ \E whole \in BOOLEAN : EndMove(whole)
  PROVE  FilesInv'
<1>1. ASSUME NEW command \in {"retr", "stor", "list"}, Begin(command) PROVE FilesInv'
  <2>1. /\ worker \notin InTransfer /\ worker' \in InTransfer
        /\ job' = command /\ lost' = lost
        /\ open' = IF command = "list" THEN open ELSE open + 1
    BY <1>1 DEF Begin, Receives, InTransfer
  <2>2. job \notin {"retr", "stor"}
    BY <2>1 DEF FilesInv, JobInHand, Moves
  <2> QED BY <2>1, <2>2 DEF FilesInv, JobInHand, Counts, FilesClosedButLost, Moves
<1>2. CASE SendPreliminary
  <2>1. CASE GiveUp
    BY <1>2, <2>1, GiveUpKeepsFiles DEF SendPreliminary
  <2>2. CASE worker' = "Open" /\ UNCHANGED <<job, open, lost>>
    <3>1. worker \in InTransfer /\ worker' \in InTransfer
      BY <1>2, <2>2 DEF SendPreliminary, InTransfer
    <3> QED BY <2>2, <3>1, NoFileTouched
  <2> QED BY <1>2, <2>1, <2>2 DEF SendPreliminary
<1>3. CASE OpenDataConnection
  <2>1. CASE GiveUp
    BY <1>3, <2>1, GiveUpKeepsFiles DEF OpenDataConnection
  <2>2. CASE worker' \in {"Open", "Accept", "Move"} /\ UNCHANGED <<job, open, lost>>
    <3>1. worker \in InTransfer /\ worker' \in InTransfer
      BY <1>3, <2>2 DEF OpenDataConnection, InTransfer
    <3> QED BY <2>2, <3>1, NoFileTouched
  <2> QED BY <1>3, <2>1, <2>2 DEF OpenDataConnection
<1>4. CASE AcceptData \/ AcceptFails
  <2>1. worker \in InTransfer /\ worker' \in InTransfer /\ UNCHANGED <<job, open, lost>>
    BY <1>4 DEF AcceptData, AcceptFails, InTransfer
  <2> QED BY <2>1, NoFileTouched
<1>5. CASE EndList
  <2>1. /\ worker' \notin InTransfer /\ job = "list" /\ job' \notin Moves
        /\ job' \notin {"retr", "stor"} /\ open' = open /\ lost' = lost
    BY <1>5 DEF EndList, InTransfer, Moves
  <2> QED BY <2>1 DEF FilesInv, JobInHand, Counts, FilesClosedButLost
<1>6. ASSUME NEW whole \in BOOLEAN, EndMove(whole) PROVE FilesInv'
  <2>1. /\ worker \in InTransfer /\ worker' \notin InTransfer /\ job # "list" /\ job' \notin Moves
        /\ job' \notin {"retr", "stor"} /\ open' = open - 1 /\ lost' = lost
    BY <1>6 DEF EndMove, InTransfer, Moves
  <2>2. job \in {"retr", "stor"}
    BY <2>1 DEF FilesInv, JobInHand, Moves
  <2> QED BY <2>1, <2>2 DEF FilesInv, JobInHand, Counts, FilesClosedButLost
<1> QED BY <1>1, <1>2, <1>3, <1>4, <1>5, <1>6

LEMMA FilesKept == FilesInv /\ [Next]_vars => FilesInv'
<1> SUFFICES ASSUME FilesInv, [Next]_vars PROVE FilesInv'
  OBVIOUS
<1>1. CASE Accept \/ Close \/ Reboot
  <2>1. /\ worker \notin InTransfer /\ worker' \notin InTransfer /\ job' \notin Moves
        /\ (open' = open /\ lost' = lost) \/ (open' = 0 /\ lost' = 0)
    BY <1>1 DEF Accept, Close, Reboot, FreshWorker, InTransfer, Moves
  <2> QED BY <2>1, FreshKeepsFiles
<1>2. CASE Leave \/ Tick
  <2>1. worker' = worker /\ UNCHANGED <<job, open, lost>>
    BY <1>2, TransferUnchanged DEF Leave, Tick
  <2> QED BY <2>1, NoFileTouched
<1>3. CASE Greet \/ Hangup \/ Bye
  <2>1. /\ worker \in {"Greet", "Wait"} /\ worker' \in {"Wait", "Close", "Reboot"}
        /\ UNCHANGED <<job, open, lost>>
    BY <1>3, TransferUnchanged DEF Greet, SendsStatus, Hangup, Bye, Receives
  <2>2. worker \notin InTransfer /\ worker' \notin InTransfer
    BY <2>1 DEF InTransfer
  <2> QED BY <2>1, <2>2, NoFileTouched
<1>4. CASE \/ Answer \/ Username \/ Password \/ ChangeToParentDirectory
           \/ \E arg \in Args : ChangeWorkingDirectory(arg)
           \/ \E ok \in BOOLEAN : Port(ok) \/ Passive(ok) \/ Rename(ok)
  <2>1. worker' = worker /\ UNCHANGED <<job, open, lost>>
    BY <1>4, TransferUnchanged
       DEF Answer, Username, Password, ChangeToParentDirectory, ChangeWorkingDirectory,
           Port, Passive, Rename, Answered
  <2> QED BY <2>1, NoFileTouched
<1>5. CASE UNCHANGED vars
  BY <1>5, NoFileTouched, TransferUnchanged DEF vars
<1> QED
  BY <1>1, <1>2, <1>3, <1>4, <1>5, TransferKeepsFiles DEF Next, Commands, Proceed
-----------------------------------------------------------------------------
(* The data connection.                                                    *)

LEMMA ChannelUntouched ==
  ASSUME FlowInv, UNCHANGED channel
  PROVE  FlowInv'
BY DEF FlowInv, ListensPassively, FlowsAsAgreed, channel

(* PORT and PASV, understood or not, with a socket to be had or not.       *)
LEMMA PortKeepsFlow ==
  ASSUME FlowInv, NEW understood \in BOOLEAN, Port(understood)
  PROVE  FlowInv'
<1>1. ~listening' /\ mode' = "Active"
  BY DEF Port
<1>2. agreed' = "active" => target' = "client"
  BY DEF Port
<1>3. agreed' # "passive"
  BY DEF Port
<1> QED BY <1>1, <1>2, <1>3 DEF FlowInv, ListensPassively, FlowsAsAgreed

LEMMA PassiveKeepsFlow ==
  ASSUME FlowInv, NEW bound \in BOOLEAN, Passive(bound)
  PROVE  FlowInv'
<1>1. CASE listening
  <2>1. agreed' = "passive" /\ listening' = listening /\ mode' = mode
    BY <1>1 DEF Passive
  <2>2. mode = "Passive"
    BY <1>1 DEF FlowInv, ListensPassively
  <2>3. listening'
    BY <1>1, <2>1, Zenon
  <2> QED BY <2>1, <2>2, <2>3 DEF FlowInv, ListensPassively, FlowsAsAgreed
<1>2. CASE ~listening
  <2>1. /\ mode' = "Passive" /\ listening' = bound
        /\ agreed' = IF bound THEN "passive" ELSE "nothing"
    BY <1>2 DEF Passive
  <2>2. agreed' = "passive" => listening'
    BY <2>1, Zenon
  <2>3. agreed' # "active"
    BY <2>1
  <2> QED BY <2>1, <2>2, <2>3 DEF FlowInv, ListensPassively, FlowsAsAgreed
<1> QED BY <1>1, <1>2

LEMMA FlowKept == FlowInv /\ [Next]_vars => FlowInv'
<1> SUFFICES ASSUME FlowInv, [Next]_vars PROVE FlowInv'
  OBVIOUS
<1>1. CASE Accept \/ Close \/ Reboot
  <2>1. listening' = FALSE /\ agreed' = "nothing"
    BY <1>1 DEF Accept, Close, Reboot, FreshWorker
  <2> QED BY <2>1 DEF FlowInv, ListensPassively, FlowsAsAgreed
<1>2. CASE \/ Leave \/ Tick \/ Answer \/ Username \/ Password \/ Bye
           \/ ChangeToParentDirectory \/ \E arg \in Args : ChangeWorkingDirectory(arg)
           \/ \E ok \in BOOLEAN : Rename(ok)
  BY <1>2, ChannelUntouched
     DEF Leave, Tick, Answer, Username, Password, Bye, ChangeToParentDirectory,
         ChangeWorkingDirectory, Rename
<1>3. CASE \E ok \in BOOLEAN : Port(ok) \/ Passive(ok)
  BY <1>3, PortKeepsFlow, PassiveKeepsFlow
<1>4. CASE \/ Greet \/ Hangup \/ SendPreliminary \/ OpenDataConnection \/ AcceptData \/ AcceptFails
           \/ EndList \/ \E whole \in BOOLEAN : EndMove(whole)
  BY <1>4, ChannelUntouched
     DEF Greet, Hangup, SendPreliminary, OpenDataConnection, AcceptData, AcceptFails, EndList, EndMove
<1>5. CASE \E command \in {"retr", "stor", "list"} : Begin(command)
  BY <1>5, ChannelUntouched DEF Begin
<1>6. CASE UNCHANGED vars
  BY <1>6, ChannelUntouched DEF vars
<1> QED
  BY <1>1, <1>2, <1>3, <1>4, <1>5, <1>6 DEF Next, Commands, Proceed
-----------------------------------------------------------------------------
(* Induction, and what a fold does.                                        *)

(* Every set of numbers has a least one.                                   *)
LEMMA LeastOf ==
  ASSUME NEW K \in SUBSET Nat, K # {}
  PROVE  \E i \in K : \A j \in K : i <= j
<1> DEFINE Less == {pair \in Nat \X Nat : pair[1] < pair[2]}
<1>1. IsWellFoundedOn(Less, Nat)
  BY NatLessThanWellFounded DEF OpToRel
<1> HIDE DEF Less
<1>2. PICK i \in K : \A j \in K : <<j, i>> \notin Less
  BY <1>1, WFMin
<1>3. \A j \in K : j \in Nat /\ i \in Nat /\ ~ (j < i)
  BY <1>2 DEF Less
<1> QED BY <1>3

(* Induction up to a bound.                                                *)
LEMMA StepByStep ==
  ASSUME NEW n \in Nat, NEW K, 0 \in K, \A i \in 1 .. n : i - 1 \in K => i \in K
  PROVE  \A i \in 0 .. n : i \in K
<1> DEFINE Left == {i \in 0 .. n : i \notin K}
<1> SUFFICES ASSUME Left # {} PROVE FALSE
  OBVIOUS
<1>1. Left \in SUBSET Nat
  OBVIOUS
<1>2. PICK i \in Left : \A j \in Left : i <= j
  <2> HIDE DEF Left
  <2> QED BY <1>1, LeastOf
<1>3. i \in 1 .. n
  BY <1>2
<1>4. i - 1 \notin Left
  BY <1>2, <1>3
<1>5. i - 1 \in 0 .. n
  BY <1>3
<1> QED BY <1>2, <1>3, <1>4, <1>5

(* The greatest number of a set that has a bound, as Max finds it.         *)
LEMMA GreatestOf ==
  ASSUME NEW n \in Nat, NEW s \in SUBSET (1 .. n), s # {}
  PROVE  Max(s) \in s /\ \A j \in s : j <= Max(s)
<1> DEFINE Above == {i \in 0 .. n : \A j \in s : j <= i}
<1>1. Above \in SUBSET Nat /\ n \in Above
  OBVIOUS
<1>2. PICK m \in Above : \A j \in Above : m <= j
  <2> HIDE DEF Above
  <2> QED BY <1>1, LeastOf
<1>3. m \in Nat /\ m \in 0 .. n /\ \A j \in s : j <= m /\ j \in Nat
  BY <1>2
<1>4. m \in s
  <2> SUFFICES ASSUME m \notin s PROVE FALSE
    OBVIOUS
  <2>1. \A j \in s : j <= m - 1
    BY <1>3
  <2>2. m \in 1 .. n
    <3>1. PICK j \in s : j \in 1 .. n /\ j <= m
      BY <1>3
    <3> QED BY <1>3, <3>1
  <2>3. m - 1 \in Above
    BY <2>1, <2>2
  <2> QED BY <1>2, <1>3, <2>3
<1>5. \E x \in s : \A y \in s : x >= y
  BY <1>3, <1>4
<1>6. Max(s) \in s /\ \A y \in s : Max(s) >= y
  BY <1>5, Zenon DEF Max
<1> QED BY <1>3, <1>6

\* it is the function that a fold of G over p from b runs through, up to place k.
FoldsUpTo(it, G, b, p, k) ==
  \A s \in SUBSET (1 .. k) :
    it[s] = IF s = {} THEN b ELSE G[<<it[s \ {Max(s)}], p[Max(s)]>>]

(* There is such a function.                                               *)
LEMMA FoldExists ==
  ASSUME NEW S, NEW T, NEW G \in [S \X T -> S], NEW b \in S, NEW n \in Nat, NEW p \in [1 .. n -> T]
  PROVE  \E it \in [SUBSET (1 .. n) -> S] : FoldsUpTo(it, G, b, p, n)
<1> DEFINE Works(it, k) ==
             \A s \in SUBSET (1 .. k) :
               it[s] = IF s = {} THEN b ELSE G[<<it[s \ {Max(s)}], p[Max(s)]>>]
           K == {k \in 0 .. n : \E it \in [SUBSET (1 .. k) -> S] : Works(it, k)}
<1>1. 0 \in K
  <2> DEFINE it == [s \in SUBSET (1 .. 0) |-> b]
  <2>1. \A s \in SUBSET (1 .. 0) : s = {}
    OBVIOUS
  <2>2. it \in [SUBSET (1 .. 0) -> S] /\ Works(it, 0)
    BY <2>1
  <2>3. 0 \in 0 .. n
    OBVIOUS
  <2> HIDE DEF it, Works
  <2> QED BY <2>2, <2>3, Zenon
<1>2. ASSUME NEW k \in 1 .. n, k - 1 \in K PROVE k \in K
  <2>1. PICK old \in [SUBSET (1 .. k - 1) -> S] : Works(old, k - 1)
    BY <1>2
  <2> DEFINE it == [s \in SUBSET (1 .. k) |->
                     IF k \in s THEN G[<<old[s \ {k}], p[k]>>] ELSE old[s]]
  <2>2. \A s \in SUBSET (1 .. k) : /\ s \ {k} \in SUBSET (1 .. k - 1)
                                   /\ k \notin s => s \in SUBSET (1 .. k - 1)
                                   /\ k \notin s \ {k}
    OBVIOUS
  <2>3. it \in [SUBSET (1 .. k) -> S]
    <3>1. p[k] \in T
      OBVIOUS
    <3> SUFFICES ASSUME NEW s \in SUBSET (1 .. k)
                 PROVE  (IF k \in s THEN G[<<old[s \ {k}], p[k]>>] ELSE old[s]) \in S
      BY Zenon
    <3> QED BY <2>2, <3>1
  <2>4. Works(it, k)
    <3> SUFFICES ASSUME NEW s \in SUBSET (1 .. k), s # {}
                 PROVE  it[s] = G[<<it[s \ {Max(s)}], p[Max(s)]>>]
      <4>1. {} \in SUBSET (1 .. k) /\ {} \in SUBSET (1 .. k - 1) /\ k \notin {}
        OBVIOUS
      <4>2. it[{}] = b
        <5>1. it[{}] = old[{}]
          BY <4>1, Zenon
        <5> HIDE DEF it
        <5> QED BY <2>1, <4>1, <5>1
      <4> HIDE DEF it
      <4> QED BY <4>2
    <3>1. k \in Nat
      OBVIOUS
    <3>2. Max(s) \in s /\ \A j \in s : j <= Max(s)
      BY <3>1, GreatestOf
    <3>3. CASE k \in s
      <4>1. Max(s) = k
        <5>1. Max(s) \in 1 .. k /\ k <= Max(s)
          BY <3>2, <3>3
        <5> QED BY <5>1
      <4>2. it[s] = G[<<old[s \ {k}], p[k]>>]
        BY <3>3, Zenon
      <4>3. s \ {k} \in SUBSET (1 .. k) /\ k \notin s \ {k}
        OBVIOUS
      <4>4. it[s \ {k}] = old[s \ {k}]
        BY <4>3, Zenon
      <4> QED BY <4>1, <4>2, <4>4, Zenon
    <3>4. CASE k \notin s
      <4>1. s \in SUBSET (1 .. k - 1) /\ s \ {Max(s)} \in SUBSET (1 .. k)
            /\ k \notin s \ {Max(s)}
        BY <2>2, <3>4
      <4>2. it[s] = old[s] /\ it[s \ {Max(s)}] = old[s \ {Max(s)}]
        BY <3>4, <4>1, Zenon
      <4> HIDE DEF it
      <4> QED BY <2>1, <4>1, <4>2
    <3> QED BY <3>3, <3>4
  <2> HIDE DEF it, Works
  <2> QED BY <2>3, <2>4
<1>3. n \in K
  <2>1. \A k \in 1 .. n : k - 1 \in K => k \in K
    BY <1>2
  <2>2. n \in 0 .. n
    OBVIOUS
  <2> HIDE DEF K
  <2> QED BY <1>1, <2>1, <2>2, StepByStep
<1> HIDE DEF Works
<1>4. PICK it \in [SUBSET (1 .. n) -> S] : Works(it, n)
  BY <1>3
<1> QED BY <1>4 DEF Works, FoldsUpTo

(* It takes the places of a sequence one after the other.                  *)
LEMMA MaxOfPrefix ==
  ASSUME NEW n \in Nat, NEW i \in 1 .. n
  PROVE  Max(1 .. i) = i /\ (1 .. i) \ {i} = 1 .. i - 1 /\ 1 .. i # {}
<1>1. i \in Nat /\ 1 .. i \in SUBSET (1 .. i) /\ i \in 1 .. i
  OBVIOUS
<1>2. Max(1 .. i) \in 1 .. i /\ \A j \in 1 .. i : j <= Max(1 .. i)
  BY <1>1, GreatestOf
<1>3. Max(1 .. i) = i
  BY <1>1, <1>2
<1>4. (1 .. i) \ {i} = 1 .. i - 1
  OBVIOUS
<1> QED BY <1>1, <1>3, <1>4

-----------------------------------------------------------------------------
(* The three folds over a path.                                            *)

\* f[i] has the names of the first i tokens.
NamesSoFar(f, p) ==
  f[0] = <<>> /\ \A i \in 1 .. Len(p) : f[i] = CollectName(f[i - 1], p[i])

(* Names goes through the path from its beginning.                         *)
LEMMA NamesCollected ==
  ASSUME NEW T, NEW p \in Seq(T)
  PROVE  \E f \in [0 .. Len(p) -> Seq(T)] : NamesSoFar(f, p) /\ Names(p) = f[Len(p)]
<1> DEFINE n == Len(p)
           G == [x \in Seq(T) \X T |-> CollectName(x[1], x[2])]
           Runs(it) == it = [s \in SUBSET DOMAIN p |->
                              IF s = {} THEN <<>> ELSE CollectName(it[s \ {Max(s)}], p[Max(s)])]
<1>1. \A names \in Seq(T), t \in T : CollectName(names, t) \in Seq(T)
  BY DEF CollectName
<1>2. G \in [Seq(T) \X T -> Seq(T)] /\ \A names \in Seq(T), t \in T : G[<<names, t>>] = CollectName(names, t)
  BY <1>1
<1>3. n \in Nat /\ p \in [1 .. n -> T] /\ DOMAIN p = 1 .. n /\ <<>> \in Seq(T)
  OBVIOUS
<1> HIDE DEF G, n
<1>4. \E it : Runs(it)
  <2>0. PICK it \in [SUBSET (1 .. n) -> Seq(T)] : FoldsUpTo(it, G, <<>>, p, n)
    BY <1>2, <1>3, FoldExists, Zenon
  <2>1. \A s \in SUBSET (1 .. n) :
            it[s] = IF s = {} THEN <<>> ELSE G[<<it[s \ {Max(s)}], p[Max(s)]>>]
    BY <2>0 DEF FoldsUpTo
  <2>2. ASSUME NEW s \in SUBSET (1 .. n), s # {}
        PROVE  it[s] = CollectName(it[s \ {Max(s)}], p[Max(s)])
    <3>1. Max(s) \in 1 .. n
      BY <1>3, <2>2, GreatestOf
    <3>2. p[Max(s)] \in T /\ it[s \ {Max(s)}] \in Seq(T)
      BY <1>3, <3>1
    <3> QED BY <1>2, <2>1, <2>2, <3>2
  <2>3. it = [s \in SUBSET (1 .. n) |->
                IF s = {} THEN <<>> ELSE CollectName(it[s \ {Max(s)}], p[Max(s)])]
    BY <2>1, <2>2
  <2> QED BY <1>3, <2>3, Zenon
<1>5. PICK it : Runs(it) /\ Names(p) = it[1 .. n]
  <2>1. Names(p) = (CHOOSE it : Runs(it))[DOMAIN p]
    BY DEF Names, FoldLeft, MapThenFoldSet
  <2> HIDE DEF Runs
  <2> QED BY <1>3, <1>4, <2>1, Zenon
<1> DEFINE f == [i \in 0 .. n |-> it[1 .. i]]
<1>6. f[0] = <<>>
  <2>1. 1 .. 0 = {} /\ {} \in SUBSET (1 .. n) /\ 0 \in 0 .. n
    BY <1>3
  <2>2. it[{}] = <<>>
    BY <1>3, <1>5, <2>1, Zenon
  <2> QED BY <2>1, <2>2, Zenon
<1>7. ASSUME NEW i \in 1 .. n PROVE f[i] = CollectName(f[i - 1], p[i])
  <2>1. /\ 1 .. i \in SUBSET (1 .. n) /\ i \in 0 .. n /\ i - 1 \in 0 .. n
    BY <1>3
  <2>2. Max(1 .. i) = i /\ (1 .. i) \ {i} = 1 .. i - 1 /\ 1 .. i # {}
    BY <1>3, MaxOfPrefix
  <2>3. it[1 .. i] = CollectName(it[(1 .. i) \ {Max(1 .. i)}], p[Max(1 .. i)])
    BY <1>3, <1>5, <2>1, <2>2, Zenon
  <2> QED BY <2>1, <2>2, <2>3, Zenon
<1> HIDE DEF f
<1>8. \A i \in 0 .. n : f[i] \in Seq(T)
  <2> DEFINE K == {i \in 0 .. n : f[i] \in Seq(T)}
  <2>1. 0 \in K
    <3>1. 0 \in 0 .. n
      BY <1>3
    <3> QED BY <1>3, <1>6, <3>1
  <2>2. \A i \in 1 .. n : i - 1 \in K => i \in K
    <3> SUFFICES ASSUME NEW i \in 1 .. n, f[i - 1] \in Seq(T) PROVE f[i] \in Seq(T)
      BY <1>3
    <3> QED BY <1>1, <1>3, <1>7
  <2>3. \A i \in 0 .. n : i \in K
    <3> HIDE DEF K
    <3> QED BY <1>3, <2>1, <2>2, StepByStep
  <2> QED BY <2>3
<1>9. f \in [0 .. n -> Seq(T)]
  BY <1>8 DEF f
<1>10. Names(p) = f[n]
  <2>1. n \in 0 .. n
    BY <1>3
  <2> QED BY <1>5, <2>1, Zenon DEF f
<1> QED BY <1>6, <1>7, <1>9, <1>10 DEF NamesSoFar, n

CopyWithSlashStates(T) == [out : Seq(T), killed : BOOLEAN]
CopyOnceStates(T) == [out : Seq(T), killed : BOOLEAN, volume : BOOLEAN]

\* f[i] is the state of the copy after i tokens.
CopiedSoFarWithSlash(f, p) ==
  /\ f[0] = [out |-> <<Slash>>, killed |-> FALSE]
  /\ \A i \in 1 .. Len(p) : f[i] = CopyWithSlash(f[i - 1], p[i])

(* What the copies of a path consist of.                                   *)
LEMMA CopyWithSlashType ==
  ASSUME NEW T, Separators \subseteq T, NEW s \in CopyWithSlashStates(T), NEW t \in T
  PROVE  CopyWithSlash(s, t) \in CopyWithSlashStates(T)
BY DEF CopyWithSlash, CopyWithSlashStates, Separators

(* The copy FatFsPathToFTPPath makes, token by token.                      *)
LEMMA CopiedWithSlash ==
  ASSUME NEW T, Separators \subseteq T, NEW p \in Seq(T)
  PROVE  \E f \in [0 .. Len(p) -> CopyWithSlashStates(T)] :
            /\ CopiedSoFarWithSlash(f, p)
            /\ FoldLeft(CopyWithSlash, [out |-> <<Slash>>, killed |-> FALSE], p) = f[Len(p)]
<1> DEFINE n == Len(p)
           S == CopyWithSlashStates(T)
           b == [out |-> <<Slash>>, killed |-> FALSE]
           G == [x \in S \X T |-> CopyWithSlash(x[1], x[2])]
           Runs(it) == it = [s \in SUBSET DOMAIN p |->
                              IF s = {} THEN b ELSE CopyWithSlash(it[s \ {Max(s)}], p[Max(s)])]
<1>1. \A s \in S, t \in T : CopyWithSlash(s, t) \in S
  BY CopyWithSlashType
<1>2. b \in S
  BY DEF Separators, CopyWithSlashStates
<1>a. n \in Nat /\ p \in [1 .. n -> T] /\ DOMAIN p = 1 .. n
  OBVIOUS
<1> HIDE DEF n, S, b
<1>b. G \in [S \X T -> S] /\ \A s \in S, t \in T : G[<<s, t>>] = CopyWithSlash(s, t)
  BY <1>1
<1>3. n \in Nat /\ p \in [1 .. n -> T] /\ DOMAIN p = 1 .. n /\ b \in S
  BY <1>2, <1>a
<1> HIDE DEF G
<1>4. \E it : Runs(it)
  <2>0. PICK it \in [SUBSET (1 .. n) -> S] : FoldsUpTo(it, G, b, p, n)
    BY <1>b, <1>3, FoldExists, Zenon
  <2>1. \A s \in SUBSET (1 .. n) :
            it[s] = IF s = {} THEN b ELSE G[<<it[s \ {Max(s)}], p[Max(s)]>>]
    BY <2>0 DEF FoldsUpTo
  <2>2. ASSUME NEW s \in SUBSET (1 .. n), s # {}
        PROVE  it[s] = CopyWithSlash(it[s \ {Max(s)}], p[Max(s)])
    <3>1. Max(s) \in 1 .. n
      BY <1>3, <2>2, GreatestOf
    <3>2. p[Max(s)] \in T /\ it[s \ {Max(s)}] \in S
      BY <1>3, <3>1
    <3> QED BY <1>b, <2>1, <2>2, <3>2
  <2>3. it = [s \in SUBSET (1 .. n) |->
                IF s = {} THEN b ELSE CopyWithSlash(it[s \ {Max(s)}], p[Max(s)])]
    BY <2>1, <2>2
  <2> QED BY <1>3, <2>3, Zenon
<1>5. PICK it : Runs(it) /\ FoldLeft(CopyWithSlash, [out |-> <<Slash>>, killed |-> FALSE], p) = it[1 .. n]
  <2>1. FoldLeft(CopyWithSlash, [out |-> <<Slash>>, killed |-> FALSE], p) = (CHOOSE it : Runs(it))[DOMAIN p]
    BY DEF FoldLeft, MapThenFoldSet, b
  <2> HIDE DEF Runs
  <2> QED BY <1>3, <1>4, <2>1, Zenon
<1> DEFINE f == [i \in 0 .. n |-> it[1 .. i]]
<1>6. f[0] = b
  <2>1. 1 .. 0 = {} /\ {} \in SUBSET (1 .. n) /\ 0 \in 0 .. n
    BY <1>3
  <2>2. it[{}] = b
    BY <1>3, <1>5, <2>1, Zenon
  <2> QED BY <2>1, <2>2, Zenon
<1>7. ASSUME NEW i \in 1 .. n PROVE f[i] = CopyWithSlash(f[i - 1], p[i])
  <2>1. /\ 1 .. i \in SUBSET (1 .. n) /\ i \in 0 .. n /\ i - 1 \in 0 .. n
    BY <1>3
  <2>2. Max(1 .. i) = i /\ (1 .. i) \ {i} = 1 .. i - 1 /\ 1 .. i # {}
    BY <1>3, MaxOfPrefix
  <2>3. it[1 .. i] = CopyWithSlash(it[(1 .. i) \ {Max(1 .. i)}], p[Max(1 .. i)])
    BY <1>3, <1>5, <2>1, <2>2, Zenon
  <2> QED BY <2>1, <2>2, <2>3, Zenon
<1> HIDE DEF f
<1>8. \A i \in 0 .. n : f[i] \in S
  <2> DEFINE K == {i \in 0 .. n : f[i] \in S}
  <2>1. 0 \in K
    <3>1. 0 \in 0 .. n
      BY <1>3
    <3> QED BY <1>3, <1>6, <3>1
  <2>2. \A i \in 1 .. n : i - 1 \in K => i \in K
    <3> SUFFICES ASSUME NEW i \in 1 .. n, f[i - 1] \in S PROVE f[i] \in S
      BY <1>3
    <3> QED BY <1>1, <1>3, <1>7
  <2>3. \A i \in 0 .. n : i \in K
    <3> HIDE DEF K
    <3> QED BY <1>3, <2>1, <2>2, StepByStep
  <2> QED BY <2>3
<1>9. f \in [0 .. n -> S]
  BY <1>8 DEF f
<1>10. FoldLeft(CopyWithSlash, [out |-> <<Slash>>, killed |-> FALSE], p) = f[n]
  <2>1. n \in 0 .. n
    BY <1>3
  <2> QED BY <1>5, <2>1, Zenon DEF f
<1> QED BY <1>6, <1>7, <1>9, <1>10 DEF CopiedSoFarWithSlash, n, S, b

CopiedSoFarOnce(f, p) ==
  /\ f[0] = [out |-> <<>>, killed |-> TRUE, volume |-> FALSE]
  /\ \A i \in 1 .. Len(p) : f[i] = CopyOnce(f[i - 1], p[i])

(* The same for the other direction.                                       *)
LEMMA CopyOnceType ==
  ASSUME NEW T, Separators \subseteq T, NEW s \in CopyOnceStates(T), NEW t \in T
  PROVE  CopyOnce(s, t) \in CopyOnceStates(T)
<1>1. Slash \in T /\ Colon \in T
  BY DEF Separators
<1>2. s.out \in Seq(T) /\ s.killed \in BOOLEAN /\ s.volume \in BOOLEAN
  BY DEF CopyOnceStates
<1>3. CASE t = Slash /\ s.killed
  BY <1>3 DEF CopyOnce
<1>4. CASE t = Slash /\ ~ s.killed
  <2> DEFINE c == IF s.volume THEN Slash ELSE Colon
  <2>1. CopyOnce(s, t) = [out |-> Append(s.out, c), killed |-> TRUE, volume |-> TRUE]
    BY <1>4 DEF CopyOnce
  <2>2. Append(s.out, c) \in Seq(T)
    BY <1>1, <1>2
  <2> QED BY <2>1, <2>2 DEF CopyOnceStates
<1>5. CASE t # Slash
  <2>1. CopyOnce(s, t) = [out |-> Append(s.out, t), killed |-> FALSE, volume |-> s.volume]
    BY <1>5 DEF CopyOnce, CopyOnceStates
  <2> QED BY <1>2, <2>1 DEF CopyOnceStates
<1> QED BY <1>3, <1>4, <1>5

(* The copy FTPPathToFatFsPath makes, token by token.                      *)
LEMMA CopiedOnce ==
  ASSUME NEW T, Separators \subseteq T, NEW p \in Seq(T)
  PROVE  \E f \in [0 .. Len(p) -> CopyOnceStates(T)] :
            /\ CopiedSoFarOnce(f, p)
            /\ FoldLeft(CopyOnce, [out |-> <<>>, killed |-> TRUE, volume |-> FALSE], p) = f[Len(p)]
<1> DEFINE n == Len(p)
           S == CopyOnceStates(T)
           b == [out |-> <<>>, killed |-> TRUE, volume |-> FALSE]
           G == [x \in S \X T |-> CopyOnce(x[1], x[2])]
           Runs(it) == it = [s \in SUBSET DOMAIN p |->
                              IF s = {} THEN b ELSE CopyOnce(it[s \ {Max(s)}], p[Max(s)])]
<1>1. \A s \in S, t \in T : CopyOnce(s, t) \in S
  BY CopyOnceType
<1>2. b \in S
  BY DEF CopyOnceStates
<1>a. n \in Nat /\ p \in [1 .. n -> T] /\ DOMAIN p = 1 .. n
  OBVIOUS
<1> HIDE DEF n, S, b
<1>b. G \in [S \X T -> S] /\ \A s \in S, t \in T : G[<<s, t>>] = CopyOnce(s, t)
  BY <1>1
<1>3. n \in Nat /\ p \in [1 .. n -> T] /\ DOMAIN p = 1 .. n /\ b \in S
  BY <1>2, <1>a
<1> HIDE DEF G
<1>4. \E it : Runs(it)
  <2>0. PICK it \in [SUBSET (1 .. n) -> S] : FoldsUpTo(it, G, b, p, n)
    BY <1>b, <1>3, FoldExists, Zenon
  <2>1. \A s \in SUBSET (1 .. n) :
            it[s] = IF s = {} THEN b ELSE G[<<it[s \ {Max(s)}], p[Max(s)]>>]
    BY <2>0 DEF FoldsUpTo
  <2>2. ASSUME NEW s \in SUBSET (1 .. n), s # {}
        PROVE  it[s] = CopyOnce(it[s \ {Max(s)}], p[Max(s)])
    <3>1. Max(s) \in 1 .. n
      BY <1>3, <2>2, GreatestOf
    <3>2. p[Max(s)] \in T /\ it[s \ {Max(s)}] \in S
      BY <1>3, <3>1
    <3> QED BY <1>b, <2>1, <2>2, <3>2
  <2>3. it = [s \in SUBSET (1 .. n) |->
                IF s = {} THEN b ELSE CopyOnce(it[s \ {Max(s)}], p[Max(s)])]
    BY <2>1, <2>2
  <2> QED BY <1>3, <2>3, Zenon
<1>5. PICK it : Runs(it) /\ FoldLeft(CopyOnce, [out |-> <<>>, killed |-> TRUE, volume |-> FALSE], p) = it[1 .. n]
  <2>1. FoldLeft(CopyOnce, [out |-> <<>>, killed |-> TRUE, volume |-> FALSE], p) = (CHOOSE it : Runs(it))[DOMAIN p]
    BY DEF FoldLeft, MapThenFoldSet, b
  <2> HIDE DEF Runs
  <2> QED BY <1>3, <1>4, <2>1, Zenon
<1> DEFINE f == [i \in 0 .. n |-> it[1 .. i]]
<1>6. f[0] = b
  <2>1. 1 .. 0 = {} /\ {} \in SUBSET (1 .. n) /\ 0 \in 0 .. n
    BY <1>3
  <2>2. it[{}] = b
    BY <1>3, <1>5, <2>1, Zenon
  <2> QED BY <2>1, <2>2, Zenon
<1>7. ASSUME NEW i \in 1 .. n PROVE f[i] = CopyOnce(f[i - 1], p[i])
  <2>1. /\ 1 .. i \in SUBSET (1 .. n) /\ i \in 0 .. n /\ i - 1 \in 0 .. n
    BY <1>3
  <2>2. Max(1 .. i) = i /\ (1 .. i) \ {i} = 1 .. i - 1 /\ 1 .. i # {}
    BY <1>3, MaxOfPrefix
  <2>3. it[1 .. i] = CopyOnce(it[(1 .. i) \ {Max(1 .. i)}], p[Max(1 .. i)])
    BY <1>3, <1>5, <2>1, <2>2, Zenon
  <2> QED BY <2>1, <2>2, <2>3, Zenon
<1> HIDE DEF f
<1>8. \A i \in 0 .. n : f[i] \in S
  <2> DEFINE K == {i \in 0 .. n : f[i] \in S}
  <2>1. 0 \in K
    <3>1. 0 \in 0 .. n
      BY <1>3
    <3> QED BY <1>3, <1>6, <3>1
  <2>2. \A i \in 1 .. n : i - 1 \in K => i \in K
    <3> SUFFICES ASSUME NEW i \in 1 .. n, f[i - 1] \in S PROVE f[i] \in S
      BY <1>3
    <3> QED BY <1>1, <1>3, <1>7
  <2>3. \A i \in 0 .. n : i \in K
    <3> HIDE DEF K
    <3> QED BY <1>3, <2>1, <2>2, StepByStep
  <2> QED BY <2>3
<1>9. f \in [0 .. n -> S]
  BY <1>8 DEF f
<1>10. FoldLeft(CopyOnce, [out |-> <<>>, killed |-> TRUE, volume |-> FALSE], p) = f[n]
  <2>1. n \in 0 .. n
    BY <1>3
  <2> QED BY <1>5, <2>1, Zenon DEF f
<1> QED BY <1>6, <1>7, <1>9, <1>10 DEF CopiedSoFarOnce, n, S, b

-----------------------------------------------------------------------------
(* The names of a path.                                                    *)

(* Names are names.                                                        *)
LEMMA CollectNameType ==
  ASSUME NEW T, NEW names \in Seq(T), NEW t \in T
  PROVE  CollectName(names, t) \in Seq(T)
BY DEF CollectName

(* The names of a path are taken from it.                                  *)
LEMMA NamesType ==
  ASSUME NEW T, NEW p \in Seq(T)
  PROVE  Names(p) \in Seq(T)
<1>1. PICK f \in [0 .. Len(p) -> Seq(T)] : NamesSoFar(f, p) /\ Names(p) = f[Len(p)]
  BY NamesCollected
<1>2. Len(p) \in 0 .. Len(p)
  OBVIOUS
<1> QED BY <1>1, <1>2

(* The list of volumes has no name.                                        *)
LEMMA NamesOfNothing == Names(<<>>) = <<>>
<1>1. <<>> \in Seq({})
  OBVIOUS
<1>2. PICK f \in [0 .. Len(<<>>) -> Seq({})] : NamesSoFar(f, <<>>) /\ Names(<<>>) = f[Len(<<>>)]
  BY <1>1, NamesCollected
<1> QED BY <1>2 DEF NamesSoFar

(* What has been collected half way are the names of that half.            *)
LEMMA NamesOfPrefix ==
  ASSUME NEW T, NEW p \in Seq(T), NEW q \in Seq(T), Len(p) <= Len(q),
         \A i \in 1 .. Len(p) : p[i] = q[i],
         NEW f, NamesSoFar(f, q)
  PROVE  Names(p) = f[Len(p)]
<1>1. PICK g \in [0 .. Len(p) -> Seq(T)] : NamesSoFar(g, p) /\ Names(p) = g[Len(p)]
  BY NamesCollected
<1> DEFINE n == Len(p)
           K == {i \in 0 .. n : g[i] = f[i]}
<1>2. n \in Nat /\ Len(q) \in Nat /\ n \in 0 .. n
  OBVIOUS
<1>3. 0 \in K
  BY <1>1, <1>2 DEF NamesSoFar
<1>4. ASSUME NEW i \in 1 .. n, i - 1 \in K PROVE i \in K
  <2>1. i \in 0 .. n /\ i \in 1 .. Len(p) /\ i \in 1 .. Len(q)
    BY <1>2
  <2>2. g[i] = CollectName(g[i - 1], p[i])
    BY <1>1, <2>1 DEF NamesSoFar
  <2>3. f[i] = CollectName(f[i - 1], q[i])
    BY <2>1 DEF NamesSoFar
  <2> QED BY <1>4, <2>1, <2>2, <2>3
<1>5. \A i \in 0 .. n : i \in K
  <2> HIDE DEF K, n
  <2> QED BY <1>2, <1>3, <1>4, StepByStep
<1>6. g[n] = f[n]
  BY <1>2, <1>5
<1> QED BY <1>1, <1>6

(* The names of a path that has got one more token.                        *)
LEMMA NamesOfAppend ==
  ASSUME NEW T, NEW p \in Seq(T), NEW t \in T
  PROVE  Names(Append(p, t)) = CollectName(Names(p), t)
<1> DEFINE q == Append(p, t)
<1>1. q \in Seq(T) /\ Len(q) = Len(p) + 1 /\ \A i \in 1 .. Len(p) : p[i] = q[i]
  OBVIOUS
<1>2. q[Len(p) + 1] = t /\ Len(p) \in Nat
  OBVIOUS
<1> HIDE DEF q
<1>3. PICK f \in [0 .. Len(q) -> Seq(T)] : NamesSoFar(f, q) /\ Names(q) = f[Len(q)]
  BY <1>1, NamesCollected
<1>4. Names(p) = f[Len(p)]
  BY <1>1, <1>2, <1>3, NamesOfPrefix
<1>5. f[Len(p) + 1] = CollectName(f[Len(p) + 1 - 1], q[Len(p) + 1])
  BY <1>1, <1>2, <1>3 DEF NamesSoFar
<1>6. Len(p) + 1 - 1 = Len(p)
  BY <1>2
<1> QED BY <1>1, <1>2, <1>3, <1>4, <1>5, <1>6 DEF q

(* The names of a beginning of a path, and of the next one.                *)
LEMMA NamesOneMore ==
  ASSUME NEW T, NEW p \in Seq(T), NEW i \in 1 .. Len(p)
  PROVE  /\ SubSeq(p, 1, i - 1) \in Seq(T)
         /\ Names(SubSeq(p, 1, i)) = CollectName(Names(SubSeq(p, 1, i - 1)), p[i])
<1>1. SubSeq(p, 1, i - 1) \in Seq(T) /\ p[i] \in T
  OBVIOUS
<1>2. SubSeq(p, 1, i) = Append(SubSeq(p, 1, i - 1), p[i])
  OBVIOUS
<1> QED BY <1>1, <1>2, NamesOfAppend

(* Separators add no names.                                                *)
LEMMA NamesOverSeparators ==
  ASSUME NEW T, NEW p \in Seq(T), NEW j \in 0 .. Len(p), NEW k \in j .. Len(p),
         \A i \in j + 1 .. k : p[i] \in Separators
  PROVE  Names(SubSeq(p, 1, k)) = Names(SubSeq(p, 1, j))
<1> DEFINE n == k - j
           K == {i \in 0 .. n : Names(SubSeq(p, 1, j + i)) = Names(SubSeq(p, 1, j))}
<1>1. n \in Nat /\ j \in Nat /\ k \in Nat /\ n \in 0 .. n /\ 0 \in 0 .. n
      /\ Len(p) \in Nat /\ k = j + n /\ k <= Len(p)
  OBVIOUS
<1> HIDE DEF n
<1>2. 0 \in K
  <2>1. j + 0 = j
    BY <1>1
  <2> QED BY <1>1, <2>1
<1>3. ASSUME NEW i \in 1 .. n, i - 1 \in K PROVE i \in K
  <2>1. j + i \in 1 .. Len(p) /\ j + i \in j + 1 .. k /\ i \in 0 .. n /\ j + i - 1 = j + (i - 1)
    BY <1>1
  <2>2. Names(SubSeq(p, 1, j + i)) = CollectName(Names(SubSeq(p, 1, j + i - 1)), p[j + i])
    BY <2>1, NamesOneMore
  <2>3. CollectName(Names(SubSeq(p, 1, j + i - 1)), p[j + i]) = Names(SubSeq(p, 1, j + i - 1))
    BY <2>1 DEF CollectName
  <2> QED BY <1>3, <2>1, <2>2, <2>3
<1>4. \A i \in 0 .. n : i \in K
  <2> HIDE DEF K
  <2> QED BY <1>1, <1>2, <1>3, StepByStep
<1> QED BY <1>1, <1>4

(* Neither does the slash that is killed at the end.                       *)
LEMMA WithoutSlashAtEnd ==
  ASSUME NEW T, NEW p \in Seq(T)
  PROVE  /\ WithoutTrailingSlash(p) \in Seq(T)
         /\ Names(WithoutTrailingSlash(p)) = Names(p)
<1>1. CASE p = <<>> \/ Last(p) # Slash
  BY <1>1 DEF WithoutTrailingSlash
<1>2. CASE p # <<>> /\ Last(p) = Slash
  <2>1. WithoutTrailingSlash(p) = Front(p)
    BY <1>2 DEF WithoutTrailingSlash
  <2>2. Front(p) \in Seq(T) /\ p = Append(Front(p), Slash) /\ Slash \in T
    BY <1>2 DEF Front, Last
  <2>3. CollectName(Names(Front(p)), Slash) = Names(Front(p))
    BY DEF CollectName, Separators
  <2>4. Names(Append(Front(p), Slash)) = CollectName(Names(Front(p)), Slash)
    BY <2>2, NamesOfAppend
  <2> QED BY <2>1, <2>2, <2>3, <2>4
<1> QED BY <1>1, <1>2

-----------------------------------------------------------------------------
(* A path that is rewritten keeps its names.                               *)

(* A token is copied with its name, and slashes put in are none.           *)
LEMMA CopyWithSlashKeepsNames ==
  ASSUME NEW T, Separators \subseteq T, NEW s \in CopyWithSlashStates(T), NEW t \in T
  PROVE  Names(CopyWithSlash(s, t).out) = CollectName(Names(s.out), t)
<1>1. Slash \in T /\ Slash \in Separators /\ Colon \in Separators /\ s.out \in Seq(T)
  BY DEF Separators, CopyWithSlashStates
<1>2. \A c \in T : Names(Append(s.out, c)) = CollectName(Names(s.out), c)
  BY <1>1, NamesOfAppend
<1>3. \A c \in Separators : CollectName(Names(s.out), c) = Names(s.out)
  BY DEF CollectName
<1>4. CASE t = Colon
  BY <1>1, <1>2, <1>3, <1>4 DEF CopyWithSlash
<1>5. CASE t = Slash /\ s.killed
  BY <1>1, <1>2, <1>3, <1>5 DEF CopyWithSlash, Slash, Colon
<1>6. CASE t = Slash /\ ~ s.killed
  BY <1>1, <1>2, <1>3, <1>6 DEF CopyWithSlash, Slash, Colon
<1>7. CASE t # Colon /\ t # Slash
  BY <1>1, <1>2, <1>3, <1>7 DEF CopyWithSlash
<1> QED BY <1>4, <1>5, <1>6, <1>7

(* The same for the other direction.                                       *)
LEMMA CopyOnceKeepsNames ==
  ASSUME NEW T, Separators \subseteq T, NEW s \in CopyOnceStates(T), NEW t \in T
  PROVE  Names(CopyOnce(s, t).out) = CollectName(Names(s.out), t)
<1>1. /\ Slash \in T /\ Slash \in Separators /\ Colon \in Separators /\ Colon \in T
      /\ s.out \in Seq(T) /\ s.volume \in BOOLEAN
  BY DEF Separators, CopyOnceStates
<1>2. \A c \in T : Names(Append(s.out, c)) = CollectName(Names(s.out), c)
  BY <1>1, NamesOfAppend
<1>3. \A c \in Separators : CollectName(Names(s.out), c) = Names(s.out)
  BY DEF CollectName
<1>5. CASE t = Slash /\ s.killed
  BY <1>1, <1>3, <1>5 DEF CopyOnce
<1>6. CASE t = Slash /\ ~ s.killed
  <2>1. CopyOnce(s, t).out = Append(s.out, IF s.volume THEN Slash ELSE Colon)
    BY <1>6 DEF CopyOnce
  <2> QED BY <1>1, <1>2, <1>3, <1>6, <2>1
<1>7. CASE t # Slash
  <2>1. CopyOnce(s, t).out = Append(s.out, t)
    BY <1>7 DEF CopyOnce, CopyOnceStates
  <2> QED BY <1>2, <2>1
<1> QED BY <1>5, <1>6, <1>7

(* The path a client is told names what the FatFs path names.              *)
LEMMA ToFTPKeepsNames ==
  ASSUME NEW T, Separators \subseteq T, NEW p \in Seq(T)
  PROVE  /\ FatFsPathToFTPPath(p) \in Seq(T)
         /\ Names(FatFsPathToFTPPath(p)) = Names(p)
<1> DEFINE n == Len(p)
<1>1. PICK f \in [0 .. n -> CopyWithSlashStates(T)] :
         /\ CopiedSoFarWithSlash(f, p)
         /\ FoldLeft(CopyWithSlash, [out |-> <<Slash>>, killed |-> FALSE], p) = f[n]
  BY CopiedWithSlash
<1> DEFINE K == {i \in 0 .. n : Names(f[i].out) = Names(SubSeq(p, 1, i))}
<1>2. n \in Nat /\ n \in 0 .. n /\ 0 \in 0 .. n /\ SubSeq(p, 1, 0) = <<>> /\ SubSeq(p, 1, n) = p
  OBVIOUS
<1>3. 0 \in K
  <2>1. f[0].out = Append(<<>>, Slash)
    BY <1>1 DEF CopiedSoFarWithSlash
  <2>2. Names(Append(<<>>, Slash)) = CollectName(Names(<<>>), Slash)
    <3>1. <<>> \in Seq({Slash}) /\ Slash \in {Slash}
      OBVIOUS
    <3> QED BY <3>1, NamesOfAppend
  <2>3. CollectName(Names(<<>>), Slash) = Names(<<>>)
    BY DEF CollectName, Separators
  <2> QED BY <1>2, <2>1, <2>2, <2>3
<1>4. ASSUME NEW i \in 1 .. n, i - 1 \in K PROVE i \in K
  <2>1. i \in 0 .. n /\ i - 1 \in 0 .. n /\ p[i] \in T
    BY <1>2
  <2>2. f[i - 1] \in CopyWithSlashStates(T) /\ f[i] = CopyWithSlash(f[i - 1], p[i])
    BY <1>1, <2>1 DEF CopiedSoFarWithSlash
  <2>3. Names(f[i].out) = CollectName(Names(f[i - 1].out), p[i])
    BY <2>1, <2>2, CopyWithSlashKeepsNames
  <2>4. Names(SubSeq(p, 1, i)) = CollectName(Names(SubSeq(p, 1, i - 1)), p[i])
    BY NamesOneMore
  <2> QED BY <1>4, <2>1, <2>3, <2>4
<1>5. \A i \in 0 .. n : i \in K
  <2> HIDE DEF K, n
  <2> QED BY <1>2, <1>3, <1>4, StepByStep
<1>6. Names(f[n].out) = Names(p)
  BY <1>2, <1>5
<1>7. f[n].out \in Seq(T)
  <2>1. f[n] \in CopyWithSlashStates(T)
    BY <1>1, <1>2
  <2> QED BY <2>1 DEF CopyWithSlashStates
<1>8. FatFsPathToFTPPath(p) = WithoutTrailingSlash(f[n].out)
  BY <1>1 DEF FatFsPathToFTPPath
<1> HIDE DEF n
<1> QED BY <1>6, <1>7, <1>8, WithoutSlashAtEnd

(* The path FatFs is given names what the client's path names.             *)
LEMMA ToFatFsKeepsNames ==
  ASSUME NEW T, Separators \subseteq T, NEW p \in Seq(T)
  PROVE  /\ FTPPathToFatFsPath(p) \in Seq(T)
         /\ Names(FTPPathToFatFsPath(p)) = Names(p)
<1> DEFINE n == Len(p)
<1>1. PICK f \in [0 .. n -> CopyOnceStates(T)] :
         /\ CopiedSoFarOnce(f, p)
         /\ FoldLeft(CopyOnce, [out |-> <<>>, killed |-> TRUE, volume |-> FALSE], p) = f[n]
  BY CopiedOnce
<1> DEFINE K == {i \in 0 .. n : Names(f[i].out) = Names(SubSeq(p, 1, i))}
<1>2. n \in Nat /\ n \in 0 .. n /\ 0 \in 0 .. n /\ SubSeq(p, 1, 0) = <<>> /\ SubSeq(p, 1, n) = p
  OBVIOUS
<1>3. 0 \in K
  <2>1. f[0].out = <<>>
    BY <1>1 DEF CopiedSoFarOnce
  <2> QED BY <1>2, <2>1
<1>4. ASSUME NEW i \in 1 .. n, i - 1 \in K PROVE i \in K
  <2>1. i \in 0 .. n /\ i - 1 \in 0 .. n /\ p[i] \in T
    BY <1>2
  <2>2. f[i - 1] \in CopyOnceStates(T) /\ f[i] = CopyOnce(f[i - 1], p[i])
    BY <1>1, <2>1 DEF CopiedSoFarOnce
  <2>3. Names(f[i].out) = CollectName(Names(f[i - 1].out), p[i])
    BY <2>1, <2>2, CopyOnceKeepsNames
  <2>4. Names(SubSeq(p, 1, i)) = CollectName(Names(SubSeq(p, 1, i - 1)), p[i])
    BY NamesOneMore
  <2> QED BY <1>4, <2>1, <2>3, <2>4
<1>5. \A i \in 0 .. n : i \in K
  <2> HIDE DEF K, n
  <2> QED BY <1>2, <1>3, <1>4, StepByStep
<1>6. Names(f[n].out) = Names(p)
  BY <1>2, <1>5
<1> DEFINE out == WithoutTrailingSlash(f[n].out)
<1>7. f[n].out \in Seq(T)
  <2>1. f[n] \in CopyOnceStates(T)
    BY <1>1, <1>2
  <2> QED BY <2>1 DEF CopyOnceStates
<1>8. FTPPathToFatFsPath(p) \in {out, Append(out, Colon)}
  BY <1>1 DEF FTPPathToFatFsPath
<1>9. out \in Seq(T) /\ Names(out) = Names(p)
  <2> HIDE DEF n
  <2> QED BY <1>6, <1>7, WithoutSlashAtEnd
<1> HIDE DEF n, out
<1>10. Colon \in T /\ Append(out, Colon) \in Seq(T)
  BY <1>9 DEF Separators
<1>11. Names(Append(out, Colon)) = CollectName(Names(out), Colon)
  BY <1>9, <1>10, NamesOfAppend
<1>12. CollectName(Names(out), Colon) = Names(out)
  BY DEF CollectName, Separators
<1> QED BY <1>8, <1>9, <1>10, <1>11, <1>12

-----------------------------------------------------------------------------
(* PWD: there and back again.                                              *)

(* A copy only grows, by one token at a time.                              *)
LEMMA CopyWithSlashGrows ==
  ASSUME NEW T, Separators \subseteq T, NEW s \in CopyWithSlashStates(T), NEW t \in T
  PROVE  \E c \in T : CopyWithSlash(s, t).out \in {s.out, Append(s.out, c)}
<1>1. Slash \in T
  BY DEF Separators
<1>2. CASE t = Colon
  BY <1>1, <1>2 DEF CopyWithSlash, Slash, Colon
<1>3. CASE t = Slash /\ s.killed
  BY <1>1, <1>3 DEF CopyWithSlash, Slash, Colon
<1>4. CASE t = Slash /\ ~ s.killed
  BY <1>1, <1>4 DEF CopyWithSlash, Slash, Colon
<1>5. CASE t # Colon /\ t # Slash
  BY <1>5 DEF CopyWithSlash
<1> QED BY <1>2, <1>3, <1>4, <1>5

(* The same for the other direction.                                       *)
LEMMA CopyOnceGrows ==
  ASSUME NEW T, Separators \subseteq T, NEW s \in CopyOnceStates(T), NEW t \in T
  PROVE  \E c \in T : CopyOnce(s, t).out \in {s.out, Append(s.out, c)}
<1>1. Slash \in T /\ Colon \in T
  BY DEF Separators
<1>3. CASE t = Slash /\ s.killed
  BY <1>1, <1>3 DEF CopyOnce
<1>4. CASE t = Slash /\ ~ s.killed
  <2>1. CopyOnce(s, t).out = Append(s.out, IF s.volume THEN Slash ELSE Colon)
    BY <1>4 DEF CopyOnce
  <2> QED BY <1>1, <2>1
<1>5. CASE t # Slash
  <2>1. CopyOnce(s, t).out = Append(s.out, t)
    BY <1>5 DEF CopyOnce, CopyOnceStates
  <2> QED BY <2>1
<1> QED BY <1>3, <1>4, <1>5

(* What Append leaves and what it adds.                                    *)
LEMMA AppendKeeps ==
  ASSUME NEW T, NEW p \in Seq(T), NEW c
  PROVE  /\ Len(Append(p, c)) = Len(p) + 1
         /\ \A i \in 1 .. Len(p) : Append(p, c)[i] = p[i]
         /\ Append(p, c)[Len(p) + 1] = c
OBVIOUS

(* A sequence of two.                                                      *)
LEMMA AppendToOne ==
  ASSUME NEW a, NEW b
  PROVE  Append(<<a>>, b)[1] = a /\ Append(<<a>>, b)[2] = b /\ Len(Append(<<a>>, b)) = 2
         /\ Append(<<a>>, b) \in Seq({a, b})
<1>1. <<a>> \in Seq({a, b}) /\ Len(<<a>>) = 1 /\ <<a>>[1] = a /\ b \in {a, b}
  OBVIOUS
<1> QED BY <1>1, AppendKeeps

(* A path with a volume is told as /volume or /volume/...                  *)
LEMMA FTPPathOfVolume ==
  ASSUME NEW T, Separators \subseteq T, NEW p \in Seq(T), HasVolume(p),
         NEW q, q = FatFsPathToFTPPath(p)
  PROVE  /\ Len(q) > 1 /\ q[1] = Slash /\ q[2] \notin Separators
         /\ Len(q) > 2 => q[3] = Slash
<1> DEFINE n == Len(p)
           Begins(out) == Len(out) > 2 /\ out[1] = Slash /\ out[2] = p[1] /\ out[3] = Slash
<1>1. PICK f \in [0 .. n -> CopyWithSlashStates(T)] :
         /\ CopiedSoFarWithSlash(f, p)
         /\ FoldLeft(CopyWithSlash, [out |-> <<Slash>>, killed |-> FALSE], p) = f[n]
  BY CopiedWithSlash
<1>2. n \in Nat /\ n > 1 /\ 1 \in 1 .. n /\ 2 \in 1 .. n /\ n \in 0 .. n /\ 0 \in 0 .. n
      /\ p[1] \notin Separators /\ p[2] = Colon
  BY DEF HasVolume
<1> DEFINE K == {i \in 0 .. n : i > 1 => Begins(f[i].out)}
<1>3. \A i \in 1 .. n : /\ f[i - 1] \in CopyWithSlashStates(T) /\ p[i] \in T
                        /\ f[i] = CopyWithSlash(f[i - 1], p[i])
  BY <1>1, <1>2 DEF CopiedSoFarWithSlash
<1>4. Begins(f[2].out)
  <2>1. f[0].out = <<Slash>>
    BY <1>1 DEF CopiedSoFarWithSlash
  <2>2. f[1] = CopyWithSlash(f[0], p[1]) /\ f[2] = CopyWithSlash(f[1], p[2])
    BY <1>2, <1>3
  <2>3. f[1].out = Append(f[0].out, p[1])
    BY <1>2, <2>2 DEF CopyWithSlash, Separators
  <2>4. f[2].out = Append(f[1].out, Slash)
    <3>1. p[2] = Colon /\ f[2] = CopyWithSlash(f[1], p[2])
      BY <1>2, <2>2
    <3>2. f[2] = CopyWithSlash(f[1], Colon)
      BY <3>1
    <3>3. CopyWithSlash(f[1], Colon) = [out |-> Append(f[1].out, Slash), killed |-> TRUE]
      BY DEF CopyWithSlash, Slash, Colon
    <3> QED BY <3>2, <3>3
  <2>5. /\ f[1].out[1] = Slash /\ f[1].out[2] = p[1] /\ Len(f[1].out) = 2
        /\ f[1].out \in Seq({Slash, p[1]})
    BY <2>1, <2>3, AppendToOne
  <2>6. /\ Len(f[2].out) = 2 + 1 /\ \A i \in 1 .. 2 : f[2].out[i] = f[1].out[i]
        /\ f[2].out[2 + 1] = Slash
    BY <2>4, <2>5, AppendKeeps
  <2>7. 1 \in 1 .. 2 /\ 2 \in 1 .. 2
    OBVIOUS
  <2> QED BY <2>5, <2>6, <2>7
<1>5. 0 \in K
  BY <1>2
<1>6. ASSUME NEW i \in 1 .. n, i - 1 \in K PROVE i \in K
  <2>1. i \in 0 .. n
    OBVIOUS
  <2>2. CASE i > 2
    <3>1. Begins(f[i - 1].out)
      BY <1>6, <2>2
    <3>2. f[i - 1].out \in Seq(T)
      BY <1>3 DEF CopyWithSlashStates
    <3>3. PICK c \in T : f[i].out \in {f[i - 1].out, Append(f[i - 1].out, c)}
      <4>1. f[i] = CopyWithSlash(f[i - 1], p[i]) /\ f[i - 1] \in CopyWithSlashStates(T)
            /\ p[i] \in T
        BY <1>3
      <4> HIDE DEF n
      <4> QED BY <4>1, CopyWithSlashGrows
    <3>4. Begins(f[i].out)
      <4> HIDE DEF n
      <4>1. /\ Len(Append(f[i - 1].out, c)) = Len(f[i - 1].out) + 1
            /\ \A j \in 1 .. Len(f[i - 1].out) : Append(f[i - 1].out, c)[j] = f[i - 1].out[j]
        BY <3>2, AppendKeeps
      <4>2. Len(f[i - 1].out) \in Nat
        BY <3>2
      <4>3. /\ 1 \in 1 .. Len(f[i - 1].out) /\ 2 \in 1 .. Len(f[i - 1].out)
            /\ 3 \in 1 .. Len(f[i - 1].out)
        BY <3>1, <4>2
      <4>4. CASE f[i].out = f[i - 1].out
        BY <3>1, <4>4
      <4>5. CASE f[i].out = Append(f[i - 1].out, c)
        BY <3>1, <4>1, <4>2, <4>3, <4>5
      <4> QED BY <3>3, <4>4, <4>5
    <3> QED BY <2>1, <3>4
  <2>3. CASE i \in {1, 2}
    BY <1>4, <2>1, <2>3
  <2> QED BY <2>1, <2>2, <2>3
<1>7. \A i \in 0 .. n : i \in K
  <2> HIDE DEF K, n
  <2> QED BY <1>2, <1>5, <1>6, StepByStep
<1>8. Begins(f[n].out) /\ f[n].out \in Seq(T)
  <2>1. f[n] \in CopyWithSlashStates(T)
    BY <1>1, <1>2
  <2> QED BY <1>2, <1>7, <2>1 DEF CopyWithSlashStates
<1>9. q = WithoutTrailingSlash(f[n].out)
  BY <1>1 DEF FatFsPathToFTPPath
<1> HIDE DEF n
<1>10. q = f[n].out \/ q = Front(f[n].out)
  BY <1>9 DEF WithoutTrailingSlash
<1>11. CASE q = f[n].out
  BY <1>2, <1>8, <1>11
<1>12. CASE q = Front(f[n].out)
  <2>1. /\ Len(q) = Len(f[n].out) - 1
        /\ \A i \in 1 .. Len(q) : q[i] = f[n].out[i]
    BY <1>8, <1>12 DEF Front
  <2>2. Len(f[n].out) \in Nat
    BY <1>8
  <2>3. Len(f[n].out) > 2
    BY <1>8
  <2>4. 1 \in 1 .. Len(q) /\ 2 \in 1 .. Len(q) /\ (Len(q) > 2 => 3 \in 1 .. Len(q))
    BY <2>1, <2>2, <2>3
  <2>5. Len(q) > 1
    BY <2>1, <2>2, <2>3
  <2> HIDE DEF Begins
  <2>6. f[n].out[1] = Slash /\ f[n].out[2] = p[1] /\ f[n].out[3] = Slash
    BY <1>8 DEF Begins
  <2> QED BY <1>2, <2>1, <2>4, <2>5, <2>6
<1> QED BY <1>10, <1>11, <1>12

(* ... and such a path gets its volume back.                               *)
LEMMA FatFsPathOfVolume ==
  ASSUME NEW T, Separators \subseteq T, NEW q \in Seq(T),
         Len(q) > 1, q[1] = Slash, q[2] \notin Separators, Len(q) > 2 => q[3] = Slash
  PROVE  HasVolume(FTPPathToFatFsPath(q))
<1> DEFINE n == Len(q)
           Begins(s) == Len(s.out) > 1 /\ s.out[1] = q[2] /\ s.out[2] = Colon /\ s.volume
<1>1. PICK f \in [0 .. n -> CopyOnceStates(T)] :
         /\ CopiedSoFarOnce(f, q)
         /\ FoldLeft(CopyOnce, [out |-> <<>>, killed |-> TRUE, volume |-> FALSE], q) = f[n]
  BY CopiedOnce
<1>2. n \in Nat /\ n > 1 /\ 1 \in 1 .. n /\ 2 \in 1 .. n /\ n \in 0 .. n /\ 0 \in 0 .. n
      /\ q[2] # Slash /\ q[2] \notin Separators
  BY DEF Separators
<1>3. \A i \in 1 .. n : /\ f[i - 1] \in CopyOnceStates(T) /\ q[i] \in T
                        /\ f[i] = CopyOnce(f[i - 1], q[i])
  BY <1>1, <1>2 DEF CopiedSoFarOnce
<1>4. f[2] = [out |-> <<q[2]>>, killed |-> FALSE, volume |-> FALSE]
  <2>1. f[0] = [out |-> <<>>, killed |-> TRUE, volume |-> FALSE]
    BY <1>1 DEF CopiedSoFarOnce
  <2>2. f[1] = CopyOnce(f[0], q[1]) /\ f[2] = CopyOnce(f[1], q[2])
    BY <1>2, <1>3
  <2>3. f[1] = f[0]
    BY <2>1, <2>2 DEF CopyOnce
  <2>4. f[2] = [out |-> Append(<<>>, q[2]), killed |-> FALSE, volume |-> FALSE]
    BY <1>2, <2>1, <2>2, <2>3 DEF CopyOnce
  <2> QED BY <2>4
<1> DEFINE whole == WithoutTrailingSlash(f[n].out)
<1>5. FTPPathToFatFsPath(q) = IF f[n].volume THEN whole ELSE Append(whole, Colon)
  BY <1>1 DEF FTPPathToFatFsPath
<1>6. CASE n = 2
  <2>1. f[n].out = <<q[2]>> /\ f[n].volume = FALSE
    BY <1>4, <1>6
  <2>2. whole = <<q[2]>>
    BY <1>2, <2>1 DEF WithoutTrailingSlash, Last
  <2>3. FTPPathToFatFsPath(q) = Append(<<q[2]>>, Colon)
    <3>2. FTPPathToFatFsPath(q) = Append(whole, Colon)
      BY <1>5, <2>1
    <3> HIDE DEF whole
    <3> QED BY <2>2, <3>2
  <2> QED BY <1>2, <2>3, AppendToOne DEF HasVolume
<1>7. CASE n > 2
  <2> DEFINE K == {i \in 0 .. n : i > 2 => Begins(f[i])}
  <2>1. Begins(f[3])
    <3>1. f[3] = CopyOnce(f[2], q[3]) /\ q[3] = Slash
      <4>1. 3 \in 1 .. n /\ 3 - 1 = 2
        BY <1>2, <1>7
      <4> QED BY <1>3, <1>7, <4>1
    <3>2. f[3] = [out |-> Append(<<q[2]>>, Colon), killed |-> TRUE, volume |-> TRUE]
      BY <1>4, <3>1 DEF CopyOnce
    <3> QED BY <3>2
  <2>2. 0 \in K
    BY <1>2
  <2>3. ASSUME NEW i \in 1 .. n, i - 1 \in K PROVE i \in K
    <3>1. i \in 0 .. n
      OBVIOUS
    <3>2. CASE i > 3
      <4>1. Begins(f[i - 1])
        BY <2>3, <3>2
      <4>2. f[i - 1] \in CopyOnceStates(T) /\ f[i] = CopyOnce(f[i - 1], q[i])
        BY <1>3
      <4>3. f[i - 1].out \in Seq(T)
        BY <4>2 DEF CopyOnceStates
      <4>4. PICK c \in T : f[i].out \in {f[i - 1].out, Append(f[i - 1].out, c)}
        <5>1. q[i] \in T
          BY <1>3
        <5> HIDE DEF n
        <5> QED BY <4>2, <5>1, CopyOnceGrows
      <4>5. f[i].volume
        BY <4>1, <4>2 DEF CopyOnce, CopyOnceStates
      <4>6. Begins(f[i])
        <5> HIDE DEF n
        <5>1. /\ Len(Append(f[i - 1].out, c)) = Len(f[i - 1].out) + 1
              /\ \A j \in 1 .. Len(f[i - 1].out) : Append(f[i - 1].out, c)[j] = f[i - 1].out[j]
          BY <4>3, AppendKeeps
        <5>2. Len(f[i - 1].out) \in Nat
          BY <4>3
        <5>3. /\ 1 \in 1 .. Len(f[i - 1].out) /\ 2 \in 1 .. Len(f[i - 1].out)
          BY <4>1, <5>2
        <5>4. CASE f[i].out = f[i - 1].out
          BY <4>1, <4>5, <5>4
        <5>5. CASE f[i].out = Append(f[i - 1].out, c)
          BY <4>1, <4>5, <5>1, <5>2, <5>3, <5>5
        <5> QED BY <4>4, <5>4, <5>5
      <4> QED BY <3>1, <4>6
    <3>3. CASE i \in {1, 2, 3}
      BY <2>1, <3>1, <3>3
    <3> QED BY <3>1, <3>2, <3>3
  <2>4. \A i \in 0 .. n : i \in K
    <3> HIDE DEF K, n
    <3> QED BY <1>2, <2>2, <2>3, StepByStep
  <2>5. Begins(f[n]) /\ f[n].out \in Seq(T)
    <3>1. f[n] \in CopyOnceStates(T)
      BY <1>1, <1>2
    <3> QED BY <1>2, <1>7, <2>4, <3>1 DEF CopyOnceStates
  <2>6. FTPPathToFatFsPath(q) = whole
    BY <1>5, <2>5
  <2>7. whole = f[n].out \/ (whole = Front(f[n].out) /\ Last(f[n].out) = Slash)
    BY DEF WithoutTrailingSlash
  <2> HIDE DEF n
  <2>8. Len(whole) > 1 /\ whole[1] = q[2] /\ whole[2] = Colon
    <3>1. CASE whole = f[n].out
      BY <2>5, <3>1
    <3>2. CASE whole = Front(f[n].out) /\ Last(f[n].out) = Slash
      <4>1. Len(f[n].out) # 2
        BY <2>5, <3>2 DEF Last, Slash, Colon
      <4>2. /\ Len(whole) = Len(f[n].out) - 1
            /\ \A i \in 1 .. Len(whole) : whole[i] = f[n].out[i]
        BY <2>5, <3>2 DEF Front
      <4>3. Len(f[n].out) \in Nat
        BY <2>5
      <4> HIDE DEF whole
      <4>4. Len(f[n].out) > 2
        <5>1. Len(f[n].out) > 1
          BY <2>5
        <5> HIDE DEF Begins
        <5> DEFINE l == Len(f[n].out)
        <5>2. l \in Nat /\ l # 2 /\ l > 1
          BY <4>1, <4>3, <5>1
        <5>3. l > 2
          <6> HIDE DEF l
          <6> QED BY <5>2
        <5> QED BY <5>3
      <4>5. 1 \in 1 .. Len(whole) /\ 2 \in 1 .. Len(whole) /\ Len(whole) > 1
        BY <4>2, <4>3, <4>4
      <4>6. whole[1] = f[n].out[1] /\ whole[2] = f[n].out[2]
        BY <4>2, <4>5
      <4> QED BY <2>5, <4>5, <4>6
    <3> QED BY <2>7, <3>1, <3>2
  <2> QED BY <1>2, <2>6, <2>8 DEF HasVolume
<1> QED BY <1>2, <1>6, <1>7

(* There and back again.                                                   *)
LEMMA VolumeLeadsBack ==
  ASSUME NEW T, Separators \subseteq T, NEW p \in Seq(T), HasVolume(p)
  PROVE  /\ HasVolume(FTPPathToFatFsPath(FatFsPathToFTPPath(p)))
         /\ Names(FTPPathToFatFsPath(FatFsPathToFTPPath(p))) = Names(p)
<1> DEFINE q == FatFsPathToFTPPath(p)
<1>1. q \in Seq(T) /\ Names(q) = Names(p)
  BY ToFTPKeepsNames
<1>2. /\ Len(q) > 1 /\ q[1] = Slash /\ q[2] \notin Separators
      /\ Len(q) > 2 => q[3] = Slash
  BY FTPPathOfVolume
<1> HIDE DEF q
<1>3. HasVolume(FTPPathToFatFsPath(q))
  BY <1>1, <1>2, FatFsPathOfVolume
<1>4. Names(FTPPathToFatFsPath(q)) = Names(q)
  BY <1>1, ToFatFsKeepsNames
<1> QED BY <1>1, <1>3, <1>4 DEF q

-----------------------------------------------------------------------------
(* A path that CWD is given: names apart, no slash at the end.             *)

SlashesApart(p) == \A i \in 1 .. Len(p) - 1 : p[i] # Slash \/ p[i + 1] # Slash
EndsIn(p, t) == p # <<>> /\ p[Len(p)] = t

(* A token that may follow keeps names apart, and slashes.                 *)
LEMMA AppendApart ==
  ASSUME NEW T, NEW p \in Seq(T), NEW c
  PROVE  /\ NamesApart(p) /\ (c \in Separators \/ p = <<>> \/ p[Len(p)] \in Separators)
              => NamesApart(Append(p, c))
         /\ SlashesApart(p) /\ (c # Slash \/ p = <<>> \/ p[Len(p)] # Slash)
              => SlashesApart(Append(p, c))
         /\ Append(p, c) # <<>> /\ Append(p, c)[Len(Append(p, c))] = c
<1>1. /\ Len(Append(p, c)) = Len(p) + 1 /\ Len(p) \in Nat
      /\ \A i \in 1 .. Len(p) : Append(p, c)[i] = p[i]
      /\ Append(p, c)[Len(p) + 1] = c
  BY AppendKeeps
<1> DEFINE q == Append(p, c)
           n == Len(p)
<1>2. n \in Nat /\ Len(q) = n + 1 /\ (\A i \in 1 .. n : q[i] = p[i]) /\ q[n + 1] = c
      /\ (p = <<>> => n = 0)
  BY <1>1
<1>3. Append(p, c) # <<>>
  BY <1>1
<1> HIDE DEF q
<1>4. ASSUME NamesApart(p), c \in Separators \/ p = <<>> \/ p[Len(p)] \in Separators
      PROVE  NamesApart(q)
  <2>1. \A i \in 1 .. n - 1 : p[i] \in Separators \/ p[i + 1] \in Separators
    BY <1>4 DEF NamesApart
  <2>2. c \in Separators \/ n = 0 \/ p[n] \in Separators
    BY <1>2, <1>4
  <2> HIDE DEF n
  <2> SUFFICES ASSUME NEW i \in 1 .. n PROVE q[i] \in Separators \/ q[i + 1] \in Separators
    BY <1>2 DEF NamesApart
  <2>3. CASE i = n
    BY <1>2, <2>2, <2>3
  <2>4. CASE i # n
    <3>1. i \in 1 .. n - 1 /\ i + 1 \in 1 .. n
      BY <1>2, <2>4
    <3> QED BY <1>2, <2>1, <3>1
  <2> QED BY <2>3, <2>4
<1>5. ASSUME SlashesApart(p), c # Slash \/ p = <<>> \/ p[Len(p)] # Slash
      PROVE  SlashesApart(q)
  <2>1. \A i \in 1 .. n - 1 : p[i] # Slash \/ p[i + 1] # Slash
    BY <1>5 DEF SlashesApart
  <2>2. c # Slash \/ n = 0 \/ p[n] # Slash
    BY <1>2, <1>5
  <2> HIDE DEF n
  <2> SUFFICES ASSUME NEW i \in 1 .. n PROVE q[i] # Slash \/ q[i + 1] # Slash
    BY <1>2 DEF SlashesApart
  <2>3. CASE i = n
    BY <1>2, <2>2, <2>3
  <2>4. CASE i # n
    <3>1. i \in 1 .. n - 1 /\ i + 1 \in 1 .. n
      BY <1>2, <2>4
    <3> QED BY <1>2, <2>1, <3>1
  <2> QED BY <2>3, <2>4
<1> QED BY <1>1, <1>3, <1>4, <1>5 DEF q

CopiedWell(s, start) ==
  /\ NamesApart(s.out) /\ SlashesApart(s.out)
  /\ s.killed => s.out = <<>> \/ s.out[Len(s.out)] \in Separators
  /\ ~ s.killed => s.out = <<>> \/ s.out[Len(s.out)] # Slash
  /\ start => s.out = <<>> \/ s.out[Len(s.out)] \in Separators

(* Copying keeps names apart, and never puts two slashes together.         *)
LEMMA CopyOnceWell ==
  ASSUME NEW T, Separators \subseteq T, NEW s \in CopyOnceStates(T), NEW t \in T,
         NEW start \in BOOLEAN, CopiedWell(s, start), start \/ t \in Separators
  PROVE  CopiedWell(CopyOnce(s, t), t \in Separators)
<1>1. s.out \in Seq(T) /\ s.killed \in BOOLEAN /\ s.volume \in BOOLEAN
  BY DEF CopyOnceStates
<1>2. CASE t = Slash /\ s.killed
  <2>1. CopyOnce(s, t) = s
    BY <1>2 DEF CopyOnce
  <2> QED BY <1>2, <2>1 DEF CopiedWell
<1>3. CASE t = Slash /\ ~ s.killed
  <2> DEFINE c == IF s.volume THEN Slash ELSE Colon
             o == Append(s.out, c)
  <2>1. CopyOnce(s, t).out = o /\ CopyOnce(s, t).killed = TRUE
    BY <1>3 DEF CopyOnce
  <2>2. c \in Separators
    BY DEF Separators
  <2> HIDE DEF c
  <2>3. s.out = <<>> \/ s.out[Len(s.out)] # Slash
    BY <1>3 DEF CopiedWell
  <2>4. NamesApart(o) /\ SlashesApart(o) /\ o # <<>> /\ o[Len(o)] = c
    BY <1>1, <2>2, <2>3, AppendApart DEF CopiedWell
  <2> HIDE DEF o
  <2> QED BY <2>1, <2>2, <2>4 DEF CopiedWell
<1>4. CASE t # Slash
  <2> DEFINE o == Append(s.out, t)
  <2>1. CopyOnce(s, t).out = o /\ CopyOnce(s, t).killed = FALSE
    BY <1>4 DEF CopyOnce, CopyOnceStates
  <2>2. t \in Separators \/ s.out = <<>> \/ s.out[Len(s.out)] \in Separators
    BY DEF CopiedWell
  <2>3. NamesApart(o) /\ SlashesApart(o) /\ o # <<>> /\ o[Len(o)] = t
    BY <1>1, <1>4, <2>2, AppendApart DEF CopiedWell
  <2> HIDE DEF o
  <2> QED BY <1>4, <2>1, <2>3 DEF CopiedWell
<1> QED BY <1>2, <1>3, <1>4

(* A beginning of a path keeps its names apart.                            *)
LEMMA FrontApart ==
  ASSUME NEW T, NEW p \in Seq(T), NamesApart(p), NEW k \in 0 .. Len(p)
  PROVE  SubSeq(p, 1, k) \in Seq(T) /\ Len(SubSeq(p, 1, k)) = k
         /\ (\A i \in 1 .. k : SubSeq(p, 1, k)[i] = p[i]) /\ NamesApart(SubSeq(p, 1, k))
<1> DEFINE q == SubSeq(p, 1, k)
<1>1. q \in Seq(T) /\ Len(q) = k /\ \A i \in 1 .. k : q[i] = p[i]
  OBVIOUS
<1>2. k \in Nat /\ Len(p) \in Nat /\ k <= Len(p)
  OBVIOUS
<1> HIDE DEF q
<1>3. NamesApart(q)
  <2> SUFFICES ASSUME NEW i \in 1 .. k - 1 PROVE q[i] \in Separators \/ q[i + 1] \in Separators
    BY <1>1 DEF NamesApart
  <2>1. i \in 1 .. k /\ i + 1 \in 1 .. k /\ i \in 1 .. Len(p) - 1
    BY <1>2
  <2> QED BY <1>1, <2>1 DEF NamesApart
<1> QED BY <1>1, <1>3 DEF q

(* So a copied path has its names apart, and no slash at its end.          *)
LEMMA ToFatFsApart ==
  ASSUME NEW T, Separators \subseteq T, NEW p \in Seq(T), NamesApart(p),
         NEW r, r = FTPPathToFatFsPath(p)
  PROVE  NamesApart(r) /\ (r = <<>> \/ r[Len(r)] # Slash)
<1> DEFINE n == Len(p)
           Start(i) == i = 0 \/ p[i] \in Separators
<1>1. PICK f \in [0 .. n -> CopyOnceStates(T)] :
         /\ CopiedSoFarOnce(f, p)
         /\ FoldLeft(CopyOnce, [out |-> <<>>, killed |-> TRUE, volume |-> FALSE], p) = f[n]
  BY CopiedOnce
<1> DEFINE K == {i \in 0 .. n : CopiedWell(f[i], Start(i))}
<1>2. n \in Nat /\ n \in 0 .. n /\ 0 \in 0 .. n
  OBVIOUS
<1>3. 0 \in K
  <2>1. f[0] = [out |-> <<>>, killed |-> TRUE, volume |-> FALSE]
    BY <1>1 DEF CopiedSoFarOnce
  <2> QED BY <1>2, <2>1 DEF CopiedWell, NamesApart, SlashesApart
<1>4. ASSUME NEW i \in 1 .. n, i - 1 \in K PROVE i \in K
  <2>1. i \in 0 .. n /\ i - 1 \in 0 .. n /\ p[i] \in T /\ i # 0
    BY <1>2
  <2>2. f[i - 1] \in CopyOnceStates(T) /\ f[i] = CopyOnce(f[i - 1], p[i])
    BY <1>1, <2>1 DEF CopiedSoFarOnce
  <2>3. Start(i - 1) \/ p[i] \in Separators
    <3>1. CASE i = 1
      BY <3>1
    <3>2. CASE i > 1
      <4>1. i - 1 \in 1 .. Len(p) - 1 /\ (i - 1) + 1 = i
        BY <3>2
      <4> QED BY <4>1 DEF NamesApart
    <3> QED BY <3>1, <3>2
  <2>4. CopiedWell(f[i - 1], Start(i - 1)) /\ Start(i - 1) \in BOOLEAN
    BY <1>4
  <2>5. CopiedWell(f[i], p[i] \in Separators)
    <3> HIDE DEF Start, n, K
    <3> QED BY <2>1, <2>2, <2>3, <2>4, CopyOnceWell
  <2>6. Start(i) = (p[i] \in Separators)
    BY <2>1
  <2> QED BY <2>1, <2>5, <2>6
<1>5. \A i \in 0 .. n : i \in K
  <2> HIDE DEF K, n
  <2> QED BY <1>2, <1>3, <1>4, StepByStep
<1> DEFINE o == f[n].out
           whole == WithoutTrailingSlash(o)
<1>6. o \in Seq(T) /\ NamesApart(o) /\ SlashesApart(o)
  <2>1. f[n] \in CopyOnceStates(T) /\ CopiedWell(f[n], Start(n))
    BY <1>1, <1>2, <1>5
  <2> QED BY <2>1 DEF CopyOnceStates, CopiedWell
<1>7. r = IF f[n].volume THEN whole ELSE Append(whole, Colon)
  BY <1>1 DEF FTPPathToFatFsPath
<1>8. whole \in Seq(T) /\ NamesApart(whole) /\ (whole = <<>> \/ whole[Len(whole)] # Slash)
  <2> HIDE DEF o, n
  <2>1. CASE o = <<>> \/ Last(o) # Slash
    <3>1. whole = o
      BY <2>1 DEF WithoutTrailingSlash
    <3> QED BY <1>6, <2>1, <3>1 DEF Last
  <2>2. CASE o # <<>> /\ Last(o) = Slash
    <3> DEFINE k == Len(o) - 1
    <3>1. k \in 0 .. Len(o) /\ Len(o) \in Nat /\ whole = SubSeq(o, 1, k) /\ o[k + 1] = Slash
      BY <1>6, <2>2 DEF WithoutTrailingSlash, Front, Last
    <3> HIDE DEF whole, k
    <3>2. whole \in Seq(T) /\ Len(whole) = k /\ (\A i \in 1 .. k : whole[i] = o[i]) /\ NamesApart(whole)
      <4>1. /\ SubSeq(o, 1, k) \in Seq(T) /\ Len(SubSeq(o, 1, k)) = k
            /\ (\A i \in 1 .. k : SubSeq(o, 1, k)[i] = o[i]) /\ NamesApart(SubSeq(o, 1, k))
        BY <1>6, <3>1, FrontApart
      <4> QED BY <3>1, <4>1
    <3>3. CASE k = 0
      BY <3>2, <3>3
    <3>4. CASE k # 0
      <4>1. k \in 1 .. Len(o) - 1 /\ k \in 1 .. k
        <5>1. k = Len(o) - 1
          BY DEF k
        <5> QED BY <3>1, <3>4, <5>1
      <4>2. o[k] # Slash
        BY <1>6, <3>1, <4>1 DEF SlashesApart
      <4> QED BY <3>2, <4>1, <4>2
    <3> QED BY <3>3, <3>4
  <2> QED BY <2>1, <2>2
<1> HIDE DEF whole
<1>9. NamesApart(Append(whole, Colon)) /\ Append(whole, Colon)[Len(Append(whole, Colon))] = Colon
  <2>1. Colon \in Separators
    BY DEF Separators
  <2> QED BY <1>8, <2>1, AppendApart
<1>10. Colon # Slash
  BY DEF Colon, Slash
<1> QED BY <1>7, <1>8, <1>9, <1>10

-----------------------------------------------------------------------------
(* CDUP: the way up.                                                       *)

(* Where going left over slashes ends.                                     *)
LEMMA SkippedSlashes ==
  ASSUME NEW T, NEW p \in Seq(T), NEW i \in 1 .. Len(p), NEW e, e = SkipSlashes(p, i)
  PROVE  /\ e \in 1 .. i /\ (e = 1 \/ p[e] # Slash)
         /\ \A j \in 1 .. i : p[j] # Slash => j <= e
<1> DEFINE s == {1} \cup {j \in 1 .. i : p[j] # Slash}
<1>1. s \in SUBSET (1 .. i) /\ s # {} /\ i \in Nat
  OBVIOUS
<1>2. e = Max(s)
  BY DEF SkipSlashes
<1> HIDE DEF s
<1>3. e \in s /\ \A j \in s : j <= e
  BY <1>1, <1>2, GreatestOf
<1> QED BY <1>1, <1>3 DEF s

(* Where going left over a name ends.                                      *)
LEMMA SkippedName ==
  ASSUME NEW T, NEW p \in Seq(T), NEW i \in 1 .. Len(p), NEW e, e = SkipName(p, i)
  PROVE  /\ e \in 1 .. i /\ (e = 1 \/ p[e] \in Separators)
         /\ \A j \in 1 .. i : p[j] \in Separators => j <= e
<1> DEFINE s == {1} \cup {j \in 1 .. i : p[j] \in Separators}
<1>1. s \in SUBSET (1 .. i) /\ s # {} /\ i \in Nat
  OBVIOUS
<1>2. e = Max(s)
  BY DEF SkipName
<1> HIDE DEF s
<1>3. e \in s /\ \A j \in s : j <= e
  BY <1>1, <1>2, GreatestOf
<1> QED BY <1>1, <1>3 DEF s

\* Anything behind the volume's colon has a name in it; and the path is one
\* that FatFs understands, with names that do not touch, or the root.
EndsOrNames(p) == Len(p) > 2 => \E i \in 3 .. Len(p) : p[i] # Slash
PathOK(p) ==
  p = Root \/ (p \in Seq(Tokens) /\ Understood(p) /\ NamesApart(p) /\ EndsOrNames(p))

(* A volume is one name.                                                   *)
LEMMA NamesOfVolume ==
  ASSUME NEW T, NEW p \in Seq(T), HasVolume(p)
  PROVE  Names(SubSeq(p, 1, 2)) = <<p[1]>> /\ Names(SubSeq(p, 1, 0)) = <<>>
<1>1. 1 \in 1 .. Len(p) /\ 2 \in 1 .. Len(p) /\ p[1] \notin Separators /\ p[2] \in Separators
      /\ SubSeq(p, 1, 0) = <<>> /\ 1 - 1 = 0 /\ 2 - 1 = 1
  BY DEF HasVolume, Separators
<1>2. Names(SubSeq(p, 1, 1)) = CollectName(Names(SubSeq(p, 1, 1 - 1)), p[1])
  BY <1>1, NamesOneMore
<1>3. Names(SubSeq(p, 1, 2)) = CollectName(Names(SubSeq(p, 1, 2 - 1)), p[2])
  BY <1>1, NamesOneMore
<1>4. Names(SubSeq(p, 1, 0)) = <<>>
  BY <1>1, NamesOfNothing
<1>5. Names(SubSeq(p, 1, 1)) = <<p[1]>>
  <2>1. Names(SubSeq(p, 1, 1)) = Append(<<>>, p[1])
    BY <1>1, <1>2, <1>4 DEF CollectName
  <2>2. \A a : Append(<<>>, a) = <<a>>
    OBVIOUS
  <2> QED BY <2>1, <2>2
<1> QED BY <1>1, <1>3, <1>4, <1>5 DEF CollectName

(* The way up from a path: one name less.                                  *)
LEMMA ParentGoesUp ==
  ASSUME NEW T, NEW p \in Seq(T), Understood(p), NamesApart(p), EndsOrNames(p),
         NEW q, q = FatFsParentPath(p)
  PROVE  /\ Names(q) = Front(Names(p))
         /\ q = Root \/ (q \in Seq(T) /\ NamesApart(q) /\ EndsOrNames(q))
<1> DEFINE n == Len(p)
           e1 == SkipSlashes(p, n)
           e2 == SkipName(p, e1)
           e3 == SkipSlashes(p, e2)
<1>1. /\ n \in Nat /\ n > 1 /\ p[1] \notin Separators /\ p[2] = Colon /\ HasVolume(p)
      /\ Colon # Slash /\ Slash \in Separators /\ Colon \in Separators
      /\ p[2] # Slash /\ p[2] \in Separators
      /\ \A i \in 3 .. n : p[i] # Colon
      /\ n > 2 => \E i \in 3 .. n : p[i] # Slash
      /\ n \in 1 .. n
  BY DEF Understood, HasVolume, EndsOrNames, Separators, Slash, Colon
<1>2. q = IF e3 \in {1, n} THEN Root ELSE SubSeq(p, 1, e3)
  BY DEF FatFsParentPath
<1>3. e1 \in 1 .. n /\ (e1 = 1 \/ p[e1] # Slash) /\ \A j \in 1 .. n : p[j] # Slash => j <= e1
  <2> HIDE DEF n
  <2>1. n \in 1 .. Len(p)
    BY <1>1 DEF n
  <2> QED BY <1>1, <2>1, SkippedSlashes
<1> HIDE DEF e1
<1>4. e2 \in 1 .. e1 /\ (e2 = 1 \/ p[e2] \in Separators)
      /\ \A j \in 1 .. e1 : p[j] \in Separators => j <= e2
  <2>1. e1 \in 1 .. Len(p)
    BY <1>3 DEF n
  <2> QED BY <2>1, SkippedName
<1> HIDE DEF e2
<1>5. e3 \in 1 .. e2 /\ (e3 = 1 \/ p[e3] # Slash)
      /\ \A j \in 1 .. e2 : p[j] # Slash => j <= e3
  <2>1. e2 \in 1 .. Len(p)
    BY <1>3, <1>4 DEF n
  <2> QED BY <2>1, SkippedSlashes
<1> HIDE DEF e3
<1>6. e1 >= 2 /\ e2 >= 2 /\ e3 >= 2
  <2>1. e1 >= 2
    <3>1. 2 \in 1 .. n
      BY <1>1
    <3> QED BY <1>1, <1>3, <3>1
  <2>2. e2 >= 2
    <3>1. 2 \in 1 .. e1
      BY <1>1, <1>3, <2>1
    <3> QED BY <1>1, <1>4, <3>1
  <2>3. e3 >= 2
    <3>1. 2 \in 1 .. e2
      BY <1>1, <1>3, <1>4, <2>2
    <3> QED BY <1>1, <1>5, <3>1
  <2> QED BY <2>1, <2>2, <2>3
<1>7. Names(SubSeq(p, 1, 2)) = <<p[1]>>
  BY <1>1, NamesOfVolume
<1>8. SubSeq(p, 1, n) = p
  OBVIOUS
<1>9. CASE n = 2
  <2>1. e3 = n
    BY <1>3, <1>4, <1>5, <1>6, <1>9
  <2>2. q = Root /\ Names(p) = <<p[1]>>
    BY <1>2, <1>7, <1>8, <1>9, <2>1
  <2>3. Names(Root) = <<>>
    BY NamesOfNothing DEF Root
  <2>4. \A a : Front(<<a>>) = <<>>
    BY DEF Front
  <2> QED BY <2>2, <2>3, <2>4
<1>10. CASE n > 2
  <2>1. e1 \in 3 .. n /\ p[e1] # Slash /\ p[e1] \notin Separators
    <3>1. PICK i \in 3 .. n : p[i] # Slash
      BY <1>1, <1>10
    <3>2. i \in 1 .. n /\ i > 2
      BY <3>1
    <3>3. e1 \in 3 .. n
      BY <1>1, <1>3, <3>1, <3>2
    <3> QED BY <1>1, <1>3, <3>3 DEF Separators
  <2>2. e2 = e1 - 1
    <3>1. e1 - 1 \in 1 .. n - 1 /\ (e1 - 1) + 1 = e1 /\ e1 - 1 \in 1 .. e1
      BY <1>1, <2>1
    <3>2. p[e1 - 1] \in Separators
      BY <2>1, <3>1 DEF NamesApart, n
    <3>3. e1 - 1 <= e2
      BY <1>4, <3>1, <3>2
    <3>4. e2 # e1
      BY <1>4, <1>6, <2>1
    <3> QED BY <1>3, <1>4, <3>3, <3>4
  <2>3. e3 \in 2 .. n - 1 /\ p[e3] # Slash /\ e3 \in 0 .. n
    BY <1>1, <1>3, <1>4, <1>5, <1>6, <2>1, <2>2
  <2>4. q = SubSeq(p, 1, e3)
    BY <1>1, <1>2, <2>3
  <2>5. Names(SubSeq(p, 1, e1)) = Names(p)
    <3>1. \A i \in e1 + 1 .. n : p[i] \in Separators
      <4> SUFFICES ASSUME NEW i \in e1 + 1 .. n PROVE p[i] \in Separators
        OBVIOUS
      <4>1. i \in 1 .. n /\ ~ (i <= e1)
        BY <1>1, <2>1
      <4> QED BY <1>1, <1>3, <4>1
    <3>2. e1 \in 0 .. Len(p) /\ n \in e1 .. Len(p)
      BY <1>1, <2>1 DEF n
    <3>3. Names(SubSeq(p, 1, n)) = Names(SubSeq(p, 1, e1))
      <4> HIDE DEF n
      <4> QED BY <3>1, <3>2, NamesOverSeparators
    <3> QED BY <1>8, <3>3
  <2>6. Names(SubSeq(p, 1, e2)) = Names(SubSeq(p, 1, e3))
    <3>1. \A i \in e3 + 1 .. e2 : p[i] \in Separators
      <4> SUFFICES ASSUME NEW i \in e3 + 1 .. e2 PROVE p[i] \in Separators
        OBVIOUS
      <4>1. i \in 1 .. e2 /\ ~ (i <= e3)
        BY <1>4, <2>2, <2>1, <2>3
      <4> QED BY <1>1, <1>5, <4>1
    <3>2. e3 \in 0 .. Len(p) /\ e2 \in e3 .. Len(p)
      BY <1>1, <1>5, <2>1, <2>2, <2>3 DEF n
    <3> QED BY <3>1, <3>2, NamesOverSeparators
  <2>7. Names(SubSeq(p, 1, e1)) = Append(Names(SubSeq(p, 1, e2)), p[e1])
    <3>1. e1 \in 1 .. Len(p)
      BY <1>1, <2>1 DEF n
    <3>2. Names(SubSeq(p, 1, e1)) = CollectName(Names(SubSeq(p, 1, e1 - 1)), p[e1])
      BY <3>1, NamesOneMore
    <3> QED BY <2>1, <2>2, <3>2 DEF CollectName
  <2>8. q \in Seq(T) /\ Len(q) = e3 /\ (\A i \in 1 .. e3 : q[i] = p[i]) /\ NamesApart(q)
    <3>1. e3 \in 0 .. Len(p)
      BY <2>3 DEF n
    <3> QED BY <2>4, <3>1, FrontApart
  <2>9. EndsOrNames(q)
    <3> SUFFICES ASSUME e3 > 2 PROVE q[e3] # Slash /\ e3 \in 3 .. e3
      BY <2>8 DEF EndsOrNames
    <3> QED BY <2>3, <2>8
  <2>10. Names(q) \in Seq(T)
    BY <2>8, NamesType
  <2>11. Names(p) = Append(Names(q), p[e1])
    BY <2>4, <2>5, <2>6, <2>7
  <2>12. \A s \in Seq(T), c \in T : Front(Append(s, c)) = s
    BY DEF Front
  <2>13. p[e1] \in T
    BY <2>1 DEF n
  <2> QED BY <2>8, <2>9, <2>10, <2>11, <2>12, <2>13
<1> QED BY <1>1, <1>9, <1>10

-----------------------------------------------------------------------------
(* The current path.                                                       *)

PathInv == PathOK(path)

(* What the assumption on the card and the arguments gives.                *)
LEMMA TokensOfPaths ==
  /\ Separators \subseteq Tokens /\ Slash \in Tokens /\ Colon \in Tokens
  /\ \A arg \in Args : arg \in Seq(Tokens) /\ NamesApart(arg)
  /\ \A d \in Directories : d[1] \in Tokens \ Separators
<1>1. Separators \subseteq Tokens /\ Slash \in Tokens /\ Colon \in Tokens
  BY DEF Tokens, Separators
<1>2. ASSUME NEW d \in Directories PROVE d[1] \in Tokens \ Separators
  <2> DEFINE S == Tokens \ Separators
  <2>1. d # <<>> /\ d \in Seq(S)
    BY PathAssumption
  <2> HIDE DEF S
  <2>2. 1 \in 1 .. Len(d)
    BY <2>1
  <2>3. d[1] \in S
    BY <2>1, <2>2
  <2> QED BY <2>3 DEF S
<1> QED BY <1>1, <1>2, PathAssumption

(* CWD with a path from the root.                                          *)
LEMMA AbsoluteOK ==
  ASSUME NEW arg \in Args, NEW p \in Absolute(arg)
  PROVE  PathOK(p)
<1>1. CASE arg = <<Slash>>
  BY <1>1 DEF Absolute, PathOK
<1>2. CASE arg # <<Slash>> /\ p # Root
  <2>1. p = FTPPathToFatFsPath(arg) /\ Understood(p)
    BY <1>2 DEF Absolute, CanOpenDir
  <2>2. arg \in Seq(Tokens) /\ NamesApart(arg) /\ Separators \subseteq Tokens
    BY TokensOfPaths
  <2>3. p \in Seq(Tokens)
    BY <2>1, <2>2, ToFatFsKeepsNames
  <2>4. NamesApart(p) /\ (p = <<>> \/ p[Len(p)] # Slash)
    BY <2>1, <2>2, ToFatFsApart
  <2>5. EndsOrNames(p)
    <3> SUFFICES ASSUME Len(p) > 2 PROVE Len(p) \in 3 .. Len(p) /\ p[Len(p)] # Slash
      BY DEF EndsOrNames
    <3> QED BY <2>3, <2>4
  <2> QED BY <2>1, <2>3, <2>4, <2>5 DEF PathOK
<1> QED BY <1>1, <1>2 DEF PathOK

(* Two paths joined by a slash.                                            *)
LEMMA JoinedApart ==
  ASSUME NEW T, Slash \in T, NEW p \in Seq(T), NEW a \in Seq(T), NamesApart(p), NamesApart(a)
  PROVE  p \o <<Slash>> \o a \in Seq(T) /\ NamesApart(p \o <<Slash>> \o a)
<1> DEFINE q == p \o <<Slash>>
           r == q \o a
           m == Len(q)
<1>1. q = Append(p, Slash) /\ q \in Seq(T)
  OBVIOUS
<1>2. Slash \in Separators
  BY DEF Separators
<1>3. NamesApart(Append(p, Slash)) /\ Append(p, Slash) # <<>>
      /\ Append(p, Slash)[Len(Append(p, Slash))] = Slash
  BY <1>2, AppendApart
<1>4. NamesApart(q) /\ q[m] = Slash /\ m \in Nat /\ Len(a) \in Nat
  <2>1. NamesApart(q) /\ q[Len(q)] = Slash
    BY <1>1, <1>3, Zenon
  <2>2. Len(q) \in Nat /\ Len(a) \in Nat
    BY <1>1
  <2> QED BY <2>1, <2>2
<1> HIDE DEF q
<1>5. /\ r \in Seq(T) /\ Len(r) = m + Len(a)
      /\ \A i \in 1 .. m : r[i] = q[i]
      /\ \A i \in 1 .. Len(a) : r[m + i] = a[i]
  BY <1>1
<1> HIDE DEF r, m
<1>6. ASSUME NEW i \in 1 .. Len(r) - 1 PROVE r[i] \in Separators \/ r[i + 1] \in Separators
  <2>1. CASE i < m
    <3>1. i \in 1 .. m /\ i + 1 \in 1 .. m /\ i \in 1 .. m - 1
      BY <1>4, <2>1
    <3> QED BY <1>4, <1>5, <3>1 DEF NamesApart, m
  <2>2. CASE i = m
    <3>1. i \in 1 .. m
      BY <1>4, <2>2
    <3> QED BY <1>2, <1>4, <1>5, <2>2, <3>1
  <2>3. CASE i > m
    <3> DEFINE j == i - m
    <3>1. j \in 1 .. Len(a) - 1 /\ j \in 1 .. Len(a) /\ j + 1 \in 1 .. Len(a)
          /\ i = m + j /\ i + 1 = m + (j + 1)
      BY <1>4, <1>5, <2>3
    <3> HIDE DEF j
    <3>2. a[j] \in Separators \/ a[j + 1] \in Separators
      BY <3>1 DEF NamesApart
    <3> QED BY <1>5, <3>1, <3>2
  <2> QED BY <1>4, <2>1, <2>2, <2>3
<1>7. NamesApart(r)
  BY <1>6 DEF NamesApart
<1> QED BY <1>5, <1>7 DEF q, r

(* A path that f_stat takes has a name after its volume.                   *)
LEMMA NamedPathOK ==
  ASSUME NEW p \in Seq(Tokens), NamesApart(p), CanStat(p)
  PROVE  PathOK(p)
<1>1. Understood(p) /\ HasVolume(p) /\ Len(Names(p)) > 1
  BY DEF CanStat, Understood
<1>2. EndsOrNames(p)
  <2> SUFFICES ASSUME Len(p) > 2, \A i \in 3 .. Len(p) : p[i] = Slash PROVE FALSE
    BY DEF EndsOrNames
  <2>1. \A i \in 2 + 1 .. Len(p) : p[i] \in Separators
    BY DEF Separators
  <2>2. 2 \in 0 .. Len(p) /\ Len(p) \in 2 .. Len(p)
    OBVIOUS
  <2>3. Names(SubSeq(p, 1, Len(p))) = Names(SubSeq(p, 1, 2))
    BY <2>1, <2>2, NamesOverSeparators
  <2>4. Names(SubSeq(p, 1, 2)) = <<p[1]>>
    BY <1>1, NamesOfVolume
  <2>5. SubSeq(p, 1, Len(p)) = p
    OBVIOUS
  <2>6. Len(Names(p)) = 1
    <3>1. Names(p) = <<p[1]>>
      BY <2>3, <2>4, <2>5, Zenon
    <3>2. \A a : Len(<<a>>) = 1
      OBVIOUS
    <3> QED BY <3>1, <3>2, Zenon
  <2> QED BY <1>1, <2>6
<1> QED BY <1>1, <1>2 DEF PathOK

(* CWD with a path from here.                                              *)
LEMMA RelativeOK ==
  ASSUME PathInv, NEW arg \in Args, NEW p \in Relative(arg)
  PROVE  PathOK(p)
<1>1. CASE path = Root
  <2>1. PICK d \in Directories : p = <<d[1], Colon>>
    BY <1>1 DEF Relative
  <2> DEFINE v == d[1]
  <2>2. v \in Tokens /\ v \notin Separators /\ Colon \in Tokens /\ Colon \in Separators
    BY TokensOfPaths DEF Separators
  <2> HIDE DEF v
  <2>3. p = <<v, Colon>>
    BY <2>1 DEF v
  <2>4. p \in Seq(Tokens) /\ Len(p) = 2 /\ p[1] = v /\ p[2] = Colon
    BY <2>2, <2>3
  <2>5. Understood(p) /\ EndsOrNames(p)
    BY <2>2, <2>4 DEF Understood, HasVolume, EndsOrNames
  <2>6. NamesApart(p)
    BY <2>2, <2>4 DEF NamesApart
  <2> QED BY <2>4, <2>5, <2>6 DEF PathOK
<1>2. CASE path # Root
  <2>1. p = path \o <<Slash>> \o arg /\ CanStat(p)
    BY <1>2 DEF Relative
  <2>2. path \in Seq(Tokens) /\ NamesApart(path)
    BY <1>2 DEF PathInv, PathOK
  <2>3. Slash \in Tokens /\ arg \in Seq(Tokens) /\ NamesApart(arg)
    BY TokensOfPaths
  <2>4. p \in Seq(Tokens) /\ NamesApart(p)
    BY <2>1, <2>2, <2>3, JoinedApart
  <2> QED BY <2>1, <2>4, NamedPathOK
<1> QED BY <1>1, <1>2

(* CDUP.                                                                   *)
LEMMA CdupOneUp ==
  ASSUME PathInv, ChangeToParentDirectory
  PROVE  Names(path') = Front(Names(path)) /\ PathInv'
<1>1. path # Root /\ path' = FatFsParentPath(path) /\ (path' = Root \/ Understood(path'))
  BY DEF ChangeToParentDirectory, CanOpenDir
<1>2. path \in Seq(Tokens) /\ Understood(path) /\ NamesApart(path) /\ EndsOrNames(path)
  BY <1>1 DEF PathInv, PathOK
<1>3. /\ Names(path') = Front(Names(path))
      /\ path' = Root \/ (path' \in Seq(Tokens) /\ NamesApart(path') /\ EndsOrNames(path'))
  BY <1>1, <1>2, ParentGoesUp
<1> QED BY <1>1, <1>3 DEF PathInv, PathOK

(* Nothing else changes the path, but for a new worker.                    *)
LEMMA PathKept == PathInv /\ [Next]_vars => PathInv'
<1> SUFFICES ASSUME PathInv, [Next]_vars PROVE PathInv'
  OBVIOUS
<1>1. CASE Accept \/ Close \/ Reboot
  <2>1. path' = Root
    BY <1>1 DEF Accept, Close, Reboot, FreshWorker
  <2> QED BY <2>1 DEF PathInv, PathOK
<1>2. ASSUME NEW arg \in Args, ChangeWorkingDirectory(arg) PROVE PathInv'
  <2>1. path' \in Absolute(arg) \/ path' \in Relative(arg)
    BY <1>2 DEF ChangeWorkingDirectory
  <2>2. PathOK(path')
    BY <2>1, AbsoluteOK, RelativeOK
  <2> QED BY <2>2 DEF PathInv
<1>3. CASE ChangeToParentDirectory
  BY <1>3, CdupOneUp
<1>4. CASE path' = path
  BY <1>4 DEF PathInv
<1>5. CASE \/ Leave \/ Tick \/ Answer \/ Username \/ Password \/ Bye
           \/ \E ok \in BOOLEAN : Port(ok) \/ Passive(ok) \/ Rename(ok)
           \/ \E command \in {"retr", "stor", "list"} : Begin(command)
  BY <1>4, <1>5
     DEF Leave, Tick, Answer, Username, Password, Bye, Port, Passive, Rename, Begin
<1>6. CASE \/ Greet \/ Hangup \/ SendPreliminary \/ OpenDataConnection \/ AcceptData \/ AcceptFails
           \/ EndList \/ \E whole \in BOOLEAN : EndMove(whole)
  BY <1>4, <1>6
     DEF Greet, Hangup, SendPreliminary, OpenDataConnection, AcceptData, AcceptFails, EndList, EndMove
<1>7. CASE UNCHANGED vars
  BY <1>4, <1>7 DEF vars
<1> QED
  BY <1>1, <1>2, <1>3, <1>5, <1>6, <1>7 DEF Next, Commands, Proceed
-----------------------------------------------------------------------------
(* Types.                                                                  *)

ControlTyped ==
  /\ worker \in {"None", "Greet", "Wait", "Close", "Reboot", "Begin", "Open", "Accept", "Move"}
  /\ client \in {"there", "silent", "closed"}
  /\ job \in {"", "retr", "stor", "list"}
SessionTyped ==
  /\ user \in {"", "right", "wrong"} /\ pass \in {"", "right", "wrong"}
  /\ mode \in {"Active", "Passive"} /\ target \in {"unset", "client"}
  /\ agreed \in {"nothing", "active", "passive"}
FlagsTyped == listening \in BOOLEAN /\ renaming \in BOOLEAN
\* There is a try left while the worker waits for the data connection.
TriesTyped == tries \in 0 .. NumRetries /\ (worker = "Accept" => tries > 0)
IdleTyped == idle \in 0 .. Timeout
\* A transfer has begun only where its file may still be lost.
LossTyped == open \in Int /\ lost \in 0 .. MaxLost /\ (worker \in InTransfer => lost < MaxLost)

(* Where the worker is.                                                    *)
LEMMA ControlKept == ControlTyped /\ [Next]_vars => ControlTyped'
<1> SUFFICES ASSUME ControlTyped, [Next]_vars PROVE ControlTyped'
  OBVIOUS
<1>1. CASE Accept \/ Close \/ Reboot \/ Leave \/ Tick \/ Greet \/ Hangup
  BY <1>1 DEF ControlTyped, Accept, Close, Reboot, FreshWorker, Leave, Tick, Greet, SendsStatus,
              Hangup, transfer
<1>2. CASE \/ Answer \/ Username \/ Password \/ Bye \/ ChangeToParentDirectory
           \/ \E arg \in Args : ChangeWorkingDirectory(arg)
  BY <1>2 DEF ControlTyped, Answer, Username, Password, Bye, ChangeToParentDirectory,
              ChangeWorkingDirectory, Answered, transfer
<1>3. CASE \E ok \in BOOLEAN : Port(ok) \/ Passive(ok) \/ Rename(ok)
  BY <1>3 DEF ControlTyped, Port, Passive, Rename, Answered, transfer
<1>4. CASE \E command \in {"retr", "stor", "list"} : Begin(command)
  BY <1>4 DEF ControlTyped, Begin
<1>5. CASE SendPreliminary \/ OpenDataConnection
  BY <1>5 DEF ControlTyped, SendPreliminary, OpenDataConnection, GiveUp
<1>6. CASE \/ AcceptData \/ AcceptFails \/ EndList \/ \E whole \in BOOLEAN : EndMove(whole)
  BY <1>6 DEF ControlTyped, AcceptData, AcceptFails, EndList, EndMove
<1>7. CASE UNCHANGED vars
  BY <1>7 DEF ControlTyped, vars, transfer
<1> QED BY <1>1, <1>2, <1>3, <1>4, <1>5, <1>6, <1>7 DEF Next, Commands, Proceed

(* What it knows of its client.                                            *)
LEMMA SessionKept == SessionTyped /\ [Next]_vars => SessionTyped'
<1> SUFFICES ASSUME SessionTyped, [Next]_vars PROVE SessionTyped'
  OBVIOUS
<1>1. CASE UNCHANGED login /\ UNCHANGED channel
  BY <1>1 DEF SessionTyped, login, channel
<1>2. CASE Accept \/ Close \/ Reboot
  BY <1>2 DEF SessionTyped, Accept, Close, Reboot, FreshWorker
<1>3. CASE Username \/ Password
  BY <1>3 DEF SessionTyped, Username, Password, channel
<1>4. CASE \E ok \in BOOLEAN : Port(ok) \/ Passive(ok)
  BY <1>4 DEF SessionTyped, Port, Passive, login
<1>5. CASE \/ Leave \/ Tick \/ Greet \/ Hangup \/ Answer \/ Bye \/ ChangeToParentDirectory
           \/ \E arg \in Args : ChangeWorkingDirectory(arg)
           \/ \E ok \in BOOLEAN : Rename(ok)
           \/ \E command \in {"retr", "stor", "list"} : Begin(command)
  BY <1>1, <1>5 DEF Leave, Tick, Greet, Hangup, Answer, Bye, ChangeToParentDirectory,
                    ChangeWorkingDirectory, Rename, Begin
<1>6. CASE \/ SendPreliminary \/ OpenDataConnection \/ AcceptData \/ AcceptFails
           \/ EndList \/ \E whole \in BOOLEAN : EndMove(whole)
  BY <1>1, <1>6 DEF SendPreliminary, OpenDataConnection, AcceptData, AcceptFails, EndList, EndMove
<1>7. CASE UNCHANGED vars
  BY <1>1, <1>7 DEF vars
<1> QED BY <1>2, <1>3, <1>4, <1>5, <1>6, <1>7 DEF Next, Commands, Proceed

(* The socket that listens and the name of RNFR.                           *)
LEMMA FlagsKept == FlagsTyped /\ [Next]_vars => FlagsTyped'
<1> SUFFICES ASSUME FlagsTyped, [Next]_vars PROVE FlagsTyped'
  OBVIOUS
<1>1. CASE UNCHANGED channel /\ UNCHANGED renaming
  BY <1>1 DEF FlagsTyped, channel
<1>2. CASE Accept \/ Close \/ Reboot
  <2>1. listening' = FALSE /\ renaming' = FALSE
    BY <1>2 DEF Accept, Close, Reboot, FreshWorker
  <2> QED BY <2>1 DEF FlagsTyped
<1>3. ASSUME NEW ok \in BOOLEAN, Port(ok) \/ Passive(ok) \/ Rename(ok) PROVE FlagsTyped'
  <2>1. listening' \in {FALSE, ok, listening} /\ renaming' \in {ok, renaming}
    BY <1>3, Zenon DEF Port, Passive, Rename, channel
  <2> QED BY <2>1, Zenon DEF FlagsTyped
<1>4. CASE \/ Leave \/ Tick \/ Greet \/ Hangup \/ Answer \/ Username \/ Password \/ Bye
           \/ ChangeToParentDirectory
           \/ \E arg \in Args : ChangeWorkingDirectory(arg)
           \/ \E command \in {"retr", "stor", "list"} : Begin(command)
  BY <1>1, <1>4 DEF Leave, Tick, Greet, Hangup, Answer, Username, Password, Bye,
                    ChangeToParentDirectory, ChangeWorkingDirectory, Begin
<1>5. CASE \/ SendPreliminary \/ OpenDataConnection \/ AcceptData \/ AcceptFails
           \/ EndList \/ \E whole \in BOOLEAN : EndMove(whole)
  BY <1>1, <1>5 DEF SendPreliminary, OpenDataConnection, AcceptData, AcceptFails, EndList, EndMove
<1>6. CASE UNCHANGED vars
  BY <1>1, <1>6 DEF vars
<1> QED BY <1>2, <1>3, <1>4, <1>5, <1>6 DEF Next, Commands, Proceed

(* The clock.                                                              *)
LEMMA IdleKept == IdleTyped /\ [Next]_vars => IdleTyped'
<1> SUFFICES ASSUME IdleTyped, [Next]_vars PROVE IdleTyped'
  OBVIOUS
<1>1. Timeout \in Nat
  BY FtpAssumption
<1>2. CASE Tick
  BY <1>1, <1>2 DEF Tick, IdleTyped
<1>3. CASE idle' \in {0, idle}
  BY <1>1, <1>3 DEF IdleTyped
<1>4. CASE \/ Accept \/ Close \/ Reboot \/ Leave \/ Greet \/ Hangup \/ Answer \/ Username
           \/ Password \/ Bye \/ ChangeToParentDirectory
           \/ \E arg \in Args : ChangeWorkingDirectory(arg)
           \/ \E ok \in BOOLEAN : Port(ok) \/ Passive(ok) \/ Rename(ok)
           \/ \E command \in {"retr", "stor", "list"} : Begin(command)
  BY <1>3, <1>4
     DEF Accept, Close, Reboot, FreshWorker, Leave, Greet, Hangup, Answer, Username, Password,
         Bye, ChangeToParentDirectory, ChangeWorkingDirectory, Port, Passive, Rename, Begin, Answered
<1>5. CASE \/ SendPreliminary \/ OpenDataConnection \/ AcceptData \/ AcceptFails
           \/ EndList \/ \E whole \in BOOLEAN : EndMove(whole)
  BY <1>3, <1>5
     DEF SendPreliminary, OpenDataConnection, GiveUp, AcceptData, AcceptFails, EndList, EndMove
<1>6. CASE UNCHANGED vars
  BY <1>3, <1>6 DEF vars
<1> QED BY <1>2, <1>4, <1>5, <1>6 DEF Next, Commands, Proceed

(* The tries.                                                              *)
LEMMA TriesKept == TriesTyped /\ [Next]_vars => TriesTyped'
<1> SUFFICES ASSUME TriesTyped, [Next]_vars PROVE TriesTyped'
  OBVIOUS
<1>1. NumRetries \in Nat
  BY FtpAssumption
<1>2. CASE tries' = 0 /\ worker' # "Accept"
  BY <1>1, <1>2 DEF TriesTyped
<1>3. CASE tries' = tries /\ (worker' # "Accept" \/ worker' = worker)
  BY <1>3 DEF TriesTyped
<1>4. CASE Accept \/ Close \/ Reboot \/ AcceptData
  BY <1>2, <1>4 DEF Accept, Close, Reboot, FreshWorker, AcceptData
<1>5. CASE \/ Leave \/ Tick \/ Greet \/ Hangup \/ Answer \/ Username \/ Password \/ Bye
           \/ ChangeToParentDirectory
           \/ \E arg \in Args : ChangeWorkingDirectory(arg)
           \/ \E ok \in BOOLEAN : Port(ok) \/ Passive(ok) \/ Rename(ok)
           \/ \E command \in {"retr", "stor", "list"} : Begin(command)
  BY <1>3, <1>5
     DEF Leave, Tick, Greet, SendsStatus, Hangup, Answer, Username, Password, Bye,
         ChangeToParentDirectory, ChangeWorkingDirectory, Port, Passive, Rename, Begin, Answered,
         transfer
<1>6. CASE SendPreliminary
  <2>1. CASE worker' = "Open" /\ tries' = NumRetries
    BY <1>1, <2>1 DEF TriesTyped
  <2> QED BY <1>2, <1>6, <2>1 DEF SendPreliminary, GiveUp
<1>7. CASE OpenDataConnection
  <2>1. CASE worker' = worker /\ worker = "Open" /\ tries > 0 /\ tries' = tries - 1
    BY <1>1, <2>1 DEF TriesTyped
  <2>2. CASE tries > 0 /\ tries' = tries
    BY <1>1, <2>2 DEF TriesTyped
  <2> QED BY <1>2, <1>7, <2>1, <2>2 DEF OpenDataConnection, GiveUp
<1>8. CASE AcceptFails
  BY <1>1, <1>8 DEF AcceptFails, TriesTyped
<1>9. CASE EndList \/ \E whole \in BOOLEAN : EndMove(whole)
  BY <1>3, <1>9 DEF EndList, EndMove
<1>10. CASE UNCHANGED vars
  BY <1>3, <1>10 DEF vars, transfer
<1> QED BY <1>4, <1>5, <1>6, <1>7, <1>8, <1>9, <1>10 DEF Next, Commands, Proceed

(* The files that are lost.                                                *)
LEMMA LossKept == LossTyped /\ [Next]_vars => LossTyped'
<1> SUFFICES ASSUME LossTyped, [Next]_vars PROVE LossTyped'
  OBVIOUS
<1>1. MaxLost \in Nat
  BY FtpAssumption
<1>2. CASE /\ open' = open /\ lost' = lost
           /\ worker' \in InTransfer => worker \in InTransfer
  BY <1>2 DEF LossTyped
<1>3. CASE Accept \/ Close
  BY <1>2, <1>3 DEF Accept, Close, InTransfer
<1>4. CASE Reboot
  BY <1>1, <1>4 DEF Reboot, LossTyped, InTransfer
<1>5. CASE \/ Leave \/ Tick \/ Greet \/ Hangup \/ Answer \/ Username \/ Password \/ Bye
           \/ ChangeToParentDirectory
           \/ \E arg \in Args : ChangeWorkingDirectory(arg)
           \/ \E ok \in BOOLEAN : Port(ok) \/ Passive(ok) \/ Rename(ok)
  BY <1>2, <1>5
     DEF Leave, Tick, Greet, SendsStatus, Hangup, Answer, Username, Password, Bye,
         ChangeToParentDirectory, ChangeWorkingDirectory, Port, Passive, Rename, Answered,
         transfer, InTransfer
<1>6. ASSUME NEW command \in {"retr", "stor", "list"}, Begin(command) PROVE LossTyped'
  <2>1. open' \in {open, open + 1} /\ lost' = lost /\ lost < MaxLost
    BY <1>6 DEF Begin
  <2> QED BY <1>1, <2>1 DEF LossTyped
<1>7. ASSUME GiveUp, worker \in InTransfer PROVE LossTyped'
  <2>1. open' = open /\ lost' \in {lost, lost + 1} /\ worker' = "Wait"
    BY <1>7 DEF GiveUp
  <2> QED BY <1>1, <1>7, <2>1 DEF LossTyped, InTransfer
<1>8. CASE SendPreliminary \/ OpenDataConnection
  <2>1. worker \in InTransfer /\ (GiveUp \/ UNCHANGED <<job, open, lost>>)
    BY <1>8 DEF SendPreliminary, OpenDataConnection, InTransfer
  <2> QED BY <1>2, <1>7, <2>1
<1>9. CASE AcceptData \/ AcceptFails \/ EndList
  BY <1>2, <1>9 DEF AcceptData, AcceptFails, EndList, InTransfer
<1>10. ASSUME NEW whole \in BOOLEAN, EndMove(whole) PROVE LossTyped'
  <2>1. open' = open - 1 /\ lost' = lost /\ worker' = "Wait"
    BY <1>10 DEF EndMove
  <2> QED BY <2>1 DEF LossTyped, InTransfer
<1>11. CASE UNCHANGED vars
  BY <1>2, <1>11 DEF vars, transfer
<1> QED BY <1>3, <1>4, <1>5, <1>6, <1>8, <1>9, <1>10, <1>11 DEF Next, Commands, Proceed
-----------------------------------------------------------------------------
(* Data flows as the client was last told, whatever PORT, PASV and         *)
(* failures came before (ftpworker.cpp:470, 526 and 276).                  *)
THEOREM AlwaysFlowsAsAgreed == Spec => []FlowsAsAgreed
<1>1. Init => FlowInv
  BY DEF Init, FlowInv, ListensPassively, FlowsAsAgreed
<1>2. FlowInv => FlowsAsAgreed
  BY DEF FlowInv
<1> QED BY <1>1, <1>2, FlowKept, PTL DEF Spec

(* Every file is closed but those of transfers that got no data connection *)
(* (ftpworker.cpp:642-647 and 693-698).                                    *)
THEOREM FilesAlwaysClosedButLost == Spec => []FilesClosedButLost
<1>1. Init => FilesInv
  <2> SUFFICES ASSUME Init PROVE FilesInv
    OBVIOUS
  <2>1. job \notin Moves /\ job \notin {"retr", "stor"} /\ worker \notin InTransfer
    BY DEF Init, Moves, InTransfer
  <2>2. open = 0 /\ lost = 0
    BY DEF Init
  <2> QED BY <2>1, <2>2 DEF FilesInv, JobInHand, Counts, FilesClosedButLost
<1>2. FilesInv => FilesClosedButLost
  BY DEF FilesInv
<1> QED BY <1>1, <1>2, FilesKept, PTL DEF Spec

(* The current path is the list of volumes, or has a volume that is        *)
(* followed by a colon, names that never touch, and a name somewhere if    *)
(* anything follows the colon (ftpworker.cpp:1098 and 1190).               *)
THEOREM PathsStayWellFormed == Spec => []PathInv
<1>1. Init => PathInv
  BY DEF Init, PathInv, PathOK
<1> QED BY <1>1, PathKept, PTL DEF Spec

(* The directory PWD reports is the current one when it is given to CWD    *)
(* (ftpworker.cpp:1098 and 1141).                                          *)
THEOREM PwdAlwaysLeadsBack == Spec => []PwdLeadsBack
<1>1. PathInv => PwdLeadsBack
  <2> SUFFICES ASSUME PathInv, path # Root PROVE PwdLeadsBack
    BY DEF PwdLeadsBack
  <2>1. path \in Seq(Tokens) /\ HasVolume(path) /\ Separators \subseteq Tokens
    BY TokensOfPaths DEF PathInv, PathOK, Understood
  <2>2. /\ HasVolume(FTPPathToFatFsPath(FatFsPathToFTPPath(path)))
        /\ Names(FTPPathToFatFsPath(FatFsPathToFTPPath(path))) = Names(path)
    BY <2>1, VolumeLeadsBack
  <2> QED BY <2>2 DEF PwdLeadsBack
<1> QED BY <1>1, PathsStayWellFormed, PTL

(* CDUP goes up by one name, however many slashes CWD has left in the path *)
(* (ftpworker.cpp:1190).                                                   *)
THEOREM CdupAlwaysGoesUpByOne == Spec => CdupGoesUpByOne
<1>1. PathInv /\ [Next]_vars => [ChangeToParentDirectory => Names(path') = Front(Names(path))]_vars
  BY CdupOneUp
<1> QED BY <1>1, PathsStayWellFormed, PTL DEF Spec, CdupGoesUpByOne

(* Every variable keeps its type; no file is closed that was not open, and *)
(* the tries never go below zero (ftpworker.cpp:276).                      *)
THEOREM SessionTypesHold == Spec => []TypeOK
<1> DEFINE Typed == /\ ControlTyped /\ SessionTyped /\ FlagsTyped /\ IdleTyped /\ TriesTyped
                    /\ LossTyped
<1>1. Init => Typed
  <2> SUFFICES ASSUME Init PROVE Typed
    OBVIOUS
  <2>0. NumRetries \in Nat /\ Timeout \in Nat /\ MaxLost \in Nat
    BY FtpAssumption
  <2>1. ControlTyped /\ SessionTyped
    BY DEF Init, ControlTyped, SessionTyped
  <2>2. FlagsTyped
    BY Zenon DEF Init, FlagsTyped
  <2>3. IdleTyped /\ TriesTyped
    <3>1. idle = 0 /\ tries = 0 /\ worker = "None"
      BY DEF Init
    <3> QED BY <2>0, <3>1 DEF IdleTyped, TriesTyped
  <2>4. LossTyped
    <3>1. open = 0 /\ lost = 0 /\ worker = "None"
      BY DEF Init
    <3> QED BY <2>0, <3>1 DEF LossTyped, InTransfer
  <2> QED BY <2>1, <2>2, <2>3, <2>4
<1>2. Typed /\ [Next]_vars => Typed'
  BY ControlKept, SessionKept, FlagsKept, IdleKept, TriesKept, LossKept
<1>3. Typed /\ PathInv /\ FilesClosedButLost => TypeOK
  <2> SUFFICES ASSUME Typed, PathInv, FilesClosedButLost PROVE TypeOK
    OBVIOUS
  <2>1. open \in Nat /\ lost \in 0 .. MaxLost
    BY DEF FilesClosedButLost, LossTyped
  <2>2. path = Root \/ HasVolume(path)
    BY DEF PathInv, PathOK, Understood
  <2>3. {listening, renaming} \subseteq BOOLEAN
    BY Zenon DEF FlagsTyped
  <2>4. idle \in 0 .. Timeout /\ tries \in 0 .. NumRetries
    BY DEF IdleTyped, TriesTyped
  <2>5. {user, pass} \subseteq {"", "right", "wrong"}
    BY DEF SessionTyped
  <2> QED BY <2>1, <2>2, <2>3, <2>4, <2>5, Zenon DEF TypeOK, ControlTyped, SessionTyped
<1> HIDE DEF Typed
<1> QED BY <1>1, <1>2, <1>3, PathsStayWellFormed, FilesAlwaysClosedButLost, PTL DEF Spec
=============================================================================
