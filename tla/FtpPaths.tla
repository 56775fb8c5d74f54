------------------------------ MODULE FtpPaths ------------------------------
(***************************************************************************)
(* The paths of CFTPWorker.  A client writes /SD/a/b; FatFs wants SD:a/b   *)
(* or SD:/a/b, and nothing stands for the list of volumes.  A path is the  *)
(* sequence of its names, slashes and colons; two names never touch.       *)
(***************************************************************************)
EXTENDS Integers, SequencesExt

Slash == "/"
Colon == ":"
Separators == {Slash, Colon}
Root == <<>>

\* Two names that touched would be one.
NamesApart(path) ==
  \A i \in 1 .. Len(path) - 1 : path[i] \in Separators \/ path[i + 1] \in Separators

\* FatFs: what a path means, the volume first; no other name has a colon.
CollectName(names, t) == IF t \in Separators THEN names ELSE Append(names, t)
Names(path) == FoldLeft(CollectName, <<>>, path)
HasVolume(path) == Len(path) > 1 /\ path[1] \notin Separators /\ path[2] = Colon
Understood(path) == HasVolume(path) /\ \A i \in 3 .. Len(path) : path[i] # Colon

\* "Kill trailing slash": one.
WithoutTrailingSlash(path) ==
  IF path # <<>> /\ Last(path) = Slash THEN Front(path) ELSE path

\* Mutant: the colon and the slashes after it are dropped.
FTPPathDropsColon(path) ==
  LET Copy(s, t) ==
        CASE t = Colon -> [s EXCEPT !.killed = TRUE]
          [] t = Slash /\ s.killed -> s
          [] OTHER -> [out |-> Append(s.out, t), killed |-> t = Slash]
  IN WithoutTrailingSlash(FoldLeft(Copy, [out |-> <<Slash>>, killed |-> FALSE], path).out)

\* A run of slashes is copied once, and not at all after a volume's colon.
\* killed says that the slashes of a run are to be dropped.
CopyWithSlash(s, t) ==
  CASE t = Colon -> [out |-> Append(s.out, Slash), killed |-> TRUE]
    [] t = Slash /\ s.killed -> s
    [] t = Slash /\ ~s.killed -> [out |-> Append(s.out, Slash), killed |-> TRUE]
    [] OTHER -> [out |-> Append(s.out, t), killed |-> FALSE]

FatFsPathToFTPPath(path) ==
  WithoutTrailingSlash(FoldLeft(CopyWithSlash, [out |-> <<Slash>>, killed |-> FALSE], path).out)

CopyOnce(s, t) ==
  CASE t = Slash /\ s.killed -> s
    [] t = Slash /\ ~s.killed ->
         [out |-> Append(s.out, IF s.volume THEN Slash ELSE Colon), killed |-> TRUE, volume |-> TRUE]
    [] OTHER -> [s EXCEPT !.out = Append(@, t), !.killed = FALSE]

\* The first slash after the volume becomes its colon; leading slashes go.
FTPPathToFatFsPath(path) ==
  LET s == FoldLeft(CopyOnce, [out |-> <<>>, killed |-> TRUE, volume |-> FALSE], path)
      out == WithoutTrailingSlash(s.out)
  IN IF s.volume THEN out ELSE Append(out, Colon)

\* Going left from i, past slashes or to the next slash or colon; not
\* beyond the first place.
SkipSlashes(path, i) == Max({1} \cup {j \in 1 .. i : path[j] # Slash})
SkipName(path, i) == Max({1} \cup {j \in 1 .. i : path[j] \in Separators})

\* Mutant: trailing slashes are not killed first.
FatFsParentKeepsTrailing(path) ==
  LET end == SkipSlashes(path, SkipName(path, Len(path)))
  IN IF end \in {1, Len(path)} THEN Root ELSE SubSeq(path, 1, end)

\* Trailing slashes, the last name and the slashes before it go; from a
\* volume itself the way up leads to the list of volumes.
FatFsParentPath(path) ==
  LET end == SkipSlashes(path, SkipName(path, SkipSlashes(path, Len(path))))
  IN IF end \in {1, Len(path)} THEN Root ELSE SubSeq(path, 1, end)
=============================================================================
