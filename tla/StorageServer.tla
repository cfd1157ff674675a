--------------------------- MODULE StorageServer ---------------------------
(***************************************************************************)
(* What the server of a storage node promises of the files in its root     *)
(* directory, which are the ones the frontends use: each is a StoredFile,  *)
(* and a request for one of them touches no other.  FusedFS implements     *)
(* this when it is linked to the RPC server; Frontend is built on it.      *)
(***************************************************************************)
EXTENDS StoredFile

CONSTANTS
    Name,
    Dir         \* the name is that of a directory

VARIABLE files

Init == files = [name \in Name |-> NoFile]
-----------------------------------------------------------------------------
\* What one request may turn a file into.
Write(old, new) ==
    /\ old \in File /\ new \in Content
    /\ \E offset \in 0 .. Len(new) :
          new = ServerWrite(old, offset, SubSeq(new, offset + 1, Len(new))).file

\* Create, or a Write that fails: the file may be there, empty.
CreateOnly(old, new) == old \in File /\ new \in ServerWriteFails(old)

Mkdir(old, new) == old = NoFile /\ new = Dir

\* Remove takes directories as well.
Remove(old, new) == new = handle_delete(old).file

Request(old, new) ==
    Write(old, new) \/ CreateOnly(old, new) \/ Mkdir(old, new) \/ Remove(old, new)

\* A request, which is for one name.
OneRequest ==
    \E old \in {files}, new \in {files'} :
        LET touched == {name \in Name : new[name] # old[name]}
        IN  \A name \in touched : touched = {name} /\ Request(old[name], new[name])

\* The inode table does not outlive the process.
Restart == files' = [name \in Name |-> NoFile]

Next == OneRequest \/ Restart

Spec == Init /\ [][Next]_files
=============================================================================
