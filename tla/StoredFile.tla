----------------------------- MODULE StoredFile -----------------------------
(***************************************************************************)
(* One file of one storage node, and what the frontend's calls on it can   *)
(* do: storage_interface.c on the frontend's side, storage_tcp_adapter.cpp *)
(* and fused_rpc_server.cpp on the node's.  A call is a step here; what it *)
(* does to the file and what the frontend is told need not agree, because  *)
(* any of the three processes and the connections may fail in between.     *)
(***************************************************************************)
EXTENDS Integers, Sequences

CONSTANTS
    Byte,
    NoFile      \* the node has no such file

ASSUME ByteAssumption == 0 \in Byte /\ NoFile \notin Seq(Byte)

Content == Seq(Byte)
File == Content \cup {NoFile}

Size(file) == IF file = NoFile THEN 0 ELSE Len(file)

\* The file has the bytes of data at offset.
Has(file, offset, data) ==
    \A k \in 1 .. Len(data) :
        offset + k <= Size(file) /\ file[offset + k] = data[k]

\* What a call did: what the frontend is told, and the file after it.
Outcome(ok, file) == [ok |-> ok, file |-> file]
-----------------------------------------------------------------------------
\* A write may go over what is there.
MayWrite_Overwrite(file, offset) == TRUE

\* fused_write is append-only.
MayWrite(file, offset) == offset >= Size(file)

\* The file after a write: a gap before offset is filled with zeros.
Written(file, offset, data) ==
    [k \in 1 .. offset + Len(data) |->
        IF k <= Size(file) THEN file[k]
        ELSE IF k <= offset THEN 0
        ELSE data[k - offset]]

\* The file is created anew for every write.
ServerWrite_Recreates(file, offset, data) ==
    IF MayWrite(file, offset)
    THEN Outcome(TRUE, Written(NoFile, offset, data))
    ELSE Outcome(FALSE, file)

\* StorageClient::Write, and FileSystemServiceImpl::Write behind it, which
\* creates a file that is not there.
ServerWrite(file, offset, data) ==
    IF MayWrite(file, offset)
    THEN Outcome(TRUE, Written(file, offset, data))
    ELSE Outcome(FALSE, file)

\* The same when the server fails: before, or between creation and write.
ServerWriteFails(file) == {file, IF file = NoFile THEN <<>> ELSE file}

\* The WRITE of handle_client: OK is answered only if bytes were written, so
\* that an empty write is performed and refused.
handle_write(file, offset, data) ==
    LET o == ServerWrite(file, offset, data)
    IN  Outcome(o.ok /\ data # <<>>, o.file)

\* storage_interface_write that runs into a fault: the node is not reached, its
\* server fails, the answer is lost, or the connection breaks while the data is
\* sent, in which case the adapter writes the part it has.
WriteFaults(file, offset, data) ==
    {Outcome(FALSE, f) : f \in ServerWriteFails(file)}
    \cup {Outcome(FALSE, handle_write(file, offset, SubSeq(data, 1, k)).file) :
             k \in 0 .. Len(data)}
-----------------------------------------------------------------------------
\* fused_read: at most length bytes from offset on.
Slice(file, offset, length) ==
    SubSeq(file, offset + 1, IF offset + length < Len(file) THEN offset + length ELSE Len(file))

\* The READ of handle_client.  It sends the bytes and no status: a file that is
\* not there, and a server that does not answer, look like an empty file.
handle_read(file, offset, length) ==
    IF file = NoFile THEN <<>> ELSE Slice(file, offset, length)

\* storage_interface_read that runs into a fault but reports none: the
\* connection closes early and what has come by then is taken for the data.
ShortReads(file, offset, length) ==
    LET whole == handle_read(file, offset, length)
    IN  {SubSeq(whole, 1, k) : k \in 0 .. Len(whole)}
-----------------------------------------------------------------------------
\* The DELETE of handle_client; fused_unlink fails if there is no file.
handle_delete(file) == Outcome(file # NoFile, NoFile)

\* storage_interface_delete that runs into a fault: an answer that does not
\* come leaves the status at 0, which is success.
DeleteFaults(file) == {Outcome(ok, f) : ok \in BOOLEAN, f \in {file, NoFile}}
=============================================================================
