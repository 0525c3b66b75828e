------------------------------ MODULE Storage ------------------------------
(***************************************************************************)
(* One file, the functions that read and write it as a whole, and the      *)
(* Storage object that reads and writes parts of it: a std::fstream that   *)
(* throws on failure, and the size of the file as the object counts it.    *)
(* What the stream, the file system and the disk do is modelled from how   *)
(* this code uses them.                                                    *)
(***************************************************************************)
EXTENDS Integers, Sequences

CONSTANTS
  Payload,          \* the byte arrays a client writes
  Offset,           \* the offsets a client asks for
  MAX_FILE_SIZE,    \* bound: no operation makes the file longer
  DeviceFails       \* whether opening, writing and closing may fail

ASSUME StorageAssumption ==
  /\ Payload \subseteq Seq(0 .. 255)
  /\ Offset \subseteq Nat
  /\ MAX_FILE_SIZE \in Nat
  /\ DeviceFails \in BOOLEAN

VARIABLES
  disk,        \* the bytes of the file, if it exists
  stream,      \* the state of the object's stream, "none" without an object
  content,     \* the file as the stream sees it, with what is not yet flushed
  fileSize,    \* the member of that name
  status,      \* how the last operation ended
  reported     \* the bytes the client has been told that the file holds, by position

vars == <<disk, stream, content, fileSize, status, reported>>

NoObject == stream = "none"

TypeOK ==
  /\ \A bytes \in disk : bytes \in Seq(0 .. 255) /\ Len(bytes) <= MAX_FILE_SIZE
  /\ stream \in {"none", "good", "failed", "bad"}
  /\ content \in Seq(0 .. 255) /\ Len(content) <= MAX_FILE_SIZE
  /\ fileSize \in Nat
  /\ status \in {"ok", "KVSException", "filesystem_error"}
  /\ DOMAIN reported \subseteq Nat \ {0}

Init ==
  /\ disk \in {{}, {<<>>}}
  /\ stream = "none"
  /\ content = <<>>
  /\ fileSize = 0
  /\ status = "ok"
  /\ reported = <<>>

(***************************************************************************)
(* The end of an operation: it throws, and its client can rely on nothing  *)
(* any more, or it returns, and its client holds the bytes for read or     *)
(* written, and those at every other place for unchanged.                  *)
(***************************************************************************)
Throw(exception) == status' = exception /\ reported' = <<>>

Told(offset, bytes) ==
  LET places == offset + 1 .. offset + Len(bytes) IN
  [i \in places \cup DOMAIN reported |->
     IF i \in places THEN bytes[i - offset] ELSE reported[i]]

Report(offset, bytes) ==
  /\ status' = "ok"
  /\ reported' = Told(offset, bytes)

(***************************************************************************)
(* The bytes of a file after a write of `bytes' at an offset: a gap behind *)
(* the old end is filled with zeros.                                       *)
(***************************************************************************)
WrittenTruncating(file, offset, bytes) ==    \* mutant: the rest is cut off
  [i \in 1 .. offset + Len(bytes) |->
     IF i > offset THEN bytes[i - offset]
     ELSE IF i <= Len(file) THEN file[i] ELSE 0]

Written(file, offset, bytes) ==
  LET end == offset + Len(bytes) IN
  IF bytes = <<>>
    THEN file
    ELSE [i \in 1 .. (IF end > Len(file) THEN end ELSE Len(file)) |->
            IF i \in offset + 1 .. end THEN bytes[i - offset]
            ELSE IF i <= Len(file) THEN file[i] ELSE 0]

Prefixes(bytes) == {SubSeq(bytes, 1, n) : n \in 0 .. Len(bytes)}

-----------------------------------------------------------------------------
(***************************************************************************)
(* readFile and writeFile.                                                 *)
(***************************************************************************)
ReadFile ==
  /\ NoObject
  /\ \/ \E bytes \in disk : Report(0, bytes)
     \/ disk = {} /\ Throw("KVSException")
     \/ DeviceFails /\ Throw("KVSException")
  /\ UNCHANGED <<disk, stream, content, fileSize>>

WriteFile(bytes) ==
  /\ NoObject
  /\ Len(bytes) <= MAX_FILE_SIZE
  /\ \/ disk' = {bytes} /\ status' = "ok" /\ reported' = bytes
     \/ /\ DeviceFails
        /\ \/ UNCHANGED disk
           \/ \E written \in Prefixes(bytes) : disk' = {written}
        /\ Throw("KVSException")
  /\ UNCHANGED <<stream, content, fileSize>>

(***************************************************************************)
(* The constructor opens the stream and asks for the size of the file      *)
(* before it looks at the stream.                                          *)
(***************************************************************************)
Open ==
  /\ NoObject
  /\ \E bytes \in disk :
       /\ stream' = "good"
       /\ content' = bytes
       /\ fileSize' = Len(bytes)
  /\ status' = "ok"
  /\ UNCHANGED <<disk, reported>>

OpenFails ==
  /\ NoObject
  /\ \/ disk = {} /\ Throw("filesystem_error")
     \/ DeviceFails /\ disk # {} /\ Throw("KVSException")
  /\ UNCHANGED <<disk, stream, content, fileSize>>

(***************************************************************************)
(* read: a read across the end of the file fails the stream for good.      *)
(***************************************************************************)
Read(offset, length) ==
  /\ ~NoObject
  /\ \/ /\ stream = "good"
        /\ length = 0 \/ offset + length <= Len(content)
        /\ Report(offset, SubSeq(content, offset + 1, offset + length))
        /\ UNCHANGED stream
     \/ /\ stream = "good"
        /\ length > 0 /\ offset + length > Len(content)
        /\ stream' = "failed"
        /\ Throw("KVSException")
     \/ /\ stream # "good"
        /\ Throw("KVSException")
        /\ UNCHANGED stream
  /\ UNCHANGED <<disk, content, fileSize>>

(***************************************************************************)
(* An output operation at an offset.  A stream that has failed, but is not *)
(* bad, ignores it; whether it throws is up to the library.                *)
(***************************************************************************)
Output(offset, bytes) ==
  \/ /\ stream = "good"
     /\ content' = Written(content, offset, bytes)
     /\ status' = "ok"
     /\ UNCHANGED stream
  \/ /\ stream = "failed"
     /\ status' = "ok"
     /\ UNCHANGED <<content, stream>>
  \/ /\ stream = "good" /\ DeviceFails
     /\ \E written \in Prefixes(bytes) : content' = Written(content, offset, written)
     /\ stream' = "bad"
     /\ status' = "KVSException"
  \/ /\ stream \in {"failed", "bad"}
     /\ status' = "KVSException"
     /\ UNCHANGED <<content, stream>>

ReportIfOk(offset, bytes) ==
  reported' = IF status' = "ok" THEN Told(offset, bytes) ELSE <<>>

WriteToEnd(offset, bytes) ==    \* mutant: the greater of the two is not taken
  /\ stream # "none"
  /\ offset + Len(bytes) <= MAX_FILE_SIZE
  /\ Output(offset, bytes)
  /\ ReportIfOk(offset, bytes)
  /\ fileSize' = IF status' = "ok" THEN offset + Len(bytes) ELSE fileSize
  /\ UNCHANGED disk

Write(offset, bytes) ==
  LET end == offset + Len(bytes) IN
  /\ ~NoObject
  /\ end <= MAX_FILE_SIZE
  /\ Output(offset, bytes)
  /\ ReportIfOk(offset, bytes)
  /\ fileSize' = IF status' = "ok" /\ end > fileSize THEN end ELSE fileSize
  /\ UNCHANGED disk

(***************************************************************************)
(* append seeks to the end of the file, but reports the offset from the    *)
(* size that the object counts.                                            *)
(***************************************************************************)
AppendBytes(bytes) ==
  /\ ~NoObject
  /\ fileSize + Len(bytes) <= MAX_FILE_SIZE
  /\ Output(Len(content), bytes)
  /\ ReportIfOk(fileSize, bytes)
  /\ fileSize' = IF status' = "ok" THEN fileSize + Len(bytes) ELSE fileSize
  /\ UNCHANGED disk

(***************************************************************************)
(* close, and the destructor of an object that was not closed, which       *)
(* swallows the failure.  A failed flush leaves the old file, or some of   *)
(* what was to be added to it.                                             *)
(***************************************************************************)
Flushed(file) ==
  {file} \cup {bytes \in Prefixes(content) : Len(bytes) >= Len(file)}

Close ==
  /\ ~NoObject
  /\ stream' = "none"
  /\ \/ /\ disk' = {content}
        /\ status' = "ok"
        /\ reported' = IF stream = "good" THEN reported ELSE <<>>
     \/ /\ DeviceFails
        /\ \E file \in disk : \E flushed \in Flushed(file) : disk' = {flushed}
        /\ Throw("KVSException")
  /\ content' = <<>>
  /\ fileSize' = 0

Destroy ==
  /\ ~NoObject
  /\ status = "KVSException"
  /\ stream' = "none"
  /\ \/ disk' = {content}
     \/ DeviceFails /\ \E file \in disk : \E flushed \in Flushed(file) : disk' = {flushed}
  /\ content' = <<>>
  /\ fileSize' = 0
  /\ UNCHANGED <<status, reported>>

(***************************************************************************)
(* A client may write, append or ask for no bytes at all, but it does not  *)
(* write none of them behind the end: that would raise fileSize alone.     *)
(***************************************************************************)
Next ==
  \/ ReadFile \/ Open \/ OpenFails \/ Close \/ Destroy
  \/ \E bytes \in Payload :
       \/ WriteFile(bytes) \/ AppendBytes(bytes)
       \/ \E offset \in Offset :
            \/ (bytes # <<>> \/ offset <= Len(content)) /\ Write(offset, bytes)
            \/ Read(offset, Len(bytes))

Spec == Init /\ [][Next]_vars

-----------------------------------------------------------------------------
View == IF NoObject THEN disk ELSE {content}

ReportedDone ==
  \A file \in View, i \in DOMAIN reported :
    i <= Len(file) /\ file[i] = reported[i]

(***************************************************************************)
(* As long as the stream has not failed, everything that its client has    *)
(* been told since is true: a byte stays where it was written or read      *)
(* until it is overwritten, an append's lie at the offset that it          *)
(* returned, no operation touches a neighbour of what it writes, and       *)
(* close() leaves it all in the file.  (Storage::read, write, append,      *)
(* close, readFile, writeFile.)                                            *)
(***************************************************************************)
ReportsTrue == stream \in {"none", "good"} => ReportedDone

(***************************************************************************)
(* The size that append returns is "the size of file in bytes before       *)
(* appending".  (Storage.h:72; Storage::fileSize.)                         *)
(***************************************************************************)
FileSizeExact == stream = "good" => fileSize = Len(content)

(***************************************************************************)
(* "If any operation fails, throws a new KVSException": what returns       *)
(* normally has been done.  (Storage.h:31.)                                *)
(***************************************************************************)
OkMeansDone == ReportedDone

=============================================================================
