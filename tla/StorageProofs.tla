--------------------------- MODULE StorageProofs ---------------------------
(***************************************************************************)
(* What a client has been told of a file stays true, for every size of the *)
(* file, every payload and every failure of the device.                    *)
(***************************************************************************)
EXTENDS Storage, SequenceTheorems, TLAPS

Bytes == Seq(0 .. 255)

Holds(file, told) == \A i \in DOMAIN told : i <= Len(file) /\ file[i] = told[i]

AtMostOneFile == \A f, g \in disk : f = g

(***************************************************************************)
(* A client to whom the last operation threw relies on nothing, so that    *)
(* the destructor, which throws away what it cannot flush, breaks no       *)
(* promise.                                                                *)
(***************************************************************************)
NothingHeld == status # "ok" => DOMAIN reported = {}

IInv ==
  /\ TypeOK
  /\ AtMostOneFile
  /\ NothingHeld
  /\ FileSizeExact
  /\ ReportsTrue

-----------------------------------------------------------------------------
(***************************************************************************)
(* A function on 1 .. n with bytes as its values is a sequence of bytes,   *)
(* of length n.                                                            *)
(***************************************************************************)
LEMMA FunctionIsBytes ==
  ASSUME NEW n \in Nat, NEW f \in [1 .. n -> 0 .. 255]
  PROVE  f \in Bytes /\ Len(f) = n
<1>1. f \in Bytes  BY SeqDef DEF Bytes
<1>2. Len(f) \in Nat /\ DOMAIN f = 1 .. Len(f)  BY <1>1, LenProperties DEF Bytes
<1> QED  BY <1>1, <1>2

(***************************************************************************)
(* A write makes the file no shorter, puts its bytes at their places and   *)
(* leaves every other byte where it was.  (std::fstream::write.)           *)
(***************************************************************************)
LEMMA WrittenBytes ==
  ASSUME NEW file \in Bytes, NEW offset \in Nat, NEW bytes \in Bytes
  PROVE  LET file2 == Written(file, offset, bytes)
             end == offset + Len(bytes) IN
         /\ file2 \in Bytes
         /\ Len(file2) = IF bytes = <<>> \/ end <= Len(file) THEN Len(file) ELSE end
         /\ \A i \in offset + 1 .. end : i <= Len(file2) /\ file2[i] = bytes[i - offset]
         /\ \A i \in 1 .. Len(file) : i \notin offset + 1 .. end => file2[i] = file[i]
<1> DEFINE end == offset + Len(bytes)
           n == IF end > Len(file) THEN end ELSE Len(file)
           f == [i \in 1 .. n |-> IF i \in offset + 1 .. end THEN bytes[i - offset]
                                  ELSE IF i <= Len(file) THEN file[i] ELSE 0]
<1>1. /\ Len(file) \in Nat /\ \A i \in 1 .. Len(file) : file[i] \in 0 .. 255
      /\ Len(bytes) \in Nat /\ \A i \in 1 .. Len(bytes) : bytes[i] \in 0 .. 255
  BY LenProperties, ElementOfSeq DEF Bytes
<1>2. CASE bytes = <<>>
  <2>1. Len(bytes) = 0  BY <1>2, EmptySeq DEF Bytes
  <2> QED  BY <1>1, <1>2, <2>1 DEF Written
<1>3. CASE bytes # <<>>
  <2>1. Written(file, offset, bytes) = f  BY <1>3 DEF Written
  <2>2. n \in Nat  BY <1>1
  <2>3. \A i \in 1 .. n : f[i] \in 0 .. 255  BY <1>1
  <2>4. f \in [1 .. n -> 0 .. 255]  BY <2>3
  <2>5. f \in Bytes /\ Len(f) = n  BY <2>2, <2>4, FunctionIsBytes
  <2>6. \A i \in offset + 1 .. end : i <= n /\ f[i] = bytes[i - offset]  BY <1>1
  <2>7. \A i \in 1 .. Len(file) : i \notin offset + 1 .. end => f[i] = file[i]
    BY <1>1
  <2>8. n = IF bytes = <<>> \/ end <= Len(file) THEN Len(file) ELSE end
    BY <1>1, <1>3
  <2> HIDE DEF f, n
  <2> QED  BY <2>1, <2>5, <2>6, <2>7, <2>8
<1> QED  BY <1>2, <1>3

(***************************************************************************)
(* A prefix is a sequence of bytes that is no longer.                      *)
(***************************************************************************)
LEMMA PrefixBytes ==
  ASSUME NEW bytes \in Bytes, NEW prefix \in Prefixes(bytes)
  PROVE  prefix \in Bytes /\ Len(prefix) <= Len(bytes)
<1>1. PICK n \in 0 .. Len(bytes) : prefix = SubSeq(bytes, 1, n)  BY DEF Prefixes
<1>2. Len(bytes) \in Nat /\ \A i \in 1 .. Len(bytes) : bytes[i] \in 0 .. 255
  BY LenProperties, ElementOfSeq DEF Bytes
<1>3. n \in Int /\ \A i \in 1 .. n : bytes[i] \in 0 .. 255  BY <1>2
<1>4. /\ SubSeq(bytes, 1, n) \in Seq(0 .. 255)
      /\ Len(SubSeq(bytes, 1, n)) = IF 1 <= n THEN n - 1 + 1 ELSE 0
  BY <1>3, SubSeqProperties
<1> QED  BY <1>1, <1>2, <1>4 DEF Bytes

(***************************************************************************)
(* A report is true of a file that has the reported bytes, and in which    *)
(* what was reported before of every other place is true.                  *)
(***************************************************************************)
LEMMA ToldHolds ==
  ASSUME NEW file, NEW offset \in Nat, NEW bytes \in Bytes, TypeOK,
         \A i \in offset + 1 .. offset + Len(bytes) :
           i <= Len(file) /\ file[i] = bytes[i - offset],
         \A i \in DOMAIN reported : i \notin offset + 1 .. offset + Len(bytes)
           => i <= Len(file) /\ file[i] = reported[i]
  PROVE  /\ Holds(file, Told(offset, bytes))
         /\ DOMAIN Told(offset, bytes) \subseteq Nat \ {0}
<1>1. Len(bytes) \in Nat  BY LenProperties DEF Bytes
<1> DEFINE places == offset + 1 .. offset + Len(bytes)
<1>2. places \subseteq Nat \ {0}  BY <1>1
<1> HIDE DEF places
<1>3. Told(offset, bytes) = [i \in places \cup DOMAIN reported |->
                               IF i \in places THEN bytes[i - offset] ELSE reported[i]]
  BY DEF Told, places
<1>4. /\ \A i \in places : i <= Len(file) /\ file[i] = bytes[i - offset]
      /\ \A i \in DOMAIN reported : i \notin places => i <= Len(file) /\ file[i] = reported[i]
  BY DEF places
<1> QED  BY <1>2, <1>3, <1>4 DEF Holds, TypeOK

(***************************************************************************)
(* While the stream is good, the client holds the truth of the content.    *)
(***************************************************************************)
LEMMA HoldsContent ==
  ASSUME IInv, stream = "good"
  PROVE  Holds(content, reported) /\ fileSize = Len(content)
BY DEF IInv, ReportsTrue, ReportedDone, View, NoObject, Holds, FileSizeExact

(***************************************************************************)
(* While there is no object, it holds the truth of the file.               *)
(***************************************************************************)
LEMMA HoldsDisk ==
  ASSUME IInv, NoObject, NEW file \in disk
  PROVE  Holds(file, reported)
BY DEF IInv, ReportsTrue, ReportedDone, View, NoObject, Holds


(***************************************************************************)
(* A client that has been told nothing holds nothing that could be false.  *)
(***************************************************************************)
LEMMA NothingTold == DOMAIN <<>> = {} /\ \A file : Holds(file, <<>>)
BY DEF Holds

(***************************************************************************)
(* The invariant, by the state that a step leaves the stream in.           *)
(***************************************************************************)
LEMMA Afterwards ==
  ASSUME TypeOK', AtMostOneFile', NothingHeld',
         stream' = "good" => fileSize' = Len(content') /\ Holds(content', reported'),
         stream' = "none" => \A file \in disk' : Holds(file, reported')
  PROVE  IInv'
BY DEF IInv, FileSizeExact, ReportsTrue, ReportedDone, View, NoObject, Holds

(***************************************************************************)
(* The invariant holds of a new file, and of none.                         *)
(***************************************************************************)
LEMMA InitEstablishes == Init => IInv
<1> SUFFICES ASSUME Init PROVE IInv  OBVIOUS
<1>1. <<>> \in Bytes /\ Len(<<>>) = 0  BY EmptySeq DEF Bytes
<1>2. TypeOK
  <2>1. \A bytes \in disk : bytes = <<>>  BY DEF Init
  <2>2. Len(<<>>) <= MAX_FILE_SIZE  BY <1>1, StorageAssumption
  <2>3. DOMAIN reported = {}  BY NothingTold DEF Init
  <2> QED  BY <1>1, <2>1, <2>2, <2>3 DEF Init, TypeOK, Bytes
<1>3. AtMostOneFile  BY DEF Init, AtMostOneFile
<1>4. \A file \in disk : Holds(file, reported)  BY NothingTold DEF Init
<1> QED
  BY <1>2, <1>3, <1>4 DEF Init, IInv, NothingHeld, FileSizeExact, ReportsTrue,
     ReportedDone, View, NoObject, Holds

(***************************************************************************)
(* A step that throws promises nothing, whatever it leaves of the file and *)
(* of the content.                                                         *)
(***************************************************************************)
LEMMA ThrowKeeps ==
  ASSUME Throw("KVSException") \/ Throw("filesystem_error"),
         AtMostOneFile',
         \A bytes \in disk' : bytes \in Bytes /\ Len(bytes) <= MAX_FILE_SIZE,
         stream' \in {"none", "good", "failed", "bad"},
         content' \in Bytes, Len(content') <= MAX_FILE_SIZE, fileSize' \in Nat,
         stream' = "good" => fileSize' = Len(content')
  PROVE  IInv'
<1>1. status' \in {"KVSException", "filesystem_error"} /\ reported' = <<>>
  BY DEF Throw
<1>2. DOMAIN reported' = {}  BY <1>1, NothingTold
<1>3. TypeOK'  BY <1>1, <1>2 DEF TypeOK, Bytes
<1>4. NothingHeld'  BY <1>2 DEF NothingHeld
<1>5. \A file : Holds(file, reported')  BY <1>1, NothingTold
<1> QED  BY <1>3, <1>4, <1>5, Afterwards

(***************************************************************************)
(* The same of a step that throws and touches no more than the file.       *)
(***************************************************************************)
LEMMA ThrowAndLeaveKeeps ==
  ASSUME IInv, Throw("KVSException") \/ Throw("filesystem_error"),
         AtMostOneFile',
         \A bytes \in disk' : bytes \in Bytes /\ Len(bytes) <= MAX_FILE_SIZE,
         stream' \in {stream, "failed"}, content' = content, fileSize' = fileSize
  PROVE  IInv'
BY ThrowKeeps DEF IInv, TypeOK, Bytes, FileSizeExact

(***************************************************************************)
(* A read of a file as a whole tells the client what is in it.             *)
(***************************************************************************)
LEMMA ReadFileKeeps == ASSUME IInv, ReadFile PROVE IInv'
<1>1. /\ NoObject
      /\ UNCHANGED <<disk, stream, content, fileSize>>
  BY DEF ReadFile
<1>2. TypeOK /\ AtMostOneFile  BY DEF IInv
<1>3. AtMostOneFile'  BY <1>1, <1>2 DEF AtMostOneFile
<1>4. \A bytes \in disk : bytes \in Bytes /\ Len(bytes) <= MAX_FILE_SIZE
  BY <1>2 DEF TypeOK, Bytes
<1>5. CASE \E bytes \in disk : Report(0, bytes)
  <2>1. PICK bytes \in disk : Report(0, bytes)  BY <1>5
  <2>2. bytes \in Bytes /\ Len(bytes) \in Nat  BY <1>4, LenProperties DEF Bytes
  <2>3. Holds(bytes, reported)  BY <1>1, HoldsDisk
  <2>4. Holds(bytes, reported') /\ DOMAIN reported' \subseteq Nat \ {0}
    <3>1. \A i \in 0 + 1 .. 0 + Len(bytes) : i <= Len(bytes) /\ bytes[i] = bytes[i - 0]
      BY <2>2
    <3>2. \A i \in DOMAIN reported : i <= Len(bytes) /\ bytes[i] = reported[i]
      BY <2>3 DEF Holds
    <3>3. reported' = Told(0, bytes)  BY <2>1 DEF Report
    <3> QED  BY <1>2, <2>2, <3>1, <3>2, <3>3, ToldHolds
  <2>5. \A file \in disk' : Holds(file, reported')
    BY <1>1, <1>2, <2>4 DEF AtMostOneFile
  <2>6. TypeOK' /\ NothingHeld'
    BY <1>1, <1>2, <2>1, <2>4 DEF TypeOK, NothingHeld, Report
  <2> QED  BY <1>1, <1>3, <2>5, <2>6, Afterwards DEF NoObject
<1>6. CASE Throw("KVSException")
  BY <1>1, <1>3, <1>4, <1>6, ThrowAndLeaveKeeps
<1> QED  BY <1>5, <1>6 DEF ReadFile

(***************************************************************************)
(* A file that is written as a whole is what its client has been told.     *)
(***************************************************************************)
LEMMA WriteFileKeeps ==
  ASSUME IInv, NEW bytes \in Payload, WriteFile(bytes) PROVE IInv'
<1>1. /\ NoObject /\ Len(bytes) <= MAX_FILE_SIZE
      /\ UNCHANGED <<stream, content, fileSize>>
  BY DEF WriteFile
<1>2. bytes \in Bytes  BY StorageAssumption DEF Bytes
<1>3. Len(bytes) \in Nat /\ DOMAIN bytes = 1 .. Len(bytes)
  BY <1>2, LenProperties DEF Bytes
<1>4. TypeOK /\ AtMostOneFile  BY DEF IInv
<1>5. CASE disk' = {bytes} /\ status' = "ok" /\ reported' = bytes
  <2>1. TypeOK'  BY <1>1, <1>2, <1>3, <1>4, <1>5 DEF TypeOK, Bytes
  <2>2. AtMostOneFile' /\ NothingHeld'  BY <1>5 DEF AtMostOneFile, NothingHeld
  <2>3. \A file \in disk' : Holds(file, reported')  BY <1>3, <1>5 DEF Holds
  <2> QED  BY <1>1, <2>1, <2>2, <2>3, Afterwards DEF NoObject
<1>6. CASE /\ Throw("KVSException")
           /\ \/ UNCHANGED disk
              \/ \E written \in Prefixes(bytes) : disk' = {written}
  <2>1. AtMostOneFile'  BY <1>4, <1>6 DEF AtMostOneFile
  <2>2. \A written \in Prefixes(bytes) : written \in Bytes /\ Len(written) <= MAX_FILE_SIZE
    <3>1. TAKE written \in Prefixes(bytes)
    <3>2. written \in Bytes /\ Len(written) <= Len(bytes)  BY <1>2, PrefixBytes
    <3>3. Len(written) \in Nat  BY <3>2, LenProperties DEF Bytes
    <3> QED  BY <1>1, <1>3, <3>2, <3>3, StorageAssumption
  <2>3. \A file \in disk' : file \in Bytes /\ Len(file) <= MAX_FILE_SIZE
    BY <1>4, <1>6, <2>2 DEF TypeOK, Bytes
  <2> QED  BY <1>1, <1>6, <2>1, <2>3, ThrowAndLeaveKeeps
<1> QED  BY <1>5, <1>6 DEF WriteFile

(***************************************************************************)
(* The size that the object counts starts as that of the file.             *)
(***************************************************************************)
LEMMA OpenKeeps == ASSUME IInv, Open \/ OpenFails PROVE IInv'
<1>1. TypeOK /\ AtMostOneFile  BY DEF IInv
<1>2. NoObject /\ UNCHANGED disk  BY DEF Open, OpenFails
<1>3. AtMostOneFile'  BY <1>1, <1>2 DEF AtMostOneFile
<1>4. CASE Open
  <2>1. PICK bytes \in disk : stream' = "good" /\ content' = bytes /\ fileSize' = Len(bytes)
    BY <1>4 DEF Open
  <2>2. bytes \in Bytes /\ Len(bytes) <= MAX_FILE_SIZE  BY <1>1 DEF TypeOK, Bytes
  <2>3. Len(bytes) \in Nat  BY <2>2, LenProperties DEF Bytes
  <2>4. status' = "ok" /\ UNCHANGED reported  BY <1>4 DEF Open
  <2>5. Holds(bytes, reported)  BY <1>2, HoldsDisk
  <2>6. TypeOK' /\ NothingHeld'
    BY <1>1, <1>2, <2>1, <2>2, <2>3, <2>4 DEF TypeOK, NothingHeld, Bytes
  <2>7. Holds(content', reported')  BY <2>1, <2>4, <2>5
  <2> QED  BY <1>3, <2>1, <2>6, <2>7, Afterwards
<1>5. CASE OpenFails
  <2>1. Throw("KVSException") \/ Throw("filesystem_error")  BY <1>5 DEF OpenFails
  <2>2. UNCHANGED <<stream, content, fileSize>>  BY <1>5 DEF OpenFails
  <2>3. \A bytes \in disk' : bytes \in Bytes /\ Len(bytes) <= MAX_FILE_SIZE
    BY <1>1, <1>2 DEF TypeOK, Bytes
  <2> QED  BY <1>3, <2>1, <2>2, <2>3, ThrowAndLeaveKeeps
<1> QED  BY <1>4, <1>5


(***************************************************************************)
(* A report of any bytes is of places in a file.                           *)
(***************************************************************************)
LEMMA ToldPlaces ==
  ASSUME TypeOK, NEW offset \in Nat, NEW bytes \in Bytes
  PROVE  DOMAIN Told(offset, bytes) \subseteq Nat \ {0}
<1>1. Len(bytes) \in Nat  BY LenProperties DEF Bytes
<1>2. offset + 1 .. offset + Len(bytes) \subseteq Nat \ {0}  BY <1>1
<1> QED  BY <1>2 DEF Told, TypeOK

(***************************************************************************)
(* What is read is what the content has at the places asked for.           *)
(***************************************************************************)
LEMMA ReadKeeps ==
  ASSUME IInv, NEW offset \in Nat, NEW length \in Nat, Read(offset, length)
  PROVE  IInv'
<1>1. TypeOK /\ AtMostOneFile  BY DEF IInv
<1>2. UNCHANGED <<disk, content, fileSize>>  BY DEF Read
<1>3. AtMostOneFile'  BY <1>1, <1>2 DEF AtMostOneFile
<1>4. CASE /\ stream = "good"
           /\ length = 0 \/ offset + length <= Len(content)
           /\ Report(offset, SubSeq(content, offset + 1, offset + length))
           /\ UNCHANGED stream
  <2> DEFINE bytes == SubSeq(content, offset + 1, offset + length)
  <2>1. content \in Bytes /\ Len(content) \in Nat
    BY <1>1, LenProperties DEF TypeOK, Bytes
  <2>2. \A i \in offset + 1 .. offset + length : i <= Len(content) /\ content[i] \in 0 .. 255
    <3>1. TAKE i \in offset + 1 .. offset + length
    <3>2. i \in 1 .. Len(content)  BY <1>4, <2>1, <3>1
    <3> QED  BY <2>1, <3>2, ElementOfSeq DEF Bytes
  <2>3. /\ bytes \in Seq(0 .. 255)
        /\ Len(bytes) = IF offset + 1 <= offset + length
                          THEN offset + length - (offset + 1) + 1 ELSE 0
        /\ \A i \in 1 .. offset + length - (offset + 1) + 1 : bytes[i] = content[offset + 1 + i - 1]
    <3>1. offset + 1 \in Int /\ offset + length \in Int  OBVIOUS
    <3> QED  BY <2>2, <3>1, SubSeqProperties
  <2>4. Len(bytes) = length  BY <2>3
  <2>5. \A i \in offset + 1 .. offset + Len(bytes) :
          i <= Len(content) /\ content[i] = bytes[i - offset]
    <3>1. TAKE i \in offset + 1 .. offset + Len(bytes)
    <3>2. i - offset \in 1 .. offset + length - (offset + 1) + 1  BY <2>4, <3>1
    <3>3. bytes[i - offset] = content[offset + 1 + (i - offset) - 1]  BY <2>3, <3>2
    <3>4. offset + 1 + (i - offset) - 1 = i  BY <3>1, <2>4
    <3> QED  BY <2>2, <2>4, <3>1, <3>3, <3>4
  <2>6. Holds(content, reported)  BY <1>4, HoldsContent
  <2>7. reported' = Told(offset, bytes) /\ status' = "ok"  BY <1>4 DEF Report
  <2> HIDE DEF bytes
  <2>8. Holds(content, reported') /\ DOMAIN reported' \subseteq Nat \ {0}
    <3>1. bytes \in Bytes  BY <2>3 DEF Bytes
    <3>2. \A i \in DOMAIN reported : i <= Len(content) /\ content[i] = reported[i]
      BY <2>6 DEF Holds
    <3> QED  BY <1>1, <2>5, <2>7, <3>1, <3>2, ToldHolds
  <2>9. TypeOK' /\ NothingHeld'
    BY <1>1, <1>2, <1>4, <2>7, <2>8 DEF TypeOK, NothingHeld
  <2>10. fileSize' = Len(content')  BY <1>2, <1>4, HoldsContent
  <2> QED  BY <1>2, <1>3, <1>4, <2>8, <2>9, <2>10, Afterwards
<1>5. CASE Throw("KVSException") /\ stream' \in {stream, "failed"}
  <2>1. \A bytes \in disk' : bytes \in Bytes /\ Len(bytes) <= MAX_FILE_SIZE
    BY <1>1, <1>2 DEF TypeOK, Bytes
  <2> QED  BY <1>2, <1>3, <1>5, <2>1, ThrowAndLeaveKeeps
<1> QED  BY <1>4, <1>5 DEF Read

(***************************************************************************)
(* An output operation whose report names the place that it writes to,     *)
(* and which leaves the size that the object counts right.                 *)
(***************************************************************************)
LEMMA OutputKeeps ==
  ASSUME IInv, NEW place \in Nat, NEW offset \in Nat, NEW bytes \in Bytes,
         ~NoObject, UNCHANGED disk,
         Output(place, bytes), ReportIfOk(offset, bytes), fileSize' \in Nat,
         stream = "good" => place = offset /\ offset + Len(bytes) <= MAX_FILE_SIZE,
         stream = "good" /\ status' = "ok"
           => fileSize' = Len(Written(content, offset, bytes))
  PROVE  IInv'
<1>1. TypeOK /\ AtMostOneFile  BY DEF IInv
<1>2. AtMostOneFile'  BY <1>1 DEF AtMostOneFile
<1>3. \A file \in disk' : file \in Bytes /\ Len(file) <= MAX_FILE_SIZE
  BY <1>1 DEF TypeOK, Bytes
<1>4. /\ content \in Bytes /\ Len(content) \in Nat /\ Len(content) <= MAX_FILE_SIZE
      /\ Len(bytes) \in Nat /\ MAX_FILE_SIZE \in Nat
  BY <1>1, LenProperties, StorageAssumption DEF TypeOK, Bytes
<1>5. stream \in {"good", "failed", "bad"}  BY <1>1 DEF TypeOK, NoObject
<1>6. CASE stream = "good" /\ content' = Written(content, place, bytes)
           /\ status' = "ok" /\ UNCHANGED stream
  <2> DEFINE end == offset + Len(bytes)
             places == offset + 1 .. end
  <2>1. place = offset /\ end <= MAX_FILE_SIZE  BY <1>6
  <2>2. /\ content' \in Bytes
        /\ Len(content') = IF bytes = <<>> \/ end <= Len(content) THEN Len(content) ELSE end
        /\ \A i \in places : i <= Len(content') /\ content'[i] = bytes[i - offset]
        /\ \A i \in 1 .. Len(content) : i \notin places => content'[i] = content[i]
    BY <1>4, <1>6, <2>1, WrittenBytes
  <2>3. Len(content') <= MAX_FILE_SIZE /\ Len(content) <= Len(content')
    BY <1>4, <2>1, <2>2
  <2>4. reported' = Told(offset, bytes)  BY <1>6 DEF ReportIfOk
  <2>5. Holds(content, reported)  BY <1>6, HoldsContent
  <2>6. \A i \in DOMAIN reported : i \in Nat \ {0} /\ i <= Len(content) /\ content[i] = reported[i]
    BY <1>1, <2>5 DEF TypeOK, Holds
  <2>7. \A i \in DOMAIN reported : i \notin places
          => i <= Len(content') /\ content'[i] = reported[i]
    <3> HIDE DEF places
    <3>1. Len(content') \in Nat  BY <1>4, <2>2
    <3> QED  BY <1>4, <2>2, <2>3, <2>6, <3>1
  <2>8. Holds(content', reported') /\ DOMAIN reported' \subseteq Nat \ {0}
    BY <1>1, <2>2, <2>4, <2>7, ToldHolds
  <2>9. TypeOK' /\ NothingHeld'
    BY <1>1, <1>3, <1>6, <2>2, <2>3, <2>8 DEF TypeOK, NothingHeld, Bytes
  <2>10. fileSize' = Len(content')  BY <1>6, <2>1
  <2> QED  BY <1>2, <1>5, <1>6, <2>8, <2>9, <2>10, Afterwards
<1>7. CASE stream = "failed" /\ status' = "ok" /\ UNCHANGED <<content, stream>>
  <2>1. DOMAIN reported' \subseteq Nat \ {0}
    BY <1>1, <1>7, ToldPlaces DEF ReportIfOk
  <2>2. TypeOK' /\ NothingHeld'
    BY <1>1, <1>7, <2>1 DEF TypeOK, NothingHeld
  <2> QED  BY <1>2, <1>7, <2>2, Afterwards
<1>8. CASE /\ stream = "good" /\ stream' = "bad" /\ status' = "KVSException"
           /\ \E written \in Prefixes(bytes) : content' = Written(content, place, written)
  <2>1. PICK written \in Prefixes(bytes) : content' = Written(content, place, written)
    BY <1>8
  <2>2. written \in Bytes /\ Len(written) <= Len(bytes) /\ Len(written) \in Nat
    BY PrefixBytes, LenProperties DEF Bytes
  <2>3. /\ content' \in Bytes
        /\ Len(content') = IF written = <<>> \/ place + Len(written) <= Len(content)
                             THEN Len(content) ELSE place + Len(written)
    BY <1>4, <2>1, <2>2, WrittenBytes
  <2>4. Len(content') <= MAX_FILE_SIZE  BY <1>4, <1>8, <2>2, <2>3
  <2>5. Throw("KVSException")  BY <1>8 DEF ReportIfOk, Throw
  <2> QED  BY <1>2, <1>3, <1>8, <2>3, <2>4, <2>5, ThrowKeeps
<1>9. CASE stream \in {"failed", "bad"} /\ status' = "KVSException" /\ UNCHANGED <<content, stream>>
  <2>1. Throw("KVSException")  BY <1>9 DEF ReportIfOk, Throw
  <2> QED  BY <1>2, <1>3, <1>4, <1>9, <2>1, ThrowKeeps
<1> QED  BY <1>6, <1>7, <1>8, <1>9 DEF Output


(***************************************************************************)
(* A write counts the end of its bytes if that is behind the file's.  One  *)
(* of no bytes behind the end would count what is not there: no client     *)
(* asks for it.                                                            *)
(***************************************************************************)
LEMMA WriteKeeps ==
  ASSUME IInv, NEW bytes \in Payload, NEW offset \in Offset,
         bytes # <<>> \/ offset <= Len(content), Write(offset, bytes)
  PROVE  IInv'
<1> DEFINE end == offset + Len(bytes)
<1>1. /\ ~NoObject /\ end <= MAX_FILE_SIZE /\ UNCHANGED disk
      /\ Output(offset, bytes) /\ ReportIfOk(offset, bytes)
      /\ fileSize' = IF status' = "ok" /\ end > fileSize THEN end ELSE fileSize
  BY DEF Write
<1>2. bytes \in Bytes /\ offset \in Nat /\ Len(bytes) \in Nat
  BY StorageAssumption, LenProperties DEF Bytes
<1>3. content \in Bytes /\ Len(content) \in Nat /\ fileSize \in Nat
  BY LenProperties DEF IInv, TypeOK, Bytes
<1>4. fileSize' \in Nat  BY <1>1, <1>2, <1>3
<1>5. stream = "good" /\ status' = "ok" => fileSize' = Len(Written(content, offset, bytes))
  <2> SUFFICES ASSUME stream = "good", status' = "ok"
               PROVE  fileSize' = Len(Written(content, offset, bytes))
    OBVIOUS
  <2>1. fileSize = Len(content)  BY HoldsContent
  <2>2. Len(Written(content, offset, bytes)) =
          IF bytes = <<>> \/ end <= Len(content) THEN Len(content) ELSE end
    BY <1>2, <1>3, WrittenBytes
  <2>3. bytes = <<>> => Len(bytes) = 0  BY EmptySeq
  <2> QED  BY <1>1, <1>2, <1>3, <2>1, <2>2, <2>3
<1> QED  BY <1>1, <1>2, <1>4, <1>5, OutputKeeps

(***************************************************************************)
(* An append writes behind the end of the file: that it reports the size   *)
(* that the object counts as its place is true because that size is exact. *)
(***************************************************************************)
LEMMA AppendBytesKeeps ==
  ASSUME IInv, NEW bytes \in Payload, AppendBytes(bytes)
  PROVE  IInv'
<1>1. /\ ~NoObject /\ fileSize + Len(bytes) <= MAX_FILE_SIZE /\ UNCHANGED disk
      /\ Output(Len(content), bytes) /\ ReportIfOk(fileSize, bytes)
      /\ fileSize' = IF status' = "ok" THEN fileSize + Len(bytes) ELSE fileSize
  BY DEF AppendBytes
<1>2. bytes \in Bytes /\ Len(bytes) \in Nat
  BY StorageAssumption, LenProperties DEF Bytes
<1>3. content \in Bytes /\ Len(content) \in Nat /\ fileSize \in Nat
  BY LenProperties DEF IInv, TypeOK, Bytes
<1>4. fileSize' \in Nat  BY <1>1, <1>2, <1>3
<1>5. stream = "good" => Len(content) = fileSize  BY HoldsContent
<1>6. stream = "good" /\ status' = "ok" => fileSize' = Len(Written(content, fileSize, bytes))
  <2>1. Len(Written(content, fileSize, bytes)) =
          IF bytes = <<>> \/ fileSize + Len(bytes) <= Len(content)
            THEN Len(content) ELSE fileSize + Len(bytes)
    BY <1>2, <1>3, WrittenBytes
  <2>2. bytes = <<>> => Len(bytes) = 0  BY EmptySeq
  <2> QED  BY <1>1, <1>2, <1>3, <1>5, <2>1, <2>2
<1> QED  BY <1>1, <1>2, <1>3, <1>4, <1>5, <1>6, OutputKeeps

(***************************************************************************)
(* What a failed flush leaves is the old file or the beginning of the new  *)
(* one.                                                                    *)
(***************************************************************************)
LEMMA FlushedBytes ==
  ASSUME IInv, NEW file \in disk, NEW flushed \in Flushed(file)
  PROVE  flushed \in Bytes /\ Len(flushed) <= MAX_FILE_SIZE
<1>1. /\ file \in Bytes /\ Len(file) <= MAX_FILE_SIZE
      /\ content \in Bytes /\ Len(content) <= MAX_FILE_SIZE
  BY DEF IInv, TypeOK, Bytes
<1>2. CASE flushed = file  BY <1>1, <1>2
<1>3. CASE flushed \in Prefixes(content)
  <2>1. flushed \in Bytes /\ Len(flushed) <= Len(content)
    BY <1>1, <1>3, PrefixBytes
  <2>2. Len(flushed) \in Nat /\ Len(content) \in Nat /\ MAX_FILE_SIZE \in Nat
    BY <1>1, <2>1, LenProperties, StorageAssumption DEF Bytes
  <2> QED  BY <1>1, <2>1, <2>2
<1> QED  BY <1>2, <1>3 DEF Flushed

(***************************************************************************)
(* A close that returns leaves the content in the file; the client of a    *)
(* stream that had failed relies on nothing.  So does the one whose object *)
(* is destroyed after an operation of it threw.                            *)
(***************************************************************************)
LEMMA CloseKeeps == ASSUME IInv, Close \/ Destroy PROVE IInv'
<1>1. /\ ~NoObject /\ stream' = "none" /\ content' = <<>> /\ fileSize' = 0
  BY DEF Close, Destroy
<1>2. TypeOK  BY DEF IInv
<1>3. content \in Bytes /\ Len(content) <= MAX_FILE_SIZE /\ MAX_FILE_SIZE \in Nat
  BY <1>2, StorageAssumption DEF TypeOK, Bytes
<1>4. content' \in Bytes /\ Len(content') <= MAX_FILE_SIZE
  BY <1>1, <1>3, EmptySeq DEF Bytes
<1>5. CASE disk' = {content}
           \/ \E file \in disk : \E flushed \in Flushed(file) : disk' = {flushed}
  <2>1. AtMostOneFile'  BY <1>5 DEF AtMostOneFile
  <2>2. \A bytes \in disk' : bytes \in Bytes /\ Len(bytes) <= MAX_FILE_SIZE
    BY <1>3, <1>5, FlushedBytes
  <2>3. CASE Throw("KVSException")
    BY <1>1, <1>4, <2>1, <2>2, <2>3, ThrowKeeps
  <2>4. CASE /\ disk' = {content} /\ status' = "ok"
             /\ reported' = IF stream = "good" THEN reported ELSE <<>>
    <3>1. stream = "good" => Holds(content, reported)  BY HoldsContent
    <3>2. \A file \in disk' : Holds(file, reported')  BY <2>4, <3>1, NothingTold
    <3>3. DOMAIN reported' \subseteq Nat \ {0}  BY <1>2, <2>4, NothingTold DEF TypeOK
    <3>4. TypeOK'  BY <1>1, <1>4, <2>2, <2>4, <3>3 DEF TypeOK, Bytes
    <3>5. NothingHeld'  BY <2>4 DEF NothingHeld
    <3> QED  BY <1>1, <2>1, <3>2, <3>4, <3>5, Afterwards
  <2>5. CASE Destroy
    <3>1. DOMAIN reported = {}  BY <2>5 DEF Destroy, IInv, NothingHeld
    <3>2. UNCHANGED <<status, reported>>  BY <2>5 DEF Destroy
    <3>3. \A file \in disk' : Holds(file, reported')  BY <3>1, <3>2 DEF Holds
    <3>4. TypeOK'  BY <1>1, <1>2, <1>4, <2>2, <3>2 DEF TypeOK, Bytes
    <3>5. NothingHeld'  BY <3>1, <3>2 DEF NothingHeld
    <3> QED  BY <1>1, <2>1, <3>3, <3>4, <3>5, Afterwards
  <2> QED  BY <2>3, <2>4, <2>5 DEF Close
<1> QED  BY <1>5 DEF Close, Destroy

(***************************************************************************)
(* Every step keeps the invariant.                                         *)
(***************************************************************************)
LEMMA NextKeeps == IInv /\ [Next]_vars => IInv'
<1> SUFFICES ASSUME IInv, [Next]_vars PROVE IInv'  OBVIOUS
<1>1. CASE UNCHANGED vars
  BY <1>1 DEF vars, IInv, TypeOK, AtMostOneFile, NothingHeld, FileSizeExact,
     ReportsTrue, ReportedDone, View, NoObject
<1>2. CASE ReadFile \/ Open \/ OpenFails \/ Close \/ Destroy
  BY <1>2, ReadFileKeeps, OpenKeeps, CloseKeeps
<1>3. CASE \E bytes \in Payload : WriteFile(bytes) \/ AppendBytes(bytes)
  BY <1>3, WriteFileKeeps, AppendBytesKeeps
<1>4. CASE \E bytes \in Payload, offset \in Offset :
             (bytes # <<>> \/ offset <= Len(content)) /\ Write(offset, bytes)
  BY <1>4, WriteKeeps
<1>5. CASE \E bytes \in Payload, offset \in Offset : Read(offset, Len(bytes))
  <2>1. PICK bytes \in Payload, offset \in Offset : Read(offset, Len(bytes))  BY <1>5
  <2>2. Len(bytes) \in Nat /\ offset \in Nat  BY StorageAssumption, LenProperties
  <2> QED  BY <2>1, <2>2, ReadKeeps
<1> QED  BY <1>1, <1>2, <1>3, <1>4, <1>5 DEF Next

(***************************************************************************)
(* The invariant holds in every state that the file and its object reach.  *)
(***************************************************************************)
LEMMA Invariant == Spec => []IInv
BY InitEstablishes, NextKeeps, PTL DEF Spec

-----------------------------------------------------------------------------
(***************************************************************************)
(* The file, the content and the counters keep their types, and no         *)
(* operation makes the file longer than the bound of its guard.            *)
(***************************************************************************)
THEOREM StorageTypeCorrect == Spec => []TypeOK
<1>1. IInv => TypeOK  BY DEF IInv
<1> QED  BY <1>1, Invariant, PTL

(***************************************************************************)
(* Everything that the client of a stream that has not failed was told of  *)
(* the file is true, and stays so until it is overwritten: over closing,   *)
(* opening, and failures that an operation reports.                        *)
(***************************************************************************)
THEOREM ClientIsToldTheTruth == Spec => []ReportsTrue
<1>1. IInv => ReportsTrue  BY DEF IInv
<1> QED  BY <1>1, Invariant, PTL

(***************************************************************************)
(* The offset that append returns is the size of the file.                 *)
(***************************************************************************)
THEOREM CountedSizeIsExact == Spec => []FileSizeExact
<1>1. IInv => FileSizeExact  BY DEF IInv
<1> QED  BY <1>1, Invariant, PTL
=============================================================================
