------------------------------ MODULE Transfer ------------------------------
(***************************************************************************)
(* How the bytes of one file are read piece by piece: the body of a range  *)
(* response (video_stream_service.py) and a streamed copy into a bucket    *)
(* (read_file_streaming feeding the multipart write_file_streaming of      *)
(* s3_handler.py).  The size of the file is read once, at the start; the   *)
(* file may be replaced or removed before the last piece.                  *)
(*                                                                         *)
(* A byte is its position in the file.  Every read is one await, so every  *)
(* read is one step.                                                       *)
(***************************************************************************)
EXTENDS Integers, SequencesExt

CONSTANTS Requests,    \* HTTP requests and copies
          Sizes,       \* sizes the file may have
          Bounds,      \* numbers a Range header may carry
          Chunk,       \* bytes asked for in one read
          MinPart,     \* the smallest part of an upload, except the last
          MaxChanges,  \* how often the file is replaced or removed
          None

ASSUME TransferAssumption ==
    /\ Sizes \subseteq Nat /\ Bounds \subseteq Nat /\ None \notin Nat
    /\ Chunk \in Nat \ {0} /\ MinPart \in Nat \ {0} /\ MaxChanges \in Nat

VARIABLES size,     \* of the file, None where there is none
          changes,  \* how often that has changed
          xfer      \* per request, the locals of its generators

transferVars == <<size, changes, xfer>>

Ranges == [first : Bounds \cup {None}, last : Bounds \cup {None}]

Whole == [first |-> None, last |-> None]    \* no Range header, or "bytes=-"

(* The locals of a transfer that starts; "asked" and "stale" are kept for  *)
(* the properties.                                                         *)
NewTransfer(state, asked, at, until) ==
    [state |-> state, at |-> at, until |-> until, buffer |-> 0, bytes |-> <<>>,
     asked |-> asked, stale |-> FALSE]

NoTransfer == NewTransfer("none", {}, 0, 0)

Sending == {r \in Requests : xfer[r].state = "sending"}
Copying == {r \in Requests : xfer[r].state \in {"opening", "copying", "completing"}}

FirstByte(range) == IF range.first = None THEN 0 ELSE range.first

LastByte(range) == IF range.last = None THEN size - 1 ELSE range.last

(* Bug: the last byte does not count. *)
Length_Exclusive(range) == LastByte(range) - FirstByte(range)

(* The number of bytes a response promises, its Content-Length. *)
Length(range) == LastByte(range) - FirstByte(range) + 1

\* the bytes of the file a header names
Named(range) ==
    {b \in 0 .. size - 1 : /\ range.first # None => b >= range.first
                           /\ range.last # None => b <= range.last}

OutOfScope(range) == FirstByte(range) >= size \/ LastByte(range) >= size

Lesser(a, b) == IF a < b THEN a ELSE b

(* What a read of some bytes from a position on returns. *)
Got(at, length) == Lesser(length, size - at)

TransferInit ==
    /\ size \in Sizes
    /\ changes = 0
    /\ xfer = [r \in Requests |-> NoTransfer]

(* The file is overwritten or removed, by a migration or by a user.  A     *)
(* change that no transfer can see is left out.                            *)
ChangeFile ==
    /\ changes < MaxChanges
    /\ Sending \cup Copying # {}
    /\ size' \in Sizes \cup {None}
    /\ changes' = changes + 1
    /\ xfer' = [r \in Requests |->
                  [xfer[r] EXCEPT !.stale = @ \/ r \in Sending \cup Copying]]

(* A request for the file or for a range of it.  No end means the last     *)
(* byte, no beginning means byte 0, also of "bytes=-n".  Of an empty file  *)
(* every range is out of scope, and the whole is not without a header.     *)
AskRange(r) ==
    /\ xfer[r].state = "none"
    /\ \E range \in Ranges :
         \/ /\ size # None => OutOfScope(range)
            /\ xfer' = [xfer EXCEPT ![r] = NewTransfer("refused", {}, 0, 0)]
         \/ /\ size # None /\ (range = Whole \/ ~OutOfScope(range))
            /\ xfer' = [xfer EXCEPT ![r] =
                 NewTransfer("sending", Named(range), FirstByte(range),
                             FirstByte(range) + Length(range))]
    /\ UNCHANGED <<size, changes>>

(* Nothing is left to read, or an empty read ended the body early, as a    *)
(* disk does past the end of a file.                                       *)
EndRange(r) ==
    /\ xfer[r].state = "sending"
    /\ \/ xfer[r].at >= xfer[r].until
       \/ size # None /\ xfer[r].at >= size
    /\ xfer' = [xfer EXCEPT ![r].state = "ended"]
    /\ UNCHANGED <<size, changes>>

SendChunk(r) ==
    LET x == xfer[r]
        got == Got(x.at, Lesser(Chunk, x.until - x.at)) IN
    /\ x.state = "sending" /\ x.at < x.until
    /\ size # None /\ x.at < size
    /\ xfer' = [xfer EXCEPT ![r].at = x.at + got,
                            ![r].bytes = x.bytes \o [i \in 1 .. got |-> x.at + i - 1]]
    /\ UNCHANGED <<size, changes>>

(* The client leaves, the file is gone, or a bucket refuses the range.     *)
BreakRange(r) ==
    /\ xfer[r].state = "sending"
    /\ xfer' = [xfer EXCEPT ![r].state = "broken"]
    /\ UNCHANGED <<size, changes>>

-----------------------------------------------------------------------------
(* A copy into a bucket.  "bytes" holds the sizes of the parts uploaded.   *)

OpenUpload(r) ==
    /\ xfer[r].state = "none"
    /\ xfer' = [xfer EXCEPT ![r] = NewTransfer("opening", {}, 0, 0)]
    /\ UNCHANGED <<size, changes>>

(* The reader's first step: the size it reads up to. *)
StartReading(r) ==
    /\ xfer[r].state = "opening" /\ size # None
    /\ xfer' = [xfer EXCEPT ![r].state = "copying", ![r].until = size, ![r].stale = FALSE]
    /\ UNCHANGED <<size, changes>>

(* Bug: the last byte of what is left is never asked for. *)
ReadChunk_OneShort(r) ==
    LET x == xfer[r] IN
    /\ x.state = "copying" /\ x.at < x.until /\ x.buffer < MinPart
    /\ size # None /\ x.at < size
    /\ LET got == Got(x.at, Lesser(Chunk, x.until - x.at - 1)) IN
       xfer' = [xfer EXCEPT ![r].at = x.at + got, ![r].buffer = x.buffer + got]
    /\ UNCHANGED <<size, changes>>

(* A read past the end of a file that has shrunk returns nothing from a    *)
(* disk: the reader yields an empty chunk and reads again, without end.    *)
ReadChunk(r) ==
    LET x == xfer[r] IN
    /\ x.state = "copying" /\ x.at < x.until /\ x.buffer < MinPart
    /\ size # None /\ x.at < size
    /\ LET got == Got(x.at, Lesser(Chunk, x.until - x.at)) IN
       xfer' = [xfer EXCEPT ![r].at = x.at + got, ![r].buffer = x.buffer + got]
    /\ UNCHANGED <<size, changes>>

UploadPart(r) ==
    /\ xfer[r].state = "copying" /\ xfer[r].buffer >= MinPart
    /\ xfer' = [xfer EXCEPT ![r].buffer = @ - MinPart, ![r].bytes = Append(@, MinPart)]
    /\ UNCHANGED <<size, changes>>

(* Bug: an empty file is uploaded in no part at all. *)
NeedsLastPart_IfAny(x) == x.buffer > 0

(* Whether the last part has to be sent: what is left, or an empty part    *)
(* for an empty file.                                                      *)
NeedsLastPart(x) == x.buffer > 0 \/ x.bytes = <<>>

UploadLast(r) ==
    LET x == xfer[r] IN
    /\ x.state = "copying" /\ x.at >= x.until /\ x.buffer < MinPart
    /\ xfer' = [xfer EXCEPT ![r].state = "completing", ![r].buffer = 0,
                  ![r].bytes = IF NeedsLastPart(x) THEN Append(@, x.buffer) ELSE @]
    /\ UNCHANGED <<size, changes>>

CompleteUpload(r) ==
    /\ xfer[r].state = "completing"
    /\ xfer' = [xfer EXCEPT ![r].state = "completed"]
    /\ UNCHANGED <<size, changes>>

(* A call that raises aborts the upload; the abort may raise as well.      *)
(* Cancelling, which is no Exception, skips the abort and leaves the parts *)
(* sent so far in the bucket.                                              *)
FailUpload(r) ==
    /\ r \in Copying
    /\ \E end \in {"aborted", "lingering"} : xfer' = [xfer EXCEPT ![r].state = end]
    /\ UNCHANGED <<size, changes>>

CopyStep(r) ==
    StartReading(r) \/ ReadChunk(r) \/ UploadPart(r) \/ UploadLast(r) \/ CompleteUpload(r)

TransferStep(r) ==
    \/ AskRange(r) \/ SendChunk(r) \/ EndRange(r) \/ BreakRange(r)
    \/ OpenUpload(r) \/ CopyStep(r) \/ FailUpload(r)

-----------------------------------------------------------------------------
(* The bytes a response has sent are, in order and without a gap, the      *)
(* first ones of the range its header names, and all of them once the      *)
(* response ended over a file that nobody changed                          *)
(* (video_stream_service.py 62-91, 147-156).                               *)
RangeDelivered ==
    \A r \in Requests : LET x == xfer[r] IN
      x.state \in {"sending", "ended", "broken"} =>
        /\ ToSet(x.bytes) \subseteq x.asked
        /\ \A i \in 1 .. Len(x.bytes) - 1 : x.bytes[i + 1] = x.bytes[i] + 1
        /\ x.bytes # <<>> => \A b \in x.asked : b >= x.bytes[1]
        /\ x.state = "ended" /\ ~x.stale => ToSet(x.bytes) = x.asked

(* An upload that is completed has at least one part, every part but the   *)
(* last is as large as S3 asks for, and together they are all that was     *)
(* read, up to the size the file had when the reader asked                 *)
(* (s3_handler.py 286-328).                                                *)
PartsMakeFile ==
    \A r \in Requests : LET x == xfer[r] IN
      x.state = "completed" =>
        /\ x.bytes # <<>>
        /\ \A i \in 1 .. Len(x.bytes) - 1 : x.bytes[i] = MinPart
        /\ (Len(x.bytes) - 1) * MinPart + x.bytes[Len(x.bytes)] = x.at
        /\ x.at = x.until

(* Every copy ends, unless its source changes while it is read             *)
(* (base_resource_handler.py 183-187 waits for the size it read first).    *)
CopyEnds ==
    \A r \in Requests : r \in Copying ~> (r \notin Copying \/ xfer[r].stale \/ size = None)
=============================================================================
