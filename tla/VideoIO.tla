------------------------------- MODULE VideoIO -------------------------------
(***************************************************************************)
(* LerobotVideoIO, the files FFmpeg writes and reads through DuckDB        *)
(* (src/src/function/copy/lerobot_video_io.cpp).                           *)
(*                                                                         *)
(* FFmpeg is C: an exception of a callback is kept as the first error of   *)
(* the file and reported as EIO, and the code that drives FFmpeg throws it *)
(* afterwards.  Data lie in a buffer of FFmpeg until it calls the file     *)
(* system, at the latest when the handle is closed, where nothing can be   *)
(* thrown.                                                                 *)
(*                                                                         *)
(* The operators map the state of one LerobotVideoIO to the set of states  *)
(* an operation may leave it in.                                           *)
(***************************************************************************)
EXTENDS Integers, Sequences

CONSTANT Faults           \* file system calls may fail

ASSUME FaultsAssumption == Faults \in BOOLEAN

\* "main" is the handle of the file, "second" the one that faststart opens to read it again.
\* first is what a reader of the log would call the first error; the code has no such field.
NewIO == [error |-> "none", handles |-> {}, buffered |-> <<>>, written |-> <<>>,
          synced |-> 0, first |-> "none"]

Or(failures) == IF Faults THEN failures ELSE {}

\* Mutant: the last error is kept.
RecordLast(o, e) == [o EXCEPT !.error = e]

\* The first error is kept.
RecordError(o, e) == IF o.error = "none" THEN [o EXCEPT !.error = e] ELSE o

Fails(o, e) == RecordError([o EXCEPT !.first = IF @ = "none" THEN e ELSE @], e)

\* Check, the start of every callback, and ThrowIfError: the first error, or the interrupt.
Check(o, cancelled) ==
    IF o.error # "none" THEN o.error ELSE IF cancelled THEN "interrupted" ELSE "none"

\* FFmpeg takes data for the file.
Buffered(o, data) == [o EXCEPT !.buffered = Append(@, data)]

\* The Write callback, with what is in the buffer.  A short write is an error; FFmpeg drops what it could not write.
Write(o, cancelled) ==
    LET dropped == [o EXCEPT !.buffered = <<>>]
    IN IF o.buffered = <<>> THEN {o}
       ELSE IF Check(o, cancelled) # "none" THEN {Fails(dropped, Check(o, cancelled))}
       ELSE {[dropped EXCEPT !.written = @ \o o.buffered]} \cup Or({Fails(dropped, "write")})

\* The Read callback.
Read(o, cancelled) ==
    IF Check(o, cancelled) # "none" THEN {Fails(o, Check(o, cancelled))}
    ELSE {o} \cup Or({Fails(o, "read")})

\* The Seek callback.  A position that is no position is an error of FFmpeg's call, not of the file.
Seek(o, cancelled) ==
    IF Check(o, cancelled) # "none" THEN {Fails(o, Check(o, cancelled))}
    ELSE {o} \cup Or({Fails(o, "seek")})

\* OpenHandle: what it throws, or "none"; the new handle is registered.
OpenErrors(o, cancelled) ==
    IF Check(o, cancelled) # "none" THEN {Check(o, cancelled)} ELSE {"none"} \cup Or({"open"})
Opened(o, handle) == [o EXCEPT !.handles = @ \cup {handle}]

\* OpenCallback: the error is kept for the code that called FFmpeg.
OpenedByFFmpeg(o, cancelled) ==
    {IF e = "none" THEN Opened(o, "second") ELSE Fails(o, e) : e \in OpenErrors(o, cancelled)}

\* An error before the Sync makes the file worthless, and is not hidden by another one.
Sync(o) ==
    IF o.error # "none" THEN {o}
    ELSE {[o EXCEPT !.synced = Len(o.written)]} \cup Or({Fails(o, "sync")})

\* The destructor of a handle: flush and Sync what was written, then close the file.
\* Whatever fails is recorded.
CloseHandle(o, handle, writable, cancelled) ==
    LET forgotten == [o EXCEPT !.handles = @ \ {handle}]
        flushed == IF writable /\ handle = "main" THEN Write(forgotten, cancelled) ELSE {forgotten}
        synced == IF writable /\ handle = "main" THEN UNION {Sync(p) : p \in flushed} ELSE flushed
    IN IF handle \notin o.handles THEN {o}
       ELSE synced \cup Or({Fails(p, "close") : p \in synced})

\* Mutant: the handles of a container that FFmpeg has freed stay open.
DestroyNothing(o, writable, cancelled) == {o}

\* The destructor of LerobotVideoIO closes the handles that FFmpeg's errors left registered.
Destroy(o, writable, cancelled) ==
    UNION {CloseHandle(p, "main", writable, cancelled) : p \in CloseHandle(o, "second", writable, cancelled)}

==============================================================================
