----------------------------- MODULE OneDriveKV -----------------------------
(***************************************************************************)
(* put_value, set_value, get_values and delete_key of the OneDrive backend *)
(* (src/src/vendors/onedrive/onedrive.c) on the file of one key, as the    *)
(* sequence of HTTP requests each of them sends.  Several clients, on      *)
(* several devices, work on the same account; a request may fail, be       *)
(* answered with 401, or take effect and lose its answer.  Keys have       *)
(* files of their own and do not interact.                                 *)
(*                                                                         *)
(* put_value reads the length, then the length and the download URL, then  *)
(* the content, appends its entry in memory and uploads the whole file;    *)
(* nothing detects that another client has changed the file in between.    *)
(* A download URL is taken to stay with the version it was given for.      *)
(***************************************************************************)
EXTENDS Naturals, Sequences, KVEntries

CONSTANTS
    Clients,
    Values,         \* the values applications store, sequences of bytes
    NoFile,         \* the content of a file that does not exist
    InitialFiles,   \* what the file may hold at first: others can write it too
    SimpleLimit,    \* longest file that goes in one request (4 MiB)
    MaxCalls,       \* bound: calls in a behaviour
    MaxFaults       \* bound: requests that fail or lose their answer

ASSUME ValuesAssumption ==
    \A v \in Values : v \in Seq(0..255) /\ Len(v) \in 1..MaxValueLen
ASSUME FilesAssumption ==
    NoFile \notin Seq(0..255) /\ InitialFiles \subseteq Seq(0..255) \cup {NoFile}
ASSUME BoundsAssumption == MaxCalls \in Nat /\ MaxFaults \in Nat

VARIABLES
    file,           \* the content of the key's file on the server
    pc,             \* the request each client sends or awaits
    op,             \* the operation it has called
    size,           \* the length its first request returned
    url,            \* the content its download URL was given for
    buf,            \* what it uploads
    result,         \* the outcome of its last call
    got,            \* the values its last get_values delivered
    calls, faults,  \* counts of calls and faults still to come
    window          \* history: the file's contents since the call began

vars == <<file, pc, op, size, url, buf, result, got, calls, faults, window>>
local == <<op, size, url, buf, got>>

Ops == [kind : {"put", "set"}, value : Values] \cup [kind : {"get", "delete"}]

\* The requests; in "answer" the server has done its part.
Requests == {"length", "info", "download", "upload", "folder", "session",
             "part", "delete"}

Init ==
    /\ file   \in InitialFiles
    /\ pc     = [c \in Clients |-> "idle"]
    /\ op     = [c \in Clients |-> [kind |-> "delete"]]
    /\ size   = [c \in Clients |-> 0]
    /\ url    = [c \in Clients |-> <<>>]
    /\ buf    = [c \in Clients |-> <<>>]
    /\ result = [c \in Clients |-> "none"]
    /\ got    = [c \in Clients |-> <<>>]
    /\ calls  = MaxCalls
    /\ faults = MaxFaults
    /\ window = [c \in Clients |-> {}]

Goto(c, s) == pc' = [pc EXCEPT ![c] = s]
Fault      == faults > 0 /\ faults' = faults - 1

\* Mutated form: a return that leaks what the call allocated.
FreeNothing(c) == UNCHANGED <<size, url, buf>>

\* The locals of a call end with it.
Free(c) ==
    /\ size' = [size EXCEPT ![c] = 0]
    /\ url'  = [url EXCEPT ![c] = <<>>]
    /\ buf'  = [buf EXCEPT ![c] = <<>>]

Return(c, r) ==
    /\ Goto(c, "idle")
    /\ Free(c)
    /\ result' = [result EXCEPT ![c] = r]
    /\ window' = [window EXCEPT ![c] = {}]

\* The server replaces or removes the file.
Store(content) ==
    /\ file' = content
    /\ window' = [c \in Clients |-> IF pc[c] = "idle" THEN {}
                                    ELSE window[c] \cup {content}]

-----------------------------------------------------------------------------

\* __put_file_from_buffer: one PUT, or a folder, a session and its only part.
UploadFrom(c, content) ==
    /\ Goto(c, IF Len(content) <= SimpleLimit THEN "upload" ELSE "folder")
    /\ buf' = [buf EXCEPT ![c] = content]

Call(c, o) ==
    /\ pc[c] = "idle" /\ calls > 0
    /\ calls'  = calls - 1
    /\ op'     = [op EXCEPT ![c] = o]
    /\ result' = [result EXCEPT ![c] = "none"]
    /\ got'    = [got EXCEPT ![c] = <<>>]
    /\ window' = [window EXCEPT ![c] = {file}]
    /\ \/ /\ o.kind \in {"put", "get"}
          /\ Goto(c, "length")
          /\ UNCHANGED buf
       \/ o.kind = "set" /\ UploadFrom(c, Entry(o.value))
       \/ /\ o.kind = "delete"
          /\ Goto(c, "delete")
          /\ UNCHANGED buf
    /\ UNCHANGED <<file, size, url, faults>>

\* A request fails, or a token cannot be refreshed: the call ends with an error,
\* or with HIVEERR_TRY_AGAIN after 401.  The part of an upload session has no
\* Authorization header and no 401.
Refused(c) ==
    /\ pc[c] \in Requests
    /\ Fault
    /\ \E r \in {"error", "again"} :
         /\ r = "again" => pc[c] \notin {"part", "download"}
         /\ Return(c, r)
    /\ UNCHANGED <<file, op, got, calls>>

\* Mutated form: any answer counts as 404.
LengthOfNothing(content) == 0

\* __get_file_length; 404 counts as an empty file.
LengthOf(content) == IF content = NoFile THEN 0 ELSE Len(content)

GetLength(c) ==
    /\ pc[c] = "length"
    /\ LET len == LengthOf(file) IN
       \/ /\ len = 0 /\ op[c].kind = "put"
          /\ UploadFrom(c, Entry(op[c].value))
          /\ UNCHANGED <<size, url, result, window>>
       \/ /\ len = 0 /\ op[c].kind = "get"
          /\ Return(c, "ok")
       \/ /\ len \in 1..HeaderLen /\ op[c].kind = "get"
          /\ Return(c, "bad")
       \/ /\ len > 0 /\ (op[c].kind = "get" => len > HeaderLen)
          /\ size' = [size EXCEPT ![c] = len]
          /\ Goto(c, "info")
          /\ UNCHANGED <<url, buf, result, window>>
    /\ UNCHANGED <<file, op, got, calls, faults>>

\* Mutated form: a file shorter than it was is taken as it is.
FitsLoosely(content, len) == content # NoFile /\ Len(content) \in 1..len

\* __get_file_to_buffer goes on to the download, and its caller finds the length
\* it expects, only if the file is as long as the first request said.
Fits(content, len) == content # NoFile /\ Len(content) = len

\* The second __get_file_info: longer files end the call at once, shorter ones
\* after a useless download.
GetInfo(c) ==
    /\ pc[c] = "info"
    /\ IF Fits(file, size[c])
       THEN /\ url' = [url EXCEPT ![c] = file]
            /\ Goto(c, "download")
            /\ UNCHANGED <<size, buf, result, window>>
       ELSE Return(c, "error")
    /\ UNCHANGED <<file, op, got, calls, faults>>

\* Mutated form: the callback does not advance, so that a last chunk of five
\* bytes lands at the start.
FilledAtStart(content, len) ==
    LET head == Len(content) - 5 IN
    IF head < 5 THEN content
    ELSE [i \in 1..len |-> IF i <= 5 THEN content[head + i]
                           ELSE IF i <= head THEN content[i] ELSE 0]

\* calloc'ed memory of len bytes after content was copied to its start.
Filled(content, len) ==
    [i \in 1..len |-> IF i <= Len(content) THEN content[i] ELSE 0]

\* __download_file.  The URL names the version it was given for.
Download(c) ==
    /\ pc[c] = "download"
    /\ LET data == Filled(url[c], size[c]) IN
       \/ /\ op[c].kind = "put"
          /\ UploadFrom(c, data \o Entry(op[c].value))
          /\ UNCHANGED <<size, url, result, got, window>>
       \/ /\ op[c].kind = "get"
          /\ \E limit \in 1..Len(data) + 1 :
               LET delivery == Deliver(data, limit) IN
               /\ got' = [got EXCEPT ![c] = delivery.vals]
               /\ Return(c, IF delivery.bad THEN "bad" ELSE "ok")
    /\ UNCHANGED <<file, op, calls, faults>>

\* __upload_file
Upload(c) ==
    /\ pc[c] = "upload"
    /\ Store(buf[c])
    /\ Goto(c, "answer")
    /\ UNCHANGED <<local, result, calls, faults>>

\* __create_folder and __create_upload_session change no file.
PrepareSession(c) ==
    /\ \/ pc[c] = "folder"  /\ Goto(c, "session")
       \/ pc[c] = "session" /\ Goto(c, "part")
    /\ UNCHANGED <<file, local, result, calls, faults, window>>

\* __upload_to_session sends the whole content as one part.
UploadPart(c) ==
    /\ pc[c] = "part"
    /\ Store(buf[c])
    /\ Goto(c, "answer")
    /\ UNCHANGED <<local, result, calls, faults>>

\* __delete_file; delete_key takes 404 for success.
Delete(c) ==
    /\ pc[c] = "delete"
    /\ \/ /\ file # NoFile
          /\ Store(NoFile)
          /\ Goto(c, "answer")
          /\ UNCHANGED <<local, result>>
       \/ /\ file = NoFile
          /\ Return(c, "ok")
          /\ UNCHANGED <<file, op, got>>
    /\ UNCHANGED <<calls, faults>>

\* The answer arrives, or is lost.
Answer(c) ==
    /\ pc[c] = "answer"
    /\ \/ Return(c, "ok") /\ UNCHANGED faults
       \/ Fault /\ Return(c, "error")
    /\ UNCHANGED <<file, op, got, calls>>

Next ==
    \E c \in Clients :
        \/ \E o \in Ops : Call(c, o)
        \/ Refused(c)
        \/ GetLength(c) \/ GetInfo(c) \/ Download(c)
        \/ Upload(c) \/ PrepareSession(c) \/ UploadPart(c)
        \/ Delete(c)
        \/ Answer(c)

Spec == Init /\ [][Next]_vars

-----------------------------------------------------------------------------
(* Properties.                                                             *)

\* Every variable stays in its type, and an idle client holds no buffer.
Contents == Seq(0..255)
TypeOK ==
    /\ file = NoFile \/ file \in Contents
    /\ pc     \in [Clients -> Requests \cup {"idle", "answer"}]
    /\ op     \in [Clients -> Ops]
    /\ size   \in [Clients -> Nat]
    /\ url    \in [Clients -> Contents]
    /\ buf    \in [Clients -> Contents]
    /\ result \in [Clients -> {"none", "ok", "again", "error", "bad"}]
    /\ got    \in [Clients -> Seq(Contents)]
    /\ calls  \in 0..MaxCalls
    /\ faults \in 0..MaxFaults
    /\ \A c \in Clients : pc[c] = "idle" => size[c] = 0 /\ buf[c] = <<>>

\* Whatever the interleaving of clients and the requests that fail: if the file
\* and the copies that clients hold of it can be read to their end and have no
\* empty value, all of them stay so (put_value appends to a copy of a file that
\* it has read completely).
Sound(content) ==
    content # NoFile =>
        /\ Readable(content)
        /\ \A i \in DOMAIN ValuesIn(content) : ValuesIn(content)[i] # <<>>
AllSound      == Sound(file) /\ \A c \in Clients : Sound(url[c]) /\ Sound(buf[c])
StaysReadable == [][AllSound => AllSound']_vars

\* A get_values that returns 0 has delivered the first values, or all, of one
\* content that the file had during the call: never a mixture of two
\* (the length check between its two requests and its download).
Snapshot(vs, content) ==
    IF content = NoFile THEN vs = <<>>
    ELSE Len(vs) <= Len(ValuesIn(content)) /\ vs = SubSeq(ValuesIn(content), 1, Len(vs))
GetIsSnapshot ==
    [][\A c \in Clients :
         pc[c] # "idle" /\ op[c].kind = "get" /\ result'[c] = "ok"
           => \E content \in window[c] : Snapshot(got'[c], content)]_vars

\* What a put_value stores is its value after the whole of one content that the
\* file had during the call, so that it loses no value but those that other
\* clients store, or forgets none they delete, between its first request and its
\* upload (404 as an empty file, and the length check before the download).
PutIsAppend ==
    [][\A c \in Clients :
         pc[c] \in {"upload", "part"} /\ pc'[c] = "answer" /\ op[c].kind = "put"
           => \E content \in window[c] :
                file' = (IF content = NoFile THEN <<>> ELSE content)
                          \o Entry(op[c].value)]_vars

\* The calls of a client take effect at one moment, as KVStore says.
Phase(c) == IF pc[c] = "idle" THEN "idle"
            ELSE IF pc[c] = "answer" THEN "done" ELSE "pending"
KV == INSTANCE KVStore WITH
        vals  <- IF file = NoFile THEN <<>> ELSE ValuesIn(file),
        phase <- [c \in Clients |-> Phase(c)]
ImplementsKVStore == KV!Spec
=============================================================================
