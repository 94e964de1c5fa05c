------------------------------ MODULE HiveFile ------------------------------
(***************************************************************************)
(* Files: hive_get_file, hive_get_file_to_buffer, hive_put_file,           *)
(* hive_delete_file and their IPFS counterparts (src/src/hive_file.c) over *)
(* the backend (vendors/onedrive/onedrive.c and vendors/ipfs/ipfs.c), with *)
(* the local file system.                                                  *)
(*                                                                         *)
(* A download asks for the length, creates the local file with O_EXCL,     *)
(* asks for the length again (OneDrive: and for a download URL), downloads *)
(* and writes.  An upload opens the local file, asks for its length, reads *)
(* and sends.  Meanwhile other clients replace or delete the file of a     *)
(* OneDrive; an IPFS file never changes, an upload makes another one.      *)
(* Several downloads, in threads or processes of their own, may name the   *)
(* same local path.  The file that is uploaded, another one, grows at its  *)
(* end byte by byte or is cut.                                             *)
(*                                                                         *)
(* An error code is an unsigned int with its top bit set.  A function that *)
(* returns ssize_t makes a negative number of it if it passes through an   *)
(* int, and a length of 2 GiB or more if it does not: ErrorLength here.    *)
(* The OneDrive download URL is taken to stay with the version it was      *)
(* given for.                                                              *)
(***************************************************************************)
EXTENDS Naturals, Sequences

CONSTANTS
    Gets,           \* threads that call the functions
    To,             \* the local path each of them downloads to
    Paths,          \* local paths
    Filename,       \* the local path that reads like the remote file name
    Backend,        \* "onedrive" or "ipfs": where each of them gets its file
    Byte,           \* the bytes of files
    Contents,       \* what a remote file may hold, sequences of bytes
    NoFile,         \* no such file
    Junk,           \* a byte from beyond the end of a buffer
    User,           \* whoever created a local file, if no download did
    ErrorLength,    \* an error code mistaken for a length
    MaxSize,        \* HIVE_MAX_FILE_SIZE
    MaxCalls,       \* bound: calls in a behaviour
    MaxFaults       \* bound: failures and crashes in a behaviour

ASSUME ToAssumption          == To \in [Gets -> Paths]
ASSUME BackendAssumption     == Backend \in [Gets -> {"onedrive", "ipfs"}]
ASSUME UserAssumption        == User \notin Gets
ASSUME ContentsAssumption    == Contents \subseteq Seq(Byte)
ASSUME NoFileAssumption      == NoFile \notin Seq(Byte \cup {0, Junk})
ASSUME MaxSizeAssumption     == MaxSize \in Nat
ASSUME ErrorLengthAssumption == /\ ErrorLength \in Nat
                                /\ ErrorLength > MaxSize + 1
                                /\ \A v \in Contents : ErrorLength > Len(v) + 1
ASSUME BoundsAssumption      == MaxCalls \in Nat /\ MaxFaults \in Nat

VARIABLES
    remote,         \* the file in each backend
    source,         \* the local file that is uploaded
    local,          \* the files on this machine
    creator,        \* who created each of them
    pc,             \* what each download does next
    kind,           \* "file", "buffer", "put" or "delete": the function called
    size,           \* the length of its buffer
    url,            \* the content its download was promised
    buf,            \* the bytes downloaded, or read to be uploaded
    nbytes,         \* what the backend returned as their number
    result,         \* the outcome of the last call
    length,         \* the length it returned
    calls, faults,  \* counts of calls and faults still to come
    window          \* history: what the remote file held since the call began
                    \* or, for an upload, the local one

callVars == <<kind, size, url, buf, nbytes>>
outcome  == <<result, length>>
disk     == <<local, creator>>
vars     == <<remote, source, disk, pc, callVars, outcome, calls, faults, window>>

Init ==
    /\ remote  \in [{"onedrive", "ipfs"} -> Contents \cup {NoFile}]
    /\ source  \in Contents
    /\ local   \in [Paths -> {NoFile, <<>>}]
    /\ creator = [p \in Paths |-> User]
    /\ pc      = [g \in Gets |-> "idle"]
    /\ kind    = [g \in Gets |-> "file"]
    /\ size    = [g \in Gets |-> 0]
    /\ url     = [g \in Gets |-> <<>>]
    /\ buf     = [g \in Gets |-> <<>>]
    /\ nbytes  = [g \in Gets |-> 0]
    /\ result  = [g \in Gets |-> "none"]
    /\ length  = [g \in Gets |-> 0]
    /\ calls   = MaxCalls
    /\ faults  = MaxFaults
    /\ window  = [g \in Gets |-> {}]

Goto(g, s) == pc' = [pc EXCEPT ![g] = s]
Fault      == faults > 0 /\ faults' = faults - 1
NoFault    == UNCHANGED faults
Source(g)  == remote[Backend[g]]
Ipfs(g)    == Backend[g] = "ipfs"

\* Mutated form: a return that leaks what the call allocated.
FreeNothing(g) == UNCHANGED <<size, url, buf, nbytes>>

\* The locals of a call end with it.
Free(g) ==
    /\ size'   = [size EXCEPT ![g] = 0]
    /\ url'    = [url EXCEPT ![g] = <<>>]
    /\ buf'    = [buf EXCEPT ![g] = <<>>]
    /\ nbytes' = [nbytes EXCEPT ![g] = 0]

\* The call returns n if r is "ok", and -1 otherwise.
End(g, r, n) ==
    /\ Goto(g, "idle")
    /\ result' = [result EXCEPT ![g] = r]
    /\ length' = [length EXCEPT ![g] = n]
    /\ Free(g)
    /\ UNCHANGED kind

Return(g, r, n) == End(g, r, n) /\ window' = [window EXCEPT ![g] = {}]

-----------------------------------------------------------------------------
(* The calls.                                                              *)

Call(g, k, buflen) ==
    /\ pc[g] = "idle" /\ calls > 0
    /\ calls'  = calls - 1
    /\ kind'   = [kind EXCEPT ![g] = k]
    /\ result' = [result EXCEPT ![g] = "none"]
    /\ length' = [length EXCEPT ![g] = 0]
    /\ window' = [window EXCEPT ![g] = {IF k = "put" THEN source ELSE Source(g)}]
    /\ \/ k = "file" /\ buflen = 0 /\ Goto(g, "length") /\ UNCHANGED size
       \/ /\ k = "buffer" /\ buflen > 0
          /\ Goto(g, "info")
          /\ size' = [size EXCEPT ![g] = buflen]
       \/ k = "put" /\ buflen = 0 /\ Goto(g, "seek") /\ UNCHANGED size
       \/ k = "delete" /\ buflen = 0 /\ Goto(g, "delete") /\ UNCHANGED size
    /\ NoFault
    /\ UNCHANGED <<remote, source, disk, url, buf, nbytes>>

\* A request fails or is refused: HIVEERR_TRY_AGAIN after a 401 of OneDrive, or
\* when an IPFS node cannot be reached.  The local file stays as it is.  The
\* pre-authorized download of OneDrive has no 401.
Refused(g) ==
    /\ pc[g] \in {"length", "info", "download", "send", "delete"}
    /\ Fault
    /\ \E r \in {"error", "again"} :
         /\ r = "again" => (Ipfs(g) \/ pc[g] # "download")
         /\ Return(g, r, 0)
    /\ UNCHANGED <<remote, source, disk, calls>>

\* hive_get_file_length.  IPFS returns a malformed answer as a length.
GetLength(g) ==
    /\ pc[g] = "length"
    /\ \/ Source(g) = NoFile /\ NoFault /\ Return(g, "error", 0)
       \/ \E len \in {Len(v) : v \in Contents} \cup {ErrorLength} :
            /\ \/ Source(g) # NoFile /\ len = Len(Source(g)) /\ NoFault
               \/ Ipfs(g) /\ len = ErrorLength /\ Fault
            /\ size' = [size EXCEPT ![g] = len]
            /\ Goto(g, "create")
            /\ UNCHANGED <<kind, url, buf, nbytes, outcome, window>>
    /\ UNCHANGED <<remote, source, disk, calls>>

\* Mutated form: open() without O_EXCL.
NeverExists(p) == FALSE

\* open(O_CREAT | O_EXCL) fails with EEXIST.
Exists(p) == local[p] # NoFile

\* The local file; an empty remote file needs no more.
Create(g) ==
    /\ pc[g] = "create"
    /\ LET p == To[g] IN
       IF Exists(p)
       THEN Return(g, "error", 0) /\ UNCHANGED disk
       ELSE /\ local'   = [local EXCEPT ![p] = <<>>]
            /\ creator' = [creator EXCEPT ![p] = g]
            /\ IF size[g] = 0
               THEN Return(g, "ok", 0)
               ELSE Goto(g, "info") /\ UNCHANGED <<callVars, outcome, window>>
    /\ NoFault
    /\ UNCHANGED <<remote, source, calls>>

\* The backend returns n: hive_get_file goes on to write that many bytes, and
\* hive_get_file_to_buffer returns it.
Deliver(g, bytes, n) ==
    IF kind[g] = "buffer"
    THEN Return(g, "ok", n)
    ELSE /\ Goto(g, "write")
         /\ buf'    = [buf EXCEPT ![g] = bytes]
         /\ nbytes' = [nbytes EXCEPT ![g] = n]
         /\ UNCHANGED <<kind, size, url, outcome, window>>

\* get_file_to_buffer up to the download.  A file that outgrew the buffer is
\* HIVEERR_BUFFER_TOO_SMALL, as a length; so is a malformed answer of IPFS.  (A
\* calloc that fails has the effect of a request that fails.)
GetInfo(g) ==
    /\ pc[g] = "info"
    /\ \/ Source(g) = NoFile /\ NoFault /\ Return(g, "error", 0)
       \/ /\ Source(g) # NoFile /\ Len(Source(g)) > size[g]
          /\ NoFault
          /\ Deliver(g, <<>>, ErrorLength)
       \/ Ipfs(g) /\ Fault /\ Deliver(g, <<>>, ErrorLength)
       \/ Source(g) = <<>> /\ NoFault /\ Deliver(g, <<>>, 0)
       \/ /\ Source(g) \notin {NoFile, <<>>} /\ Len(Source(g)) <= size[g]
          /\ NoFault
          /\ url' = [url EXCEPT ![g] = Source(g)]
          /\ Goto(g, "download")
          /\ UNCHANGED <<kind, size, buf, nbytes, outcome, window>>
    /\ UNCHANGED <<remote, source, disk, calls>>

\* The download.  IPFS returns a bad status of the answer, and a body of another
\* length than it had announced, as a length.
Download(g) ==
    /\ pc[g] = "download"
    /\ \/ NoFault /\ Deliver(g, url[g], Len(url[g]))
       \/ Ipfs(g) /\ Fault /\ Deliver(g, <<>>, ErrorLength)
    /\ UNCHANGED <<remote, source, disk, calls>>

-----------------------------------------------------------------------------
(* write() and what follows it.                                            *)

\* The file system took less than it was given.
Short(nwr, n) == nwr # n

\* What write() leaves in the file: all bytes, or fewer when it fails; asked for
\* ErrorLength bytes it stops where the memory behind the buffer ends.
Writable(g) ==
    IF nbytes[g] = ErrorLength
    THEN {<<>>, [i \in 1..size[g] + 1 |-> IF i <= size[g] THEN 0 ELSE Junk]}
    ELSE {SubSeq(buf[g], 1, k) : k \in 0..nbytes[g]}

\* A file that somebody unlinked takes its bytes with it.
Write(g) ==
    /\ pc[g] = "write"
    /\ \E bytes \in Writable(g) :
         /\ local' = [local EXCEPT ![To[g]] = IF creator[To[g]] = g THEN bytes ELSE @]
         /\ IF Len(bytes) < nbytes[g] /\ nbytes[g] # ErrorLength THEN Fault ELSE NoFault
         /\ IF Short(Len(bytes), nbytes[g])
            THEN Goto(g, "unlink") /\ UNCHANGED <<callVars, outcome, window>>
            ELSE Return(g, "ok", nbytes[g])
    /\ UNCHANGED <<remote, source, creator, calls>>

\* Mutated form: hive_ipfs_get_file unlinks as hive_get_file does.
AlwaysFilename(g) == Filename

\* hive_get_file unlinks filename, hive_ipfs_get_file unlinks to.
Unlinked(g) == IF Ipfs(g) THEN To[g] ELSE Filename

Unlink(g) ==
    /\ pc[g] = "unlink"
    /\ local'   = [local EXCEPT ![Unlinked(g)] = NoFile]
    /\ creator' = [creator EXCEPT ![Unlinked(g)] = User]
    /\ Return(g, "error", 0)
    /\ NoFault
    /\ UNCHANGED <<remote, source, calls>>

-----------------------------------------------------------------------------
(* Uploads.                                                                *)

\* The file of OneDrive becomes content, and others may see it.  The calls of
\* ended return.
Put(content, ended) ==
    /\ remote' = [remote EXCEPT !["onedrive"] = content]
    /\ window' = [g \in Gets |->
                    IF g \in ended THEN {}
                    ELSE IF pc[g] = "idle" \/ Ipfs(g) \/ kind[g] = "put" THEN window[g]
                    ELSE window[g] \cup {content}]

\* open() and lseek(): the length of the local file, which may be missing, or
\* too large.
Seek(g) ==
    /\ pc[g] = "seek"
    /\ \/ Fault /\ Return(g, "error", 0)
       \/ NoFault /\ Len(source) > MaxSize /\ Return(g, "error", 0)
       \/ /\ NoFault /\ Len(source) <= MaxSize
          /\ size' = [size EXCEPT ![g] = Len(source)]
          /\ Goto(g, "read")
          /\ UNCHANGED <<kind, url, buf, nbytes, outcome, window>>
    /\ UNCHANGED <<remote, source, disk, calls>>

\* What read() makes of the zeroed buffer of n bytes.
Read(n) == [i \in 1..n |-> IF i <= Len(source) THEN source[i] ELSE 0]

\* Mutated form: a short read is taken for the whole.
NeverMissing(g) == FALSE

\* There was less to read than lseek() had found.
Missing(g) == Len(source) < size[g]

ReadSource(g) ==
    /\ pc[g] = "read"
    /\ NoFault
    /\ IF Missing(g)
       THEN Return(g, "error", 0)
       ELSE /\ buf' = [buf EXCEPT ![g] = Read(size[g])]
            /\ Goto(g, "send")
            /\ UNCHANGED <<kind, size, url, nbytes, outcome, window>>
    /\ UNCHANGED <<remote, source, disk, calls>>

\* put_file_from_buffer of the backend.  The answer may be lost.
Send(g) ==
    /\ pc[g] = "send"
    /\ \/ NoFault /\ End(g, "ok", 0)
       \/ Fault /\ End(g, "error", 0)
    /\ IF Ipfs(g)
       THEN window' = [window EXCEPT ![g] = {}] /\ UNCHANGED remote
       ELSE Put(buf[g], {g})
    /\ UNCHANGED <<source, disk, calls>>

\* delete_file of the backend, which IPFS lacks.  A file that is not there is an
\* error.
Delete(g) ==
    /\ pc[g] = "delete"
    /\ \/ /\ Ipfs(g) \/ Source(g) = NoFile
          /\ NoFault /\ Return(g, "error", 0)
          /\ UNCHANGED remote
       \/ /\ ~Ipfs(g) /\ Source(g) # NoFile
          /\ \/ NoFault /\ End(g, "ok", 0)
             \/ Fault /\ End(g, "error", 0)
          /\ Put(NoFile, {g})
    /\ UNCHANGED <<source, disk, calls>>

-----------------------------------------------------------------------------
(* The world around.                                                       *)

\* The process of a download dies.
Crash(g) ==
    /\ pc[g] \notin {"idle", "dead"}
    /\ Fault
    /\ Goto(g, "dead")
    /\ UNCHANGED <<remote, source, disk, callVars, outcome, calls, window>>

\* Another client replaces or deletes a OneDrive file.
Replace(content) ==
    /\ Fault
    /\ Put(content, {})
    /\ UNCHANGED <<source, disk, pc, callVars, outcome, calls>>

\* Somebody appends a byte to the local file, or cuts it, while it is uploaded.
Edit(content) ==
    /\ \E g \in Gets : pc[g] = "read"
    /\ Fault
    /\ source' = content
    /\ window' = [g \in Gets |->
                    IF pc[g] = "idle" \/ kind[g] # "put" THEN window[g]
                    ELSE window[g] \cup {content}]
    /\ UNCHANGED <<remote, disk, pc, callVars, outcome, calls>>

Grow == /\ Len(source) <= MaxSize
        /\ \E b \in Byte : Edit(Append(source, b))
Cut  == \E k \in 0..Len(source) - 1 : Edit(SubSeq(source, 1, k))

\* The user clears a path that no download is working on.
Clear(p) ==
    /\ local[p] # NoFile
    /\ \A g \in Gets : To[g] = p => pc[g] = "idle"
    /\ local'   = [local EXCEPT ![p] = NoFile]
    /\ creator' = [creator EXCEPT ![p] = User]
    /\ NoFault
    /\ UNCHANGED <<remote, source, pc, callVars, outcome, calls, window>>

Step(g) ==
    \/ \E k \in {"file", "buffer", "put", "delete"}, v \in Contents \cup {<<>>} :
         Call(g, k, Len(v))
    \/ Refused(g)
    \/ GetLength(g) \/ Create(g) \/ GetInfo(g) \/ Download(g)
    \/ Write(g) \/ Unlink(g)
    \/ Seek(g) \/ ReadSource(g) \/ Send(g) \/ Delete(g)
    \/ Crash(g)

Next ==
    \/ \E g \in Gets : Step(g)
    \/ \E v \in Contents \cup {NoFile} : Replace(v)
    \/ Grow \/ Cut
    \/ \E p \in Paths : Clear(p)

Spec == Init /\ [][Next]_vars

-----------------------------------------------------------------------------
(* Properties.                                                             *)

Bytes == Seq(Byte \cup {0, Junk})
Files == Bytes \cup {NoFile}

\* Every variable stays in its type, and no buffer outlives its call.
TypeOK ==
    /\ remote  \in [{"onedrive", "ipfs"} -> Files]
    /\ source  \in Bytes
    /\ local   \in [Paths -> Files]
    /\ creator \in [Paths -> Gets \cup {User}]
    /\ pc      \in [Gets -> {"idle", "length", "create", "info", "download",
                             "write", "unlink", "seek", "read", "send", "delete",
                             "dead"}]
    /\ kind    \in [Gets -> {"file", "buffer", "put", "delete"}]
    /\ size    \in [Gets -> Nat]
    /\ url     \in [Gets -> Bytes]
    /\ buf     \in [Gets -> Bytes]
    /\ nbytes  \in [Gets -> Nat]
    /\ result  \in [Gets -> {"none", "ok", "error", "again"}]
    /\ length  \in [Gets -> Nat]
    /\ calls   \in 0..MaxCalls
    /\ faults  \in 0..MaxFaults
    /\ window  \in [Gets -> SUBSET Files]
    /\ \A g \in Gets : pc[g] = "idle" => buf[g] = <<>> /\ nbytes[g] = 0

\* A get_file that returns a length has left under its path the whole of one
\* content that the remote file had during the call, and the length is its
\* length, although the file changes between the three requests, others want
\* the same path and the disk may be full (O_EXCL, and the check of write()).
GetIsWhole ==
    [][\A g \in Gets :
         pc[g] # "idle" /\ kind[g] = "file" /\ result'[g] = "ok"
           => /\ local'[To[g]] \in window[g]
              /\ length'[g] = Len(local'[To[g]])]_vars

\* An upload that returns 0 has stored the whole of one content that the local
\* file held during the call, although lseek() and read() are two steps and the
\* file changes between them (the check of read()).
PutIsWhole ==
    [][\A g \in Gets :
         pc[g] = "send" /\ result'[g] = "ok"
           => (IF Ipfs(g) THEN buf[g] ELSE remote'["onedrive"]) \in window[g]]_vars

\* A download changes no local file but the one it created (the path given to
\* open and to unlink).
OnlyDestination ==
    [][\A g \in Gets, p \in Paths :
         Step(g) /\ local[p] # NoFile /\ local'[p] # local[p]
           => p = To[g] /\ creator[p] = g]_vars

\* What downloads from IPFS leave on the disk is the whole file or an empty one,
\* never a part or a surplus, unless the process died before unlink (the unlink
\* after a short write, and after a write of ErrorLength bytes).
NoPartialFile ==
    \A p \in Paths :
        creator[p] \in Gets /\ local[p] # NoFile
          => \/ local[p] \in {<<>>, Source(creator[p])}
             \/ pc[creator[p]] \in {"unlink", "dead"}
             \/ ~Ipfs(creator[p])

\* ela_hive.h:485: get_file_to_buffer returns the length of the file, or -1.
LengthFitsFile ==
    \A g \in Gets : result[g] = "ok" => length[g] # ErrorLength
=============================================================================
