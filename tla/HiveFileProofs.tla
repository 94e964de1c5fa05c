--------------------------- MODULE HiveFileProofs ---------------------------
(***************************************************************************)
(* Proofs about HiveFile, for any downloads and uploads, paths, backends,  *)
(* contents and bounds.                                                    *)
(*                                                                         *)
(* The argument has two layers.  Calls says what each call knows of the    *)
(* file it works on: the window holds what the file is now; what a         *)
(* download was promised, and what an upload has read, is in the window;   *)
(* an error code is longer than any file.  Disks says what the calls leave *)
(* on the local disk.                                                      *)
(***************************************************************************)
EXTENDS HiveFile, SequenceTheorems, TLAPS

\* Which call a step belongs to; its outcome is open until it returns.
Kinds(g) ==
    /\ pc[g] \in {"length", "create", "write", "unlink"} => kind[g] = "file"
    /\ pc[g] \in {"info", "download"} => kind[g] \in {"file", "buffer"}
    /\ pc[g] \in {"seek", "read", "send"} => kind[g] = "put"
    /\ pc[g] = "delete" => kind[g] = "delete"
    /\ pc[g] # "idle" => result[g] = "none"

\* A file of a length that no error code is taken for.
Short1(content) == content # NoFile => Len(content) + 1 < ErrorLength

\* The window holds the present content; a file of IPFS has no other.
Seen(g) ==
    /\ pc[g] # "idle" => (IF kind[g] = "put" THEN source ELSE Source(g)) \in window[g]
    /\ pc[g] # "idle" /\ kind[g] # "put" => \A c \in window[g] : Short1(c)
    /\ pc[g] # "idle" /\ kind[g] # "put" /\ Ipfs(g) => window[g] \subseteq {Source(g)}

\* The length that a get_file works with.
Sized(g) ==
    /\ pc[g] = "create" /\ size[g] = 0 => <<>> \in window[g]
    /\ pc[g] \in {"create", "info", "download", "write"} /\ kind[g] = "file"
         => size[g] + 1 # ErrorLength

\* What it was promised and what it is to write.
Promised(g) == pc[g] = "download" => url[g] \in window[g]
Fetched(g)  ==
    pc[g] = "write" =>
        \/ nbytes[g] = ErrorLength
        \/ buf[g] \in window[g] /\ nbytes[g] = Len(buf[g]) /\ nbytes[g] # ErrorLength

\* What an upload is to read and has read.
Readable(g) ==
    pc[g] = "read" =>
        /\ size[g] <= MaxSize
        /\ Len(source) >= size[g] => SubSeq(source, 1, size[g]) \in window[g]
HasRead(g) == pc[g] = "send" => buf[g] \in window[g] /\ Len(buf[g]) <= MaxSize

Knows(g) ==
    /\ Kinds(g) /\ Seen(g) /\ Sized(g) /\ Promised(g) /\ Fetched(g)
    /\ Readable(g) /\ HasRead(g)

Backends == {"onedrive", "ipfs"}
Remotes  == \A b \in Backends : Short1(remote[b])

Calls == TypeOK /\ Remotes /\ \A g \in Gets : Knows(g)

-----------------------------------------------------------------------------
(* Contents.                                                               *)

LEMMA ContentsAreFiles ==
  /\ Contents \subseteq Bytes
  /\ <<>> \in Bytes
  /\ NoFile \notin Bytes
  /\ \A v \in Contents : Short1(v)
  /\ Short1(NoFile)
  /\ Short1(<<>>)
  /\ \A v \in Bytes : Len(v) <= MaxSize => Short1(v)
  <1>1. Contents \subseteq Bytes /\ <<>> \in Bytes /\ NoFile \notin Bytes
    BY ContentsAssumption, NoFileAssumption DEF Bytes
  <1>2. \A v \in Bytes : Len(v) \in Nat
    BY DEF Bytes
  <1>3. Len(<<>>) = 0
    OBVIOUS
  <1> QED BY <1>1, <1>2, <1>3, ErrorLengthAssumption, MaxSizeAssumption DEF Short1

LEMMA Prefix ==
  ASSUME NEW v \in Bytes, NEW n \in Nat, n <= Len(v)
  PROVE  /\ SubSeq(v, 1, n) \in Bytes
         /\ Len(SubSeq(v, 1, n)) = n
         /\ n = Len(v) => SubSeq(v, 1, n) = v
         /\ \A k \in n..Len(v) : SubSeq(SubSeq(v, 1, k), 1, n) = SubSeq(v, 1, n)
  BY DEF Bytes

LEMMA Grown ==
  ASSUME NEW v \in Bytes, NEW b \in Byte
  PROVE  /\ Append(v, b) \in Bytes
         /\ Len(Append(v, b)) = Len(v) + 1
         /\ \A n \in 0..Len(v) : SubSeq(Append(v, b), 1, n) = SubSeq(v, 1, n)
  BY DEF Bytes

-----------------------------------------------------------------------------
(* Frames.                                                                 *)

\* Nothing of another call changes.
Same(d) ==
    /\ pc'[d] = pc[d] /\ kind'[d] = kind[d] /\ size'[d] = size[d]
    /\ url'[d] = url[d] /\ buf'[d] = buf[d] /\ nbytes'[d] = nbytes[d]
    /\ result'[d] = result[d]

LEMMA Quiet ==
  ASSUME NEW g \in Gets, Calls, TypeOK', UNCHANGED <<remote, source>>, Knows(g)',
         \A d \in Gets \ {g} : Same(d) /\ window'[d] = window[d]
  PROVE  Calls'
  <1>1. Remotes'
    BY DEF Calls, Remotes, Short1
  <1>2. ASSUME NEW d \in Gets, d # g PROVE Knows(d)'
    BY <1>2 DEF Calls, Same, Knows, Kinds, Seen, Sized, Promised, Fetched, Readable,
                HasRead, Source, Ipfs, Short1
  <1> QED BY <1>1, <1>2 DEF Calls

\* An idle call knows nothing.
LEMMA Idle ==
  ASSUME NEW g \in Gets, pc[g] = "idle", window[g] = {}
  PROVE  Knows(g)
  BY DEF Knows, Kinds, Seen, Sized, Promised, Fetched, Readable, HasRead

-----------------------------------------------------------------------------
(* What calls know stays true: the steps of a call.                        *)

\* The parts of TypeOK that belong to no call.
Around ==
    /\ local   \in [Paths -> Files]
    /\ creator \in [Paths -> Gets \cup {User}]
    /\ calls   \in 0..MaxCalls
    /\ faults  \in 0..MaxFaults

LEMMA Faults ==
  ASSUME TypeOK, Fault \/ NoFault
  PROVE  faults' \in 0..MaxFaults
  BY BoundsAssumption DEF TypeOK, Fault, NoFault

LEMMA ReturnStep ==
  ASSUME NEW g \in Gets, Calls, NEW r \in {"ok", "error", "again"}, NEW n \in Nat,
         Return(g, r, n), UNCHANGED <<remote, source>>, Around'
  PROVE  Calls'
  <1> USE DEF Return, End, Goto, Free
  <1>1. TypeOK
    BY DEF Calls
  <1>2. <<>> \in Bytes
    BY ContentsAreFiles
  <1>3. TypeOK'
    <2>1. /\ pc' = [pc EXCEPT ![g] = "idle"] /\ kind' = kind
          /\ window' = [window EXCEPT ![g] = {}]
          /\ size' = [size EXCEPT ![g] = 0] /\ nbytes' = [nbytes EXCEPT ![g] = 0]
          /\ url' = [url EXCEPT ![g] = <<>>] /\ buf' = [buf EXCEPT ![g] = <<>>]
          /\ result' = [result EXCEPT ![g] = r] /\ length' = [length EXCEPT ![g] = n]
      OBVIOUS
    <2>2. \A d \in Gets : pc'[d] = "idle" => buf'[d] = <<>> /\ nbytes'[d] = 0
      BY <1>1, <2>1 DEF TypeOK
    <2> QED BY <1>1, <1>2, <2>1, <2>2 DEF TypeOK, Around
  <1>4. pc'[g] = "idle"
    BY <1>1 DEF TypeOK
  <1>5. ASSUME NEW d \in Gets, d # g PROVE Same(d)
    BY <1>1, <1>5 DEF TypeOK, Same
  <1>6. window' = [window EXCEPT ![g] = {}]
    OBVIOUS
  <1>7. ASSUME NEW d \in Gets, d # g PROVE window'[d] = window[d]
    BY <1>6, <1>7
  <1>9. Knows(g)'
    BY <1>4 DEF Knows, Kinds, Seen, Sized, Promised, Fetched, Readable, HasRead
  <1> QED BY <1>3, <1>5, <1>7, <1>9, Quiet

LEMMA CallStep ==
  ASSUME NEW g \in Gets, Calls, NEW k \in {"file", "buffer", "put", "delete"},
         NEW v \in Contents \cup {<<>>}, Call(g, k, Len(v))
  PROVE  Calls'
  <1> USE DEF Call, Goto, NoFault
  <1>1. TypeOK /\ Len(v) \in Nat
    BY ContentsAreFiles DEF Calls, Bytes
  <1>2. \E s \in {"length", "info", "seek", "delete"} :
           /\ pc' = [pc EXCEPT ![g] = s]
           /\ k = IF s = "length" THEN "file" ELSE IF s = "info" THEN "buffer"
                  ELSE IF s = "seek" THEN "put" ELSE "delete"
    OBVIOUS
  <1>3. /\ kind' = [kind EXCEPT ![g] = k]
        /\ result' = [result EXCEPT ![g] = "none"]
        /\ length' = [length EXCEPT ![g] = 0]
        /\ size' = size \/ size' = [size EXCEPT ![g] = Len(v)]
        /\ calls > 0 /\ calls' = calls - 1
        /\ window' = [window EXCEPT ![g] = {IF k = "put" THEN source ELSE Source(g)}]
        /\ UNCHANGED <<remote, source, local, creator, url, buf, nbytes, faults>>
    BY DEF disk
  <1>4. source \in Files /\ Source(g) \in Files
    BY <1>1, BackendAssumption DEF TypeOK, Files, Source
  <1>5. TypeOK'
    <2>1. \A d \in Gets : pc'[d] = "idle" => pc[d] = "idle"
      BY <1>1, <1>2 DEF TypeOK
    <2>2. calls' \in 0..MaxCalls
      BY <1>1, <1>3, BoundsAssumption DEF TypeOK
    <2> QED BY <1>1, <1>2, <1>3, <1>4, <2>1, <2>2 DEF TypeOK
  <1>6. \A d \in Gets \ {g} : Same(d) /\ window'[d] = window[d]
    BY <1>1, <1>3 DEF TypeOK, Same
  <1>7. /\ pc'[g] \in {"length", "info", "seek", "delete"} /\ kind'[g] = k
        /\ result'[g] = "none"
        /\ k = IF pc'[g] = "length" THEN "file" ELSE IF pc'[g] = "info" THEN "buffer"
               ELSE IF pc'[g] = "seek" THEN "put" ELSE "delete"
        /\ window'[g] = {IF k = "put" THEN source ELSE Source(g)}
    BY <1>1, <1>2, <1>3 DEF TypeOK
  <1>8. Short1(Source(g))
    BY BackendAssumption DEF Calls, Remotes, Source, Backends
  <1>9. Kinds(g)' /\ Sized(g)' /\ Promised(g)' /\ Fetched(g)' /\ Readable(g)' /\ HasRead(g)'
    BY <1>7 DEF Kinds, Sized, Promised, Fetched, Readable, HasRead
  <1>10. Seen(g)'
    BY <1>3, <1>7, <1>8 DEF Seen, Source, Short1, Ipfs
  <1> QED BY <1>3, <1>5, <1>6, <1>9, <1>10, Quiet DEF Knows

States == {"length", "create", "info", "download", "write", "unlink", "seek", "read",
           "send", "delete", "dead"}

\* The call goes on to another step.
LEMMA MoveStep ==
  ASSUME NEW g \in Gets, Calls, pc[g] # "idle", NEW s \in States,
         pc' = [pc EXCEPT ![g] = s],
         NEW n \in Nat, size' \in {size, [size EXCEPT ![g] = n]},
         NEW m \in Nat, nbytes' \in {nbytes, [nbytes EXCEPT ![g] = m]},
         NEW u \in Bytes, url' \in {url, [url EXCEPT ![g] = u]},
         NEW b \in Bytes, buf' \in {buf, [buf EXCEPT ![g] = b]},
         UNCHANGED <<remote, source, window, kind, result, length>>,
         Around',
         Kinds(g)', Sized(g)', Promised(g)', Fetched(g)', Readable(g)', HasRead(g)'
  PROVE  Calls'
  <1>1. TypeOK
    BY DEF Calls
  <1>2. \A d \in Gets \ {g} : Same(d) /\ window'[d] = window[d]
    BY <1>1 DEF TypeOK, Same
  <1>3. \A d \in Gets : pc'[d] = "idle" => d # g /\ pc[d] = "idle"
    BY <1>1 DEF TypeOK, States
  <1>4. TypeOK'
    <2>1. pc' \in [Gets -> States \cup {"idle"}]
      BY <1>1 DEF TypeOK, States
    <2>2. size' \in [Gets -> Nat]
      BY <1>1 DEF TypeOK
    <2>3. nbytes' \in [Gets -> Nat]
      BY <1>1 DEF TypeOK
    <2>4. url' \in [Gets -> Bytes]
      BY <1>1 DEF TypeOK
    <2>5. buf' \in [Gets -> Bytes]
      BY <1>1 DEF TypeOK
    <2>6. \A d \in Gets : pc'[d] = "idle" => buf'[d] = <<>> /\ nbytes'[d] = 0
      BY <1>1, <1>2, <1>3 DEF TypeOK, Same
    <2> QED BY <1>1, <2>1, <2>2, <2>3, <2>4, <2>5, <2>6 DEF TypeOK, Around, States
  <1>5. Seen(g)'
    BY DEF Calls, Knows, Seen, Source, Ipfs, Short1
  <1> QED BY <1>2, <1>4, <1>5, Quiet DEF Knows

LEMMA AroundStays ==
  ASSUME Calls, UNCHANGED <<disk, calls>>, Fault \/ NoFault
  PROVE  Around'
  <1>1. TypeOK
    BY DEF Calls
  <1> QED BY <1>1, Faults DEF TypeOK, Around, disk

LEMMA RefusedStep ==
  ASSUME NEW g \in Gets, Calls, Refused(g)
  PROVE  Calls'
  <1>1. Around'
    BY AroundStays DEF Refused
  <1> QED BY <1>1, ReturnStep DEF Refused

LEMMA GetLengthStep ==
  ASSUME NEW g \in Gets, Calls, GetLength(g)
  PROVE  Calls'
  <1>1. pc[g] = "length" /\ Around' /\ UNCHANGED <<remote, source>>
    BY AroundStays DEF GetLength
  <1>2. /\ kind[g] = "file" /\ result[g] = "none"
        /\ Source(g) \in window[g] /\ Source(g) \in Files /\ Short1(Source(g))
    BY <1>1, BackendAssumption
    DEF Calls, Knows, Kinds, Seen, TypeOK, Remotes, Backends, Source
  <1>3. ASSUME NEW len \in {Len(v) : v \in Contents} \cup {ErrorLength},
               \/ Source(g) # NoFile /\ len = Len(Source(g))
               \/ Ipfs(g) /\ len = ErrorLength,
               size' = [size EXCEPT ![g] = len], Goto(g, "create"),
               UNCHANGED <<kind, url, buf, nbytes, outcome, window>>
        PROVE  Calls'
    <2>1. len \in Nat /\ len + 1 # ErrorLength /\ (len = 0 => <<>> \in window[g])
      <3>1. CASE len = ErrorLength
        BY <3>1, ErrorLengthAssumption, MaxSizeAssumption
      <3>2. CASE Source(g) # NoFile /\ len = Len(Source(g))
        BY <1>2, <3>2, ErrorLengthAssumption DEF Short1, Files, Bytes
      <3> QED BY <1>3, <3>1, <3>2
    <2>2. /\ pc' = [pc EXCEPT ![g] = "create"] /\ pc'[g] = "create" /\ size'[g] = len
          /\ kind'[g] = "file" /\ result'[g] = "none" /\ window'[g] = window[g]
      BY <1>2, <1>3 DEF Calls, TypeOK, Goto, outcome
    <2>3. /\ Kinds(g)' /\ Sized(g)' /\ Promised(g)' /\ Fetched(g)' /\ Readable(g)'
          /\ HasRead(g)'
      BY <2>1, <2>2 DEF Kinds, Sized, Promised, Fetched, Readable, HasRead
    <2> QED BY <1>1, <1>3, <2>1, <2>2, <2>3, MoveStep, ContentsAreFiles DEF outcome, States
  <1> QED BY <1>1, <1>3, ReturnStep DEF GetLength

LEMMA CreateStep ==
  ASSUME NEW g \in Gets, Calls, Create(g)
  PROVE  Calls'
  <1>1. pc[g] = "create" /\ UNCHANGED <<remote, source, calls>>
    BY DEF Create
  <1>2. Around'
    <2>1. TypeOK /\ faults' = faults
      BY DEF Calls, Create, NoFault
    <2> QED BY <2>1, <1>1, ContentsAreFiles, ToAssumption
        DEF Create, TypeOK, Around, disk, Files
  <1>3. ASSUME Goto(g, "info"), UNCHANGED <<callVars, outcome, window>>
        PROVE  Calls'
    <2>1. pc' = [pc EXCEPT ![g] = "info"] /\ pc'[g] = "info"
      BY <1>3 DEF Calls, TypeOK, Goto
    <2>2. UNCHANGED <<kind, size, url, buf, nbytes, result, length, window>>
      BY <1>3 DEF callVars, outcome
    <2>3. /\ Kinds(g)' /\ Sized(g)' /\ Promised(g)' /\ Fetched(g)' /\ Readable(g)'
          /\ HasRead(g)'
      BY <1>1, <2>1, <2>2
      DEF Calls, Knows, Kinds, Sized, Promised, Fetched, Readable, HasRead
    <2> QED BY <1>1, <1>2, <2>1, <2>2, <2>3, MoveStep, ContentsAreFiles DEF States
  <1> QED BY <1>1, <1>2, <1>3, ReturnStep DEF Create

LEMMA DeliverStep ==
  ASSUME NEW g \in Gets, Calls, pc[g] \in {"info", "download"},
         NEW bytes \in Bytes, NEW n \in Nat, Deliver(g, bytes, n),
         n = ErrorLength \/ (bytes \in window[g] /\ n = Len(bytes)),
         UNCHANGED <<remote, source>>, Around'
  PROVE  Calls'
  <1>1. CASE kind[g] = "buffer"
    BY <1>1, ReturnStep DEF Deliver
  <1>2. CASE kind[g] # "buffer"
    <2>1. /\ pc' = [pc EXCEPT ![g] = "write"]
          /\ buf' = [buf EXCEPT ![g] = bytes]
          /\ nbytes' = [nbytes EXCEPT ![g] = n]
          /\ UNCHANGED <<kind, size, url, result, length, window>>
      BY <1>2 DEF Deliver, Goto, outcome
    <2>2. pc'[g] = "write" /\ buf'[g] = bytes /\ nbytes'[g] = n
      BY <2>1 DEF Calls, TypeOK
    <2>3. kind[g] = "file" /\ result[g] = "none" /\ size[g] + 1 # ErrorLength
      BY <1>2 DEF Calls, Knows, Kinds, Sized
    <2>4. \/ n = ErrorLength
          \/ bytes \in window[g] /\ n = Len(bytes) /\ n # ErrorLength
      <3>1. ASSUME bytes \in window[g], n = Len(bytes) PROVE n # ErrorLength
        <4>1. Short1(bytes)
          BY <1>2, <3>1, <2>3 DEF Calls, Knows, Seen
        <4>2. bytes # NoFile /\ Len(bytes) \in Nat
          BY ContentsAreFiles DEF Bytes
        <4> QED BY <3>1, <4>1, <4>2, ErrorLengthAssumption DEF Short1
      <3> QED BY <3>1
    <2>5. /\ Kinds(g)' /\ Sized(g)' /\ Promised(g)' /\ Fetched(g)' /\ Readable(g)'
          /\ HasRead(g)'
      BY <2>1, <2>2, <2>3, <2>4
      DEF Kinds, Sized, Promised, Fetched, Readable, HasRead
    <2> QED BY <2>1, <2>5, MoveStep DEF States
  <1> QED BY <1>1, <1>2

LEMMA GetInfoStep ==
  ASSUME NEW g \in Gets, Calls, GetInfo(g)
  PROVE  Calls'
  <1>1. pc[g] = "info" /\ Around' /\ UNCHANGED <<remote, source>>
    BY AroundStays DEF GetInfo
  <1>2. /\ kind[g] \in {"file", "buffer"} /\ result[g] = "none"
        /\ Source(g) \in window[g] /\ Source(g) \in Files
        /\ kind[g] = "file" => size[g] + 1 # ErrorLength
    BY <1>1, BackendAssumption DEF Calls, Knows, Kinds, Seen, Sized, TypeOK, Source
  <1>3. ASSUME Source(g) \notin {NoFile, <<>>}, url' = [url EXCEPT ![g] = Source(g)],
               Goto(g, "download"),
               UNCHANGED <<kind, size, buf, nbytes, outcome, window>>
        PROVE  Calls'
    <2>1. /\ pc' = [pc EXCEPT ![g] = "download"] /\ pc'[g] = "download"
          /\ url'[g] = Source(g)
      BY <1>3 DEF Calls, TypeOK, Goto
    <2>2. UNCHANGED <<kind, size, buf, nbytes, result, length, window>>
      BY <1>3 DEF outcome
    <2>3. /\ Kinds(g)' /\ Sized(g)' /\ Promised(g)' /\ Fetched(g)' /\ Readable(g)'
          /\ HasRead(g)'
      BY <1>2, <2>1, <2>2 DEF Kinds, Sized, Promised, Fetched, Readable, HasRead
    <2>4. Source(g) \in Bytes
      BY <1>2, <1>3 DEF Files
    <2> QED BY <1>1, <1>3, <2>1, <2>2, <2>3, <2>4, MoveStep DEF States
  <1>4. /\ <<>> \in Bytes /\ ErrorLength \in Nat /\ Len(<<>>) = 0
    BY ContentsAreFiles, ErrorLengthAssumption
  <1>5. ASSUME Deliver(g, <<>>, ErrorLength) PROVE Calls'
    BY <1>1, <1>4, <1>5, DeliverStep
  <1>7. ASSUME Source(g) = <<>>, Deliver(g, <<>>, 0) PROVE Calls'
    BY <1>1, <1>2, <1>4, <1>7, DeliverStep
  <1>6. ASSUME Return(g, "error", 0) PROVE Calls'
    BY <1>1, <1>6, ReturnStep
  <1> QED BY <1>3, <1>5, <1>6, <1>7 DEF GetInfo

LEMMA DownloadStep ==
  ASSUME NEW g \in Gets, Calls, Download(g)
  PROVE  Calls'
  <1>1. pc[g] = "download" /\ Around' /\ UNCHANGED <<remote, source>>
    BY AroundStays DEF Download
  <1>2. url[g] \in window[g] /\ url[g] \in Bytes /\ Len(url[g]) \in Nat
    BY <1>1 DEF Calls, Knows, Promised, TypeOK, Bytes
  <1>3. <<>> \in Bytes /\ ErrorLength \in Nat
    BY ContentsAreFiles, ErrorLengthAssumption
  <1>4. ASSUME Deliver(g, url[g], Len(url[g])) PROVE Calls'
    BY <1>1, <1>2, <1>4, DeliverStep
  <1>5. ASSUME Deliver(g, <<>>, ErrorLength) PROVE Calls'
    BY <1>1, <1>3, <1>5, DeliverStep
  <1> QED BY <1>4, <1>5 DEF Download

LEMMA WritableAreBytes ==
  ASSUME NEW g \in Gets, Calls, pc[g] = "write"
  PROVE  Writable(g) \subseteq Bytes
  <1>1. size[g] \in Nat /\ nbytes[g] \in Nat /\ buf[g] \in Bytes
    BY DEF Calls, TypeOK
  <1>2. CASE nbytes[g] = ErrorLength
    <2>1. [i \in 1..size[g] + 1 |-> IF i <= size[g] THEN 0 ELSE Junk] \in Bytes
      BY <1>1 DEF Bytes
    <2> QED BY <1>2, <2>1, ContentsAreFiles DEF Writable
  <1>3. CASE nbytes[g] # ErrorLength
    <2>1. nbytes[g] = Len(buf[g])
      BY <1>3 DEF Calls, Knows, Fetched
    <2>2. \A k \in 0..nbytes[g] : SubSeq(buf[g], 1, k) \in Bytes
      BY <1>1, <2>1, Prefix
    <2> QED BY <1>3, <2>2 DEF Writable
  <1> QED BY <1>2, <1>3

LEMMA WriteStep ==
  ASSUME NEW g \in Gets, Calls, Write(g)
  PROVE  Calls'
  <1>1. pc[g] = "write" /\ UNCHANGED <<remote, source, creator, calls>>
    BY DEF Write
  <1>2. PICK bytes \in Writable(g) :
           /\ local' = [local EXCEPT ![To[g]] = IF creator[To[g]] = g THEN bytes ELSE @]
           /\ Fault \/ NoFault
           /\ \/ Goto(g, "unlink") /\ UNCHANGED <<callVars, outcome, window>>
              \/ Return(g, "ok", nbytes[g])
    BY DEF Write
  <1>3. TypeOK /\ faults' \in 0..MaxFaults
    BY <1>2, Faults DEF Calls
  <1>4. bytes \in Files
    BY <1>1, WritableAreBytes DEF Files
  <1>5. Around'
    BY <1>1, <1>2, <1>3, <1>4, ToAssumption DEF TypeOK, Around
  <1>6. ASSUME Goto(g, "unlink"), UNCHANGED <<callVars, outcome, window>>
        PROVE  Calls'
    <2>1. pc' = [pc EXCEPT ![g] = "unlink"] /\ pc'[g] = "unlink"
      BY <1>3, <1>6 DEF TypeOK, Goto
    <2>2. UNCHANGED <<kind, size, url, buf, nbytes, result, length, window>>
      BY <1>6 DEF callVars, outcome
    <2>3. /\ Kinds(g)' /\ Sized(g)' /\ Promised(g)' /\ Fetched(g)' /\ Readable(g)'
          /\ HasRead(g)'
      BY <1>1, <2>1, <2>2
      DEF Calls, Knows, Kinds, Sized, Promised, Fetched, Readable, HasRead
    <2> QED BY <1>1, <1>5, <2>1, <2>2, <2>3, MoveStep, ContentsAreFiles DEF States
  <1>7. ASSUME Return(g, "ok", nbytes[g]) PROVE Calls'
    <2>1. nbytes[g] \in Nat
      BY <1>3 DEF TypeOK
    <2> QED BY <1>1, <1>5, <1>7, <2>1, ReturnStep
  <1> QED BY <1>2, <1>6, <1>7

LEMMA UnlinkStep ==
  ASSUME NEW g \in Gets, Calls, Unlink(g)
  PROVE  Calls'
  <1>1. Around' /\ UNCHANGED <<remote, source>>
    BY DEF Calls, TypeOK, Around, Unlink, Files, NoFault
  <1> QED BY <1>1, ReturnStep DEF Unlink

-----------------------------------------------------------------------------
(* What calls know stays true: uploads.                                    *)

LEMMA ReadIsPrefix ==
  ASSUME source \in Bytes, NEW n \in Nat, n <= Len(source)
  PROVE  Read(n) = SubSeq(source, 1, n)
  <1>1. /\ Read(n) \in Seq(Byte \cup {0, Junk}) /\ Len(Read(n)) = n
        /\ \A i \in 1..n : Read(n)[i] = source[i]
    BY DEF Bytes, Read
  <1>2. /\ SubSeq(source, 1, n) \in Seq(Byte \cup {0, Junk})
        /\ Len(SubSeq(source, 1, n)) = n
        /\ \A i \in 1..n : SubSeq(source, 1, n)[i] = source[i]
    BY DEF Bytes
  <1> QED BY <1>1, <1>2, SeqEqual

LEMMA SeekStep ==
  ASSUME NEW g \in Gets, Calls, Seek(g)
  PROVE  Calls'
  <1>1. pc[g] = "seek" /\ Around' /\ UNCHANGED <<remote, source>>
    BY AroundStays DEF Seek
  <1>2. ASSUME Len(source) <= MaxSize, size' = [size EXCEPT ![g] = Len(source)],
               Goto(g, "read"), UNCHANGED <<kind, url, buf, nbytes, outcome, window>>
        PROVE  Calls'
    <2>1. source \in Bytes /\ Len(source) \in Nat
      BY DEF Calls, TypeOK, Bytes
    <2>2. /\ pc' = [pc EXCEPT ![g] = "read"] /\ pc'[g] = "read"
          /\ size'[g] = Len(source)
          /\ UNCHANGED <<kind, url, buf, nbytes, result, length, window>>
      BY <1>2 DEF Calls, TypeOK, Goto, outcome
    <2>3. kind[g] = "put" /\ result[g] = "none" /\ source \in window[g]
      BY <1>1 DEF Calls, Knows, Kinds, Seen
    <2>4. SubSeq(source, 1, Len(source)) = source
      BY <2>1, Prefix
    <2>5. /\ Kinds(g)' /\ Sized(g)' /\ Promised(g)' /\ Fetched(g)' /\ Readable(g)'
          /\ HasRead(g)'
      BY <1>1, <1>2, <2>1, <2>2, <2>3, <2>4
      DEF Kinds, Sized, Promised, Fetched, Readable, HasRead
    <2> QED BY <1>1, <1>2, <2>1, <2>2, <2>5, MoveStep, ContentsAreFiles DEF States
  <1>3. ASSUME Return(g, "error", 0) PROVE Calls'
    BY <1>1, <1>3, ReturnStep
  <1> QED BY <1>2, <1>3 DEF Seek

LEMMA ReadSourceStep ==
  ASSUME NEW g \in Gets, Calls, ReadSource(g)
  PROVE  Calls'
  <1>1. pc[g] = "read" /\ Around' /\ UNCHANGED <<remote, source>>
    BY AroundStays DEF ReadSource
  <1>2. ASSUME ~Missing(g), buf' = [buf EXCEPT ![g] = Read(size[g])],
               Goto(g, "send"), UNCHANGED <<kind, size, url, nbytes, outcome, window>>
        PROVE  Calls'
    <2>1. source \in Bytes /\ size[g] \in Nat /\ Len(source) \in Nat
      BY DEF Calls, TypeOK, Bytes
    <2>2. size[g] <= Len(source) /\ size[g] <= MaxSize
          /\ SubSeq(source, 1, size[g]) \in window[g]
      BY <1>1, <1>2, <2>1 DEF Missing, Calls, Knows, Readable
    <2>3. /\ Read(size[g]) \in Bytes /\ Read(size[g]) \in window[g]
          /\ Len(Read(size[g])) <= MaxSize
      BY <2>1, <2>2, ReadIsPrefix, Prefix
    <2>4. /\ pc' = [pc EXCEPT ![g] = "send"] /\ pc'[g] = "send"
          /\ buf'[g] = Read(size[g])
          /\ UNCHANGED <<kind, size, url, nbytes, result, length, window>>
      BY <1>2 DEF Calls, TypeOK, Goto, outcome
    <2>5. kind[g] = "put" /\ result[g] = "none"
      BY <1>1 DEF Calls, Knows, Kinds
    <2>6. /\ Kinds(g)' /\ Sized(g)' /\ Promised(g)' /\ Fetched(g)' /\ Readable(g)'
          /\ HasRead(g)'
      BY <2>3, <2>4, <2>5 DEF Kinds, Sized, Promised, Fetched, Readable, HasRead
    <2> QED BY <1>1, <1>2, <2>3, <2>4, <2>6, MoveStep DEF States
  <1>3. ASSUME Return(g, "error", 0) PROVE Calls'
    BY <1>1, <1>3, ReturnStep
  <1> QED BY <1>2, <1>3 DEF ReadSource

\* The remote file changes, and the calls of ended return.
LEMMA PutStep ==
  ASSUME Calls, NEW content \in Files, Short1(content), NEW ended \in SUBSET Gets,
         Put(content, ended), source' = source, TypeOK',
         \A d \in ended : pc'[d] = "idle",
         \A d \in Gets \ ended : Same(d)
  PROVE  Calls'
  <1>1. /\ remote' = [remote EXCEPT !["onedrive"] = content]
        /\ \A d \in Gets : window'[d] =
             IF d \in ended THEN {}
             ELSE IF pc[d] = "idle" \/ Ipfs(d) \/ kind[d] = "put" THEN window[d]
             ELSE window[d] \cup {content}
    BY DEF Put
  <1>2. /\ remote'["onedrive"] = content /\ remote'["ipfs"] = remote["ipfs"]
    BY <1>1 DEF Calls, TypeOK
  <1>3. Remotes'
    BY <1>2 DEF Calls, Remotes, Backends, Short1
  <1>4. ASSUME NEW d \in ended PROVE Knows(d)'
    BY <1>4 DEF Knows, Kinds, Seen, Sized, Promised, Fetched, Readable, HasRead
  <1>5. ASSUME NEW d \in Gets \ ended PROVE Knows(d)'
    <2>1. Knows(d) /\ Same(d)
      BY DEF Calls
    <2>2. window[d] \subseteq window'[d]
      BY <1>1
    <2>3. Kinds(d)' /\ Sized(d)' /\ Promised(d)' /\ Fetched(d)' /\ Readable(d)'
          /\ HasRead(d)'
      BY <2>1, <2>2
      DEF Same, Knows, Kinds, Sized, Promised, Fetched, Readable, HasRead
    <2>4. Backend[d] = "onedrive" \/ Ipfs(d)
      BY BackendAssumption DEF Ipfs
    <2>5. CASE pc[d] = "idle"
      BY <2>1, <2>3, <2>5 DEF Knows, Same, Seen
    <2>6. CASE pc[d] # "idle" /\ kind[d] = "put"
      BY <1>1, <2>1, <2>3, <2>6 DEF Knows, Same, Seen
    <2>7. CASE pc[d] # "idle" /\ kind[d] # "put" /\ Ipfs(d)
      BY <1>1, <1>2, <2>1, <2>3, <2>7 DEF Knows, Same, Seen, Ipfs, Source, Short1
    <2>8. CASE pc[d] # "idle" /\ kind[d] # "put" /\ ~Ipfs(d)
      <3>1. Source(d)' = content /\ window'[d] = window[d] \cup {content}
        BY <1>1, <1>2, <2>4, <2>8 DEF Source
      <3>2. /\ pc'[d] = pc[d] /\ kind'[d] = kind[d] /\ Ipfs(d)' = Ipfs(d)
            /\ \A c \in window[d] : Short1(c)
        BY <2>1, <2>8 DEF Knows, Same, Seen, Ipfs
      <3>3. \A c \in window'[d] : Short1(c)'
        BY <3>1, <3>2 DEF Short1
      <3>4. Seen(d)'
        BY <2>8, <3>1, <3>2, <3>3 DEF Seen
      <3> QED BY <2>3, <3>4 DEF Knows
    <2> QED BY <2>5, <2>6, <2>7, <2>8
  <1> QED BY <1>3, <1>4, <1>5 DEF Calls

LEMMA PutTyped ==
  ASSUME TypeOK, NEW content \in Files, NEW ended \in SUBSET Gets, Put(content, ended)
  PROVE  /\ remote' \in [{"onedrive", "ipfs"} -> Files]
         /\ window' \in [Gets -> SUBSET Files]
  BY DEF TypeOK, Put

\* The call returns, and the rest of its types.
LEMMA EndTyped ==
  ASSUME TypeOK, NEW g \in Gets, NEW r \in {"ok", "error", "again"}, NEW n \in Nat,
         End(g, r, n)
  PROVE  /\ pc' \in [Gets -> States \cup {"idle"}] /\ pc'[g] = "idle"
         /\ kind' = kind
         /\ size' \in [Gets -> Nat] /\ nbytes' \in [Gets -> Nat]
         /\ url' \in [Gets -> Bytes] /\ buf' \in [Gets -> Bytes]
         /\ result' \in [Gets -> {"none", "ok", "error", "again"}]
         /\ length' \in [Gets -> Nat]
         /\ \A d \in Gets : pc'[d] = "idle" => buf'[d] = <<>> /\ nbytes'[d] = 0
         /\ \A d \in Gets \ {g} : Same(d)
  <1>1. <<>> \in Bytes
    BY ContentsAreFiles
  <1>2. /\ pc' = [pc EXCEPT ![g] = "idle"] /\ kind' = kind
        /\ size' = [size EXCEPT ![g] = 0] /\ nbytes' = [nbytes EXCEPT ![g] = 0]
        /\ url' = [url EXCEPT ![g] = <<>>] /\ buf' = [buf EXCEPT ![g] = <<>>]
        /\ result' = [result EXCEPT ![g] = r] /\ length' = [length EXCEPT ![g] = n]
    BY DEF End, Goto, Free
  <1>3. pc \in [Gets -> States \cup {"idle"}]
    BY DEF TypeOK, States
  <1>4. /\ pc' \in [Gets -> States \cup {"idle"}] /\ pc'[g] = "idle"
    BY <1>2, <1>3
  <1>5. /\ size' \in [Gets -> Nat] /\ nbytes' \in [Gets -> Nat]
        /\ url' \in [Gets -> Bytes] /\ buf' \in [Gets -> Bytes]
        /\ result' \in [Gets -> {"none", "ok", "error", "again"}]
        /\ length' \in [Gets -> Nat]
    BY <1>1, <1>2 DEF TypeOK
  <1>6. \A d \in Gets \ {g} : Same(d)
    BY <1>2 DEF TypeOK, Same
  <1>7. \A d \in Gets : pc'[d] = "idle" => buf'[d] = <<>> /\ nbytes'[d] = 0
    BY <1>2 DEF TypeOK
  <1> QED BY <1>2, <1>4, <1>5, <1>6, <1>7

LEMMA CallEnds ==
  ASSUME TypeOK, NEW g \in Gets, NEW r \in {"ok", "error", "again"}, NEW n \in Nat,
         End(g, r, n), source' = source, Around',
         remote' \in [{"onedrive", "ipfs"} -> Files], window' \in [Gets -> SUBSET Files]
  PROVE  TypeOK' /\ pc'[g] = "idle" /\ \A d \in Gets \ {g} : Same(d)
  <1>1. /\ pc' \in [Gets -> States \cup {"idle"}] /\ pc'[g] = "idle"
        /\ kind' = kind
        /\ size' \in [Gets -> Nat] /\ nbytes' \in [Gets -> Nat]
        /\ url' \in [Gets -> Bytes] /\ buf' \in [Gets -> Bytes]
        /\ result' \in [Gets -> {"none", "ok", "error", "again"}]
        /\ length' \in [Gets -> Nat]
        /\ \A d \in Gets : pc'[d] = "idle" => buf'[d] = <<>> /\ nbytes'[d] = 0
        /\ \A d \in Gets \ {g} : Same(d)
    BY EndTyped
  <1>2. /\ kind' \in [Gets -> {"file", "buffer", "put", "delete"}]
        /\ source' \in Bytes
    BY <1>1 DEF TypeOK
  <1>3. /\ local'   \in [Paths -> Files]
        /\ creator' \in [Paths -> Gets \cup {User}]
        /\ calls'   \in 0..MaxCalls
        /\ faults'  \in 0..MaxFaults
    BY DEF Around
  <1>4. States \cup {"idle"} = {"idle", "length", "create", "info", "download", "write",
                               "unlink", "seek", "read", "send", "delete", "dead"}
    BY DEF States
  <1>5. TypeOK'
    BY <1>1, <1>2, <1>3, <1>4, Zenon DEF TypeOK
  <1> QED BY <1>1, <1>5

LEMMA SendStep ==
  ASSUME NEW g \in Gets, Calls, Send(g)
  PROVE  Calls'
  <1>1. pc[g] = "send" /\ source' = source /\ Around'
    BY AroundStays DEF Send
  <1>2. TypeOK
    BY DEF Calls
  <1>3. /\ buf[g] \in Files /\ Short1(buf[g])
    BY <1>1, <1>2, ContentsAreFiles
    DEF Calls, Knows, HasRead, TypeOK, Files
  <1>4. PICK r \in {"ok", "error"} : End(g, r, 0)
    BY DEF Send
  <1>5. CASE Ipfs(g)
    BY <1>1, <1>4, <1>5, ReturnStep DEF Send, Return
  <1>6. CASE ~Ipfs(g)
    <2>1. Put(buf[g], {g})
      BY <1>6 DEF Send
    <2>2. /\ remote' \in [{"onedrive", "ipfs"} -> Files]
          /\ window' \in [Gets -> SUBSET Files]
      BY <1>2, <1>3, <2>1, PutTyped
    <2>3. TypeOK' /\ pc'[g] = "idle" /\ \A d \in Gets \ {g} : Same(d)
      BY <1>1, <1>2, <1>4, <2>2, CallEnds
    <2> QED BY <1>1, <1>3, <2>1, <2>3, PutStep
  <1> QED BY <1>5, <1>6

LEMMA DeleteStep ==
  ASSUME NEW g \in Gets, Calls, Delete(g)
  PROVE  Calls'
  <1>1. pc[g] = "delete" /\ source' = source /\ Around'
    BY AroundStays DEF Delete
  <1>2. TypeOK /\ NoFile \in Files /\ Short1(NoFile)
    BY ContentsAreFiles DEF Calls, Files
  <1>3. ASSUME Return(g, "error", 0), UNCHANGED remote PROVE Calls'
    BY <1>1, <1>3, ReturnStep
  <1>4. ASSUME NEW r \in {"ok", "error"}, End(g, r, 0), Put(NoFile, {g})
        PROVE  Calls'
    <2>1. /\ remote' \in [{"onedrive", "ipfs"} -> Files]
          /\ window' \in [Gets -> SUBSET Files]
      BY <1>2, <1>4, PutTyped
    <2>2. TypeOK' /\ pc'[g] = "idle" /\ \A d \in Gets \ {g} : Same(d)
      BY <1>1, <1>2, <1>4, <2>1, CallEnds
    <2> QED BY <1>1, <1>2, <1>4, <2>2, PutStep
  <1> QED BY <1>3, <1>4 DEF Delete

-----------------------------------------------------------------------------
(* What calls know stays true: the world around.                           *)

LEMMA CrashStep ==
  ASSUME NEW g \in Gets, Calls, Crash(g)
  PROVE  Calls'
  <1>1. Around' /\ pc[g] # "idle" /\ pc' = [pc EXCEPT ![g] = "dead"]
    BY AroundStays DEF Crash, Goto
  <1>2. UNCHANGED <<remote, source, kind, size, url, buf, nbytes, result, length, window>>
    BY DEF Crash, callVars, outcome
  <1>3. pc'[g] = "dead"
    BY <1>1 DEF Calls, TypeOK
  <1>4. /\ Kinds(g)' /\ Sized(g)' /\ Promised(g)' /\ Fetched(g)' /\ Readable(g)'
        /\ HasRead(g)'
    BY <1>1, <1>2, <1>3
    DEF Calls, Knows, Kinds, Sized, Promised, Fetched, Readable, HasRead
  <1> QED BY <1>1, <1>2, <1>4, MoveStep, ContentsAreFiles DEF States

LEMMA ReplaceStep ==
  ASSUME Calls, NEW v \in Contents \cup {NoFile}, Replace(v)
  PROVE  Calls'
  <1>1. v \in Files /\ Short1(v)
    BY ContentsAreFiles DEF Files
  <1>2. /\ UNCHANGED <<source, local, creator, pc, kind, size, url, buf, nbytes,
                       result, length, calls>>
        /\ Put(v, {}) /\ Fault
    BY DEF Replace, disk, callVars, outcome
  <1>3. TypeOK
    BY DEF Calls
  <1>4. TypeOK'
    <2>1. /\ remote' \in [{"onedrive", "ipfs"} -> Files]
          /\ window' \in [Gets -> SUBSET Files]
          /\ faults' \in 0..MaxFaults
      BY <1>1, <1>2, <1>3, PutTyped, Faults
    <2> QED BY <1>2, <1>3, <2>1 DEF TypeOK
  <1>5. \A d \in Gets : Same(d)
    BY <1>2 DEF Same
  <1> QED BY <1>1, <1>2, <1>4, <1>5, PutStep

LEMMA EditStep ==
  ASSUME Calls, NEW content \in Bytes, Edit(content),
         \A n \in 0..Len(content) : n <= Len(source)
           => SubSeq(content, 1, n) = SubSeq(source, 1, n),
         Len(content) <= Len(source) + 1
  PROVE  Calls'
  <1>1. /\ UNCHANGED <<remote, local, creator, pc, kind, size, url, buf, nbytes,
                       result, length, calls>>
        /\ source' = content /\ Fault
        /\ window' = [g \in Gets |->
                        IF pc[g] = "idle" \/ kind[g] # "put" THEN window[g]
                        ELSE window[g] \cup {content}]
    BY DEF Edit, disk, callVars, outcome
  <1>2. TypeOK /\ content \in Files
    BY DEF Calls, Files
  <1>3. TypeOK'
    <2>1. window' \in [Gets -> SUBSET Files] /\ faults' \in 0..MaxFaults
      BY <1>1, <1>2, Faults DEF TypeOK
    <2> QED BY <1>1, <1>2, <2>1 DEF TypeOK
  <1>4. Remotes'
    BY <1>1 DEF Calls, Remotes, Short1
  <1>5. ASSUME NEW d \in Gets PROVE Knows(d)'
    <2>1. Knows(d) /\ Same(d) /\ window[d] \subseteq window'[d]
      BY <1>1 DEF Calls, Same
    <2>2. Kinds(d)' /\ Sized(d)' /\ Promised(d)' /\ Fetched(d)' /\ HasRead(d)'
      BY <2>1 DEF Same, Knows, Kinds, Sized, Promised, Fetched, HasRead
    <2>3. Seen(d)'
      BY <1>1, <2>1 DEF Same, Knows, Seen, Source, Ipfs, Short1
    <2>4. Readable(d)'
      <3>1. SUFFICES ASSUME pc[d] = "read", Len(content) >= size[d]
                     PROVE  SubSeq(content, 1, size[d]) \in window'[d]
        BY <1>1, <2>1 DEF Knows, Readable
      <3>2. /\ size[d] \in Nat /\ Len(content) \in Nat /\ Len(source) \in Nat
            /\ size[d] <= MaxSize /\ kind[d] = "put"
        BY <1>2, <2>1, <3>1 DEF TypeOK, Bytes, Knows, Kinds, Readable
      <3>3. CASE size[d] <= Len(source)
        <4>1. SubSeq(content, 1, size[d]) = SubSeq(source, 1, size[d])
          BY <3>1, <3>2, <3>3
        <4>2. SubSeq(source, 1, size[d]) \in window[d]
          BY <2>1, <3>1, <3>2, <3>3 DEF Knows, Readable
        <4> QED BY <2>1, <4>1, <4>2
      <3>4. CASE size[d] > Len(source)
        <4>1. size[d] = Len(content)
          BY <3>1, <3>2, <3>4
        <4>2. SubSeq(content, 1, size[d]) = content
          BY <3>2, <4>1, Prefix
        <4>3. content \in window'[d]
          BY <1>1, <3>1, <3>2
        <4> QED BY <3>2, <4>2, <4>3
      <3> QED BY <3>2, <3>3, <3>4
    <2> QED BY <2>2, <2>3, <2>4 DEF Knows
  <1> QED BY <1>3, <1>4, <1>5 DEF Calls

LEMMA GrowStep ==
  ASSUME Calls, Grow
  PROVE  Calls'
  <1>1. source \in Bytes /\ Len(source) \in Nat
    BY DEF Calls, TypeOK, Bytes
  <1>2. PICK b \in Byte : Edit(Append(source, b))
    BY DEF Grow
  <1>3. /\ Append(source, b) \in Bytes
        /\ Len(Append(source, b)) = Len(source) + 1
        /\ \A n \in 0..Len(source) : SubSeq(Append(source, b), 1, n) = SubSeq(source, 1, n)
    BY <1>1, Grown
  <1>4. \A n \in 0..Len(Append(source, b)) : n <= Len(source)
          => SubSeq(Append(source, b), 1, n) = SubSeq(source, 1, n)
    BY <1>1, <1>3
  <1>5. Len(Append(source, b)) <= Len(source) + 1
    BY <1>1, <1>3
  <1> QED BY <1>2, <1>3, <1>4, <1>5, EditStep

LEMMA CutStep ==
  ASSUME Calls, Cut
  PROVE  Calls'
  <1>1. source \in Bytes /\ Len(source) \in Nat
    BY DEF Calls, TypeOK, Bytes
  <1>2. PICK k \in 0..Len(source) - 1 : Edit(SubSeq(source, 1, k))
    BY DEF Cut
  <1>3. k \in Nat /\ k <= Len(source)
    BY <1>1, <1>2
  <1>4. SubSeq(source, 1, k) \in Bytes /\ Len(SubSeq(source, 1, k)) = k
    BY <1>1, <1>3, Prefix
  <1>5. \A n \in 0..k : SubSeq(SubSeq(source, 1, k), 1, n) = SubSeq(source, 1, n)
    <2>1. TAKE n \in 0..k
    <2>2. n \in Nat /\ n <= Len(source) /\ k \in n..Len(source)
      BY <1>1, <1>3
    <2> QED BY <1>1, <2>2, Prefix
  <1>6. \A n \in 0..Len(SubSeq(source, 1, k)) : n <= Len(source)
          => SubSeq(SubSeq(source, 1, k), 1, n) = SubSeq(source, 1, n)
    BY <1>4, <1>5
  <1>7. Len(SubSeq(source, 1, k)) <= Len(source) + 1
    BY <1>1, <1>3, <1>4
  <1> QED BY <1>2, <1>4, <1>6, <1>7, EditStep

LEMMA ClearStep ==
  ASSUME Calls, NEW p \in Paths, Clear(p)
  PROVE  Calls'
  <1>1. /\ UNCHANGED <<remote, source, pc, kind, size, url, buf, nbytes, result,
                       length, calls, faults, window>>
        /\ local' = [local EXCEPT ![p] = NoFile]
        /\ creator' = [creator EXCEPT ![p] = User]
    BY DEF Clear, NoFault, callVars, outcome
  <1>2. TypeOK'
    BY <1>1 DEF Calls, TypeOK, Files
  <1>3. Remotes'
    BY <1>1 DEF Calls, Remotes, Short1
  <1>4. ASSUME NEW d \in Gets PROVE Knows(d)'
    BY <1>1 DEF Calls, Knows, Kinds, Seen, Sized, Promised, Fetched, Readable,
                HasRead, Source, Ipfs, Short1
  <1> QED BY <1>2, <1>3, <1>4 DEF Calls

-----------------------------------------------------------------------------
(* What calls know is an invariant.                                        *)

LEMMA InitCalls ==
  ASSUME Init
  PROVE  Calls
  <1>1. TypeOK
    <2>1. Contents \subseteq Files /\ NoFile \in Files /\ <<>> \in Files /\ <<>> \in Bytes
      BY ContentsAreFiles DEF Files
    <2>2. source \in Bytes
      BY ContentsAreFiles DEF Init
    <2>3. remote \in [{"onedrive", "ipfs"} -> Files] /\ local \in [Paths -> Files]
      BY <2>1 DEF Init
    <2>4. calls \in 0..MaxCalls /\ faults \in 0..MaxFaults
      BY BoundsAssumption DEF Init
    <2> QED BY <2>1, <2>2, <2>3, <2>4 DEF Init, TypeOK
  <1>2. Remotes
    BY ContentsAreFiles DEF Init, Remotes, Backends
  <1>3. \A g \in Gets : pc[g] = "idle" /\ window[g] = {}
    BY DEF Init
  <1> QED BY <1>1, <1>2, <1>3, Idle DEF Calls

LEMMA NextCalls ==
  ASSUME Calls, [Next]_vars
  PROVE  Calls'
  <1>1. ASSUME NEW g \in Gets, Step(g) PROVE Calls'
    <2>1. ASSUME NEW k \in {"file", "buffer", "put", "delete"},
                 NEW v \in Contents \cup {<<>>}, Call(g, k, Len(v))
          PROVE  Calls'
      BY <2>1, CallStep
    <2> QED BY <1>1, <2>1, RefusedStep, GetLengthStep, CreateStep, GetInfoStep,
               DownloadStep, WriteStep, UnlinkStep, SeekStep, ReadSourceStep, SendStep,
               DeleteStep, CrashStep
            DEF Step
  <1>2. CASE UNCHANGED vars
    BY <1>2 DEF vars, disk, callVars, outcome, Calls, TypeOK, Remotes, Knows, Kinds,
                Seen, Sized, Promised, Fetched, Readable, HasRead, Source, Ipfs, Short1
  <1> QED BY <1>1, <1>2, ReplaceStep, GrowStep, CutStep, ClearStep DEF Next

THEOREM Invariance == Spec => []Calls
  BY InitCalls, NextCalls, PTL DEF Spec

\* Types hold throughout, and an idle call holds no buffer (Free on each return of
\* hive_get_file, hive_put_file and hive_delete_file).
THEOREM TypeCorrect == Spec => []TypeOK
  <1>1. Calls => TypeOK
    BY DEF Calls
  <1> QED BY <1>1, Invariance, PTL

-----------------------------------------------------------------------------
(* Uploads.                                                                *)

LEMMA PutsWhole ==
  ASSUME Calls, [Next]_vars, NEW g \in Gets, pc[g] = "send", result'[g] = "ok"
  PROVE  (IF Ipfs(g) THEN buf[g] ELSE remote'["onedrive"]) \in window[g]
  <1>1. buf[g] \in window[g] /\ result[g] = "none" /\ TypeOK
    BY DEF Calls, Knows, Kinds, HasRead
  <1>2. result'[g] # result[g]
    BY <1>1
  <1>3. ASSUME NEW d \in Gets, d # g, Step(d) PROVE result'[g] = result[g]
    BY <1>1, <1>3
    DEF Step, TypeOK, Call, Refused, GetLength, Create, GetInfo, Download, Write, Unlink,
        Seek, ReadSource, Send, Delete, Crash, Return, End, Deliver, outcome
  <1>4. ASSUME Step(g) PROVE Send(g) \/ result'[g] # "ok"
    BY <1>1, <1>4
    DEF Step, TypeOK, Call, Refused, GetLength, Create, GetInfo, Download, Write, Unlink,
        Seek, ReadSource, Delete, Crash, Return, End, outcome
  <1>5. ASSUME ~\E d \in Gets : Step(d) PROVE result' = result
    BY <1>5 DEF Next, vars, outcome, Replace, Grow, Cut, Edit, Clear
  <1>6. Send(g)
    BY <1>2, <1>3, <1>4, <1>5
  <1>7. remote \in [{"onedrive", "ipfs"} -> Files]
    BY <1>1 DEF TypeOK
  <1> QED BY <1>1, <1>6, <1>7 DEF Send, Put

\* An upload that returns 0 has stored one content that the local file held during
\* the call (hive_put_file: lseek, read and its check).
THEOREM AlwaysPutWhole == Spec => PutIsWhole
  <1>1. Calls /\ [Next]_vars
          => [\A g \in Gets :
                pc[g] = "send" /\ result'[g] = "ok"
                  => (IF Ipfs(g) THEN buf[g] ELSE remote'["onedrive"]) \in window[g]]_vars
    BY PutsWhole
  <1> QED BY <1>1, Invariance, PTL DEF Spec, PutIsWhole

-----------------------------------------------------------------------------
(* The local disk.                                                         *)

\* What a download from IPFS created is empty or whole, or about to be unlinked,
\* or its process has died; and it lies where that download puts its files.
Tidy(p) ==
    creator[p] \in Gets /\ local[p] # NoFile /\ Ipfs(creator[p])
      => /\ p = To[creator[p]]
         /\ \/ local[p] \in {<<>>, Source(creator[p])}
            \/ pc[creator[p]] \in {"unlink", "dead"}

Disks == \A p \in Paths : Tidy(p)

\* A call that has created its file still has it.
Owns(g) ==
    kind[g] = "file" /\ pc[g] \in {"info", "download", "write", "unlink"}
      => creator[To[g]] = g /\ local[To[g]] # NoFile

Owners == \A g \in Gets : Owns(g)

LEMMA DisksKept ==
  ASSUME Disks, UNCHANGED <<local, creator>>, remote'["ipfs"] = remote["ipfs"],
         \A d \in Gets : pc[d] \in {"unlink", "dead"} => pc'[d] \in {"unlink", "dead"}
  PROVE  Disks'
  BY DEF Disks, Tidy, Ipfs, Source

LEMMA OwnersKept ==
  ASSUME Owners, UNCHANGED <<local, creator, kind>>,
         \A d \in Gets : pc'[d] \in {"info", "download", "write", "unlink"}
                           /\ kind[d] = "file"
           => pc[d] \in {"info", "download", "write", "unlink"}
  PROVE  Owners'
  BY DEF Owners, Owns

\* A whole write leaves the whole file, and any other one leads to unlink.
LEMMA WholeWrite ==
  ASSUME NEW g \in Gets, Calls, pc[g] = "write", NEW bytes \in Writable(g)
  PROVE  /\ bytes \in Bytes
         /\ Len(bytes) = nbytes[g] => bytes \in window[g]
  <1>1. bytes \in Bytes
    BY WritableAreBytes
  <1>2. /\ size[g] \in Nat /\ size[g] + 1 # ErrorLength /\ ErrorLength > 0
        /\ buf[g] \in Bytes
    BY ErrorLengthAssumption, MaxSizeAssumption DEF Calls, TypeOK, Knows, Kinds, Sized
  <1>3. CASE nbytes[g] = ErrorLength
    <2>1. Len(<<>>) = 0
      OBVIOUS
    <2>2. Len([i \in 1..size[g] + 1 |-> IF i <= size[g] THEN 0 ELSE Junk]) = size[g] + 1
      BY <1>2
    <2>3. Len(bytes) # ErrorLength
      BY <1>2, <1>3, <2>1, <2>2 DEF Writable
    <2> QED BY <1>1, <1>3, <2>3
  <1>4. CASE nbytes[g] # ErrorLength
    <2>1. buf[g] \in window[g] /\ nbytes[g] = Len(buf[g])
      BY <1>4 DEF Calls, Knows, Fetched
    <2>2. PICK k \in 0..nbytes[g] : bytes = SubSeq(buf[g], 1, k)
      BY <1>4 DEF Writable
    <2>3. k \in Nat /\ k <= Len(buf[g])
      BY <1>2, <2>1, <2>2 DEF Bytes
    <2>4. Len(bytes) = k /\ (k = Len(buf[g]) => bytes = buf[g])
      BY <1>2, <2>2, <2>3, Prefix
    <2> QED BY <1>1, <2>1, <2>4
  <1> QED BY <1>3, <1>4

LEMMA CreateDisks ==
  ASSUME NEW g \in Gets, Calls, Create(g)
  PROVE  (Disks => Disks') /\ (Owners => Owners')
  <1>1. /\ TypeOK /\ pc[g] = "create" /\ To[g] \in Paths /\ <<>> # NoFile
        /\ UNCHANGED <<remote, kind>>
    BY ToAssumption, ContentsAreFiles DEF Calls, Create, Return, End, callVars
  <1>2. pc' = [pc EXCEPT ![g] = "idle"] \/ pc' = [pc EXCEPT ![g] = "info"]
    BY DEF Create, Return, End, Goto
  <1>3. \A d \in Gets \ {g} : pc'[d] = pc[d]
    BY <1>1, <1>2 DEF TypeOK
  <1>4. CASE Exists(To[g])
    <2>1. UNCHANGED <<local, creator>> /\ pc'[g] = "idle"
      BY <1>1, <1>4 DEF Create, Return, End, Goto, disk, TypeOK
    <2> QED BY <1>1, <1>3, <2>1, DisksKept, OwnersKept
  <1>5. CASE ~Exists(To[g])
    <2>1. /\ local' = [local EXCEPT ![To[g]] = <<>>]
          /\ creator' = [creator EXCEPT ![To[g]] = g]
      BY <1>5 DEF Create
    <2>2. /\ local'[To[g]] = <<>> /\ creator'[To[g]] = g
          /\ \A p \in Paths \ {To[g]} : local'[p] = local[p] /\ creator'[p] = creator[p]
      BY <1>1, <2>1 DEF TypeOK
    <2>3. ASSUME Disks, NEW p \in Paths PROVE Tidy(p)'
      <3>1. CASE p = To[g]
        BY <2>2, <3>1 DEF Tidy
      <3>2. CASE p # To[g]
        BY <1>1, <1>3, <2>2, <2>3, <3>2 DEF Disks, Tidy, Ipfs, Source
      <3> QED BY <3>1, <3>2
    <2>4. ASSUME Owners, NEW d \in Gets PROVE Owns(d)'
      <3>1. CASE d = g
        BY <1>1, <2>2, <3>1 DEF Owns
      <3>2. CASE d # g
        <4>1. To[d] \in Paths
          BY ToAssumption
        <4> QED BY <1>1, <1>3, <1>5, <2>2, <2>4, <3>2, <4>1 DEF Owners, Owns, Exists
      <3> QED BY <3>1, <3>2
    <2> QED BY <2>3, <2>4 DEF Disks, Owners
  <1> QED BY <1>4, <1>5

LEMMA WriteDisks ==
  ASSUME NEW g \in Gets, Calls, Write(g)
  PROVE  (Disks => Disks') /\ (Owners => Owners')
  <1>1. /\ TypeOK /\ pc[g] = "write" /\ kind[g] = "file" /\ To[g] \in Paths
        /\ UNCHANGED <<remote, kind, creator>>
    BY ToAssumption DEF Calls, Knows, Kinds, Write, Return, End, callVars
  <1>2. PICK bytes \in Writable(g) :
           /\ local' = [local EXCEPT ![To[g]] = IF creator[To[g]] = g THEN bytes ELSE @]
           /\ IF Short(Len(bytes), nbytes[g])
              THEN pc' = [pc EXCEPT ![g] = "unlink"]
              ELSE pc' = [pc EXCEPT ![g] = "idle"]
    BY DEF Write, Return, End, Goto
  <1>3. /\ bytes \in Bytes /\ bytes # NoFile
        /\ Len(bytes) = nbytes[g] => bytes \in window[g]
    BY <1>1, WholeWrite, ContentsAreFiles
  <1>4. /\ \A d \in Gets \ {g} : pc'[d] = pc[d]
        /\ pc'[g] = IF Short(Len(bytes), nbytes[g]) THEN "unlink" ELSE "idle"
    BY <1>1, <1>2 DEF TypeOK
  <1>5. /\ local'[To[g]] = IF creator[To[g]] = g THEN bytes ELSE local[To[g]]
        /\ \A p \in Paths \ {To[g]} : local'[p] = local[p]
    BY <1>1, <1>2 DEF TypeOK
  <1>6. Ipfs(g) /\ Len(bytes) = nbytes[g] => bytes = Source(g)
    BY <1>1, <1>3 DEF Calls, Knows, Seen
  <1>7. ASSUME Disks, NEW p \in Paths PROVE Tidy(p)'
    <2>1. CASE p = To[g] /\ creator[p] = g
      BY <1>1, <1>4, <1>5, <1>6, <2>1 DEF Tidy, Ipfs, Source, Short
    <2>2. CASE ~(p = To[g] /\ creator[p] = g)
      <3>1. local'[p] = local[p]
        BY <1>5, <2>2
      <3>2. CASE creator[p] = g
        BY <1>1, <1>7, <2>2, <3>1, <3>2 DEF Disks, Tidy, Ipfs
      <3>3. CASE creator[p] # g
        BY <1>1, <1>4, <1>7, <3>1, <3>3 DEF Disks, Tidy, Ipfs, Source
      <3> QED BY <3>2, <3>3
    <2> QED BY <2>1, <2>2
  <1>8. ASSUME Owners, NEW d \in Gets PROVE Owns(d)'
    <2>1. To[d] \in Paths
      BY ToAssumption
    <2>2. local[To[d]] # NoFile => local'[To[d]] # NoFile
      BY <1>3, <1>5, <2>1
    <2> QED BY <1>1, <1>4, <1>8, <2>2 DEF Owners, Owns
  <1> QED BY <1>7, <1>8 DEF Disks, Owners

LEMMA UnlinkDisks ==
  ASSUME NEW g \in Gets, Calls, Unlink(g)
  PROVE  /\ Disks => Disks'
         /\ Owners /\ (\A d \in Gets : To[d] # Filename) => Owners'
  <1>1. /\ TypeOK /\ pc[g] = "unlink" /\ kind[g] = "file" /\ To[g] \in Paths
        /\ UNCHANGED <<remote, kind>>
        /\ pc' = [pc EXCEPT ![g] = "idle"]
        /\ local' = [local EXCEPT ![Unlinked(g)] = NoFile]
        /\ creator' = [creator EXCEPT ![Unlinked(g)] = User]
    BY ToAssumption DEF Calls, Knows, Kinds, Unlink, Return, End, Goto
  <1>2. /\ \A d \in Gets \ {g} : pc'[d] = pc[d]
        /\ pc'[g] = "idle"
    BY <1>1 DEF TypeOK
  <1>3. \A p \in Paths : IF p = Unlinked(g) THEN local'[p] = NoFile
                         ELSE local'[p] = local[p] /\ creator'[p] = creator[p]
    BY <1>1 DEF TypeOK
  <1>4. ASSUME Disks, NEW p \in Paths PROVE Tidy(p)'
    <2>1. CASE p = Unlinked(g)
      BY <1>3, <2>1 DEF Tidy
    <2>2. CASE p # Unlinked(g) /\ creator[p] # g
      BY <1>1, <1>2, <1>3, <1>4, <2>2 DEF Disks, Tidy, Ipfs, Source
    <2>3. CASE p # Unlinked(g) /\ creator[p] = g
      BY <1>1, <1>3, <1>4, <2>3 DEF Disks, Tidy, Ipfs, Unlinked
    <2> QED BY <2>1, <2>2, <2>3
  <1>5. ASSUME Owners, \A d \in Gets : To[d] # Filename, NEW d \in Gets
        PROVE  Owns(d)'
    <2>1. To[d] \in Paths
      BY ToAssumption
    <2>2. CASE d = g
      BY <1>2, <2>2 DEF Owns
    <2>3. CASE d # g /\ To[d] = To[g]
      <3>1. creator[To[g]] = g
        BY <1>1, <1>5 DEF Owners, Owns
      <3> QED BY <1>1, <1>2, <1>5, <2>3, <3>1 DEF Owners, Owns
    <2>4. CASE d # g /\ To[d] # To[g]
      <3>1. To[d] # Unlinked(g)
        BY <1>5, <2>4 DEF Unlinked
      <3> QED BY <1>1, <1>2, <1>3, <1>5, <2>1, <2>4, <3>1 DEF Owners, Owns
    <2> QED BY <2>2, <2>3, <2>4
  <1> QED BY <1>4, <1>5 DEF Disks, Owners

\* A step that leaves the files of this machine alone.
LEMMA OtherDisks ==
  ASSUME NEW g \in Gets, Calls, Step(g), ~Create(g), ~Write(g), ~Unlink(g)
  PROVE  (Disks => Disks') /\ (Owners => Owners')
  <1>1. TypeOK /\ UNCHANGED <<local, creator>>
    BY DEF Calls, Step, disk, Call, Refused, GetLength, GetInfo, Download, Seek,
           ReadSource, Send, Delete, Crash
  <1>2. remote'["ipfs"] = remote["ipfs"]
    BY <1>1 DEF TypeOK, Step, Call, Refused, GetLength, GetInfo, Download, Seek,
                ReadSource, Send, Delete, Crash, Put
  <1>3. \A d \in Gets \ {g} : pc'[d] = pc[d] /\ kind'[d] = kind[d]
    BY <1>1 DEF TypeOK, Step, Call, Refused, GetLength, GetInfo, Download, Seek,
                ReadSource, Send, Delete, Crash, Goto, Return, End, Deliver, callVars
  <1>4. pc[g] \in {"unlink", "dead"} => pc'[g] \in {"unlink", "dead"}
    BY <1>1 DEF TypeOK, Step, Call, Refused, GetLength, GetInfo, Download, Seek,
                ReadSource, Send, Delete, Crash, Goto
  <1>5. pc'[g] \in {"info", "download", "write", "unlink"} /\ kind'[g] = "file"
          => pc[g] \in {"info", "download"} /\ kind[g] = "file"
    BY <1>1 DEF TypeOK, Step, Call, Refused, GetLength, GetInfo, Download, Seek,
                ReadSource, Send, Delete, Crash, Goto, Return, End, Deliver, callVars
  <1>6. Owners => Owners'
    BY <1>1, <1>3, <1>5 DEF Owners, Owns
  <1>7. \A d \in Gets : pc[d] \in {"unlink", "dead"} => pc'[d] \in {"unlink", "dead"}
    BY <1>3, <1>4
  <1> QED BY <1>1, <1>2, <1>6, <1>7, DisksKept

LEMMA WorldDisks ==
  ASSUME Calls, \/ UNCHANGED vars \/ Grow \/ Cut
                \/ \E v \in Contents \cup {NoFile} : Replace(v)
  PROVE  (Disks => Disks') /\ (Owners => Owners')
  <1>1. TypeOK /\ UNCHANGED <<local, creator, pc, kind>>
    BY DEF Calls, vars, disk, callVars, Grow, Cut, Edit, Replace
  <1>2. remote'["ipfs"] = remote["ipfs"]
    BY <1>1 DEF TypeOK, vars, Grow, Cut, Edit, Replace, Put
  <1> QED BY <1>1, <1>2, DisksKept, OwnersKept

LEMMA ClearDisks ==
  ASSUME NEW p \in Paths, Calls, Clear(p)
  PROVE  (Disks => Disks') /\ (Owners => Owners')
  <1>1. /\ TypeOK /\ UNCHANGED <<remote, pc, kind>>
        /\ local' = [local EXCEPT ![p] = NoFile]
        /\ creator' = [creator EXCEPT ![p] = User]
        /\ \A g \in Gets : To[g] = p => pc[g] = "idle"
    BY DEF Calls, Clear, callVars
  <1>2. \A q \in Paths : IF q = p THEN local'[q] = NoFile
                         ELSE local'[q] = local[q] /\ creator'[q] = creator[q]
    BY <1>1 DEF TypeOK
  <1>3. Disks => Disks'
    BY <1>1, <1>2 DEF Disks, Tidy, Ipfs, Source
  <1>4. ASSUME Owners, NEW d \in Gets PROVE Owns(d)'
    <2>1. To[d] \in Paths
      BY ToAssumption
    <2> QED BY <1>1, <1>2, <1>4, <2>1 DEF Owners, Owns
  <1> QED BY <1>3, <1>4 DEF Owners

LEMMA NextDisks ==
  ASSUME Calls, [Next]_vars
  PROVE  /\ Disks => Disks'
         /\ Owners /\ (\A g \in Gets : To[g] # Filename) => Owners'
  <1>1. ASSUME NEW g \in Gets, Step(g)
        PROVE  /\ Disks => Disks'
               /\ Owners /\ (\A d \in Gets : To[d] # Filename) => Owners'
    BY <1>1, CreateDisks, WriteDisks, UnlinkDisks, OtherDisks
  <1> QED BY <1>1, ClearDisks, WorldDisks DEF Next

THEOREM DiskInvariance == Spec => []Disks
  <1>1. Init => Disks
    BY UserAssumption DEF Init, Disks, Tidy
  <1>2. Calls /\ Disks /\ [Next]_vars => Disks'
    BY NextDisks
  <1> QED BY <1>1, <1>2, Invariance, PTL DEF Spec

\* A download from IPFS leaves the whole file or an empty one, unless its process
\* died before the unlink that follows a short write (hive_ipfs_get_file).
THEOREM AlwaysNoPartialFile == Spec => []NoPartialFile
  <1>1. Disks => NoPartialFile
    <2> SUFFICES ASSUME Disks, NEW p \in Paths, creator[p] \in Gets, local[p] # NoFile,
                        Ipfs(creator[p])
                 PROVE  \/ local[p] \in {<<>>, Source(creator[p])}
                        \/ pc[creator[p]] \in {"unlink", "dead"}
      BY DEF NoPartialFile
    <2> QED BY DEF Disks, Tidy
  <1> QED BY <1>1, DiskInvariance, PTL

-----------------------------------------------------------------------------
(* Downloads.                                                              *)

LEMMA GetsWhole ==
  ASSUME Calls, Owners, [Next]_vars, NEW g \in Gets, pc[g] # "idle", kind[g] = "file",
         result'[g] = "ok"
  PROVE  local'[To[g]] \in window[g] /\ length'[g] = Len(local'[To[g]])
  <1>1. result[g] = "none" /\ TypeOK /\ To[g] \in Paths
    BY ToAssumption DEF Calls, Knows, Kinds
  <1>2. result'[g] # result[g]
    BY <1>1
  <1>3. ASSUME NEW d \in Gets, d # g, Step(d) PROVE result'[g] = result[g]
    BY <1>1, <1>3
    DEF Step, TypeOK, Call, Refused, GetLength, Create, GetInfo, Download, Write, Unlink,
        Seek, ReadSource, Send, Delete, Crash, Return, End, Deliver, outcome
  <1>4. pc[g] \notin {"send", "delete", "seek", "read"}
    BY DEF Calls, Knows, Kinds
  <1>5. ASSUME Step(g) PROVE Create(g) \/ Write(g) \/ result'[g] # "ok"
    BY <1>1, <1>4, <1>5
    DEF Step, TypeOK, Call, Refused, GetLength, GetInfo, Download, Unlink, Deliver,
        Seek, ReadSource, Send, Delete, Crash, Return, End, outcome
  <1>6. ASSUME ~\E d \in Gets : Step(d) PROVE result' = result
    BY <1>6 DEF Next, vars, outcome, Replace, Grow, Cut, Edit, Clear
  <1>7. CASE Create(g)
    <2>1. /\ pc[g] = "create" /\ size[g] = 0 /\ Return(g, "ok", 0)
          /\ local' = [local EXCEPT ![To[g]] = <<>>]
      BY <1>1, <1>2, <1>7 DEF Create, Return, End, outcome, TypeOK
    <2>2. <<>> \in window[g]
      BY <2>1 DEF Calls, Knows, Sized
    <2>3. local'[To[g]] = <<>> /\ length'[g] = 0
      BY <1>1, <2>1 DEF TypeOK, Return, End
    <2> QED BY <2>2, <2>3
  <1>8. CASE Write(g)
    <2>1. pc[g] = "write" /\ creator[To[g]] = g
      BY <1>8 DEF Write, Owners, Owns
    <2>2. PICK bytes \in Writable(g) :
             /\ local' = [local EXCEPT ![To[g]] =
                            IF creator[To[g]] = g THEN bytes ELSE @]
             /\ ~Short(Len(bytes), nbytes[g])
             /\ length' = [length EXCEPT ![g] = nbytes[g]]
      BY <1>1, <1>2, <1>8 DEF Write, Return, End, outcome
    <2>3. bytes \in window[g] /\ Len(bytes) = nbytes[g]
      BY <2>1, <2>2, WholeWrite DEF Short
    <2>4. local'[To[g]] = bytes /\ length'[g] = nbytes[g]
      BY <1>1, <2>1, <2>2 DEF TypeOK
    <2> QED BY <2>3, <2>4
  <1> QED BY <1>2, <1>3, <1>5, <1>6, <1>7, <1>8

\* A get_file that returns a length has left the whole of one content that the
\* remote file had during the call, if no path it writes to is the one that
\* hive_get_file may unlink by mistake (O_EXCL, and the check of write()).
THEOREM AlwaysGetWhole ==
  ASSUME \A g \in Gets : To[g] # Filename
  PROVE  Spec => GetIsWhole
  <1>1. Init => Owners
    BY DEF Init, Owners, Owns
  <1>2. Calls /\ Owners /\ [Next]_vars => Owners'
    BY NextDisks
  <1>3. Calls /\ Owners /\ [Next]_vars
          => [\A g \in Gets :
                pc[g] # "idle" /\ kind[g] = "file" /\ result'[g] = "ok"
                  => /\ local'[To[g]] \in window[g]
                     /\ length'[g] = Len(local'[To[g]])]_vars
    BY GetsWhole
  <1> QED BY <1>1, <1>2, <1>3, Invariance, PTL DEF Spec, GetIsWhole
=============================================================================
