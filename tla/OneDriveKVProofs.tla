-------------------------- MODULE OneDriveKVProofs --------------------------
(***************************************************************************)
(* Proofs about OneDriveKV, for any clients, values, first files, sizes    *)
(* and bounds; the refinement is for one client.                           *)
(*                                                                         *)
(* The argument for PutIsAppend: the window of a call holds the file from  *)
(* the first request on; a download URL is given for one of its contents,  *)
(* whose length is that of the first request, so that nothing is filled    *)
(* up; what is uploaded is that content and the entry.  GetIsSnapshot      *)
(* rests on the same facts and on what a call in progress has to report:   *)
(* nothing.  StaysReadable adds AppendReadable: an entry behind a content  *)
(* that can be read adds its value.  For the refinement the window of the  *)
(* only client is the current file, so that what it uploads is the file    *)
(* and the entry.                                                          *)
(***************************************************************************)
EXTENDS OneDriveKV, FormatsProofs

\* The content of a file, which may not exist.
Bare(content) == IF content = NoFile THEN <<>> ELSE content

Uploads == {"upload", "folder", "session", "part"}

Typed ==
    /\ file = NoFile \/ file \in Contents
    /\ pc     \in [Clients -> Requests \cup {"idle", "answer"}]
    /\ op     \in [Clients -> Ops]
    /\ size   \in [Clients -> Nat]
    /\ url    \in [Clients -> Contents]
    /\ buf    \in [Clients -> Contents]
    /\ window \in [Clients -> SUBSET (Contents \cup {NoFile})]

\* What the calls of a client know: the window holds the current file; the
\* download URL is for a content of the window of the length that was asked for;
\* a put_value uploads a content of the window and its entry.
Current(c) == pc[c] # "idle" => file \in window[c]
Located(c) ==
    pc[c] = "download" =>
        url[c] \in window[c] /\ url[c] # NoFile /\ Len(url[c]) = size[c]
Appended(c) ==
    pc[c] \in Uploads /\ op[c].kind = "put" =>
        \E content \in window[c] : buf[c] = Bare(content) \o Entry(op[c].value)
Held(c) == Current(c) /\ Located(c) /\ Appended(c)

IInv == Typed /\ \A c \in Clients : Held(c)

-----------------------------------------------------------------------------
(* Contents.                                                               *)

LEMMA ValueIsStorable ==
  ASSUME NEW v \in Values
  PROVE  v \in Storable
  BY ValuesAssumption DEF Storable, Bytes

LEMMA EntryIsContent ==
  ASSUME NEW v \in Values
  PROVE  Entry(v) \in Contents
  <1>1. Entry(v) \in Seq(Bytes)
    BY ValueIsStorable, EntryBytes
  <1> QED BY <1>1 DEF Contents, Bytes

LEMMA FilledWhole ==
  ASSUME NEW content \in Contents
  PROVE  Filled(content, Len(content)) = content
  BY DEF Filled, Contents

LEMMA OpValue ==
  ASSUME NEW o \in Ops
  PROVE  /\ o.kind \in {"put", "set", "get", "delete"}
         /\ o.kind \in {"put", "set"} => o.value \in Values
  BY DEF Ops

\* A new content of a client's buffer.
LEMMA AppendIsContent ==
  ASSUME NEW content, content = NoFile \/ content \in Contents, NEW v \in Values
  PROVE  Bare(content) \o Entry(v) \in Contents
  BY EntryIsContent DEF Bare, Contents

LEMMA EmptyIsBare ==
  ASSUME NEW content, content = NoFile \/ content \in Contents,
         LengthOf(content) = 0, NEW v \in Values
  PROVE  Entry(v) = Bare(content) \o Entry(v)
  <1>1. Bare(content) = <<>>
    BY DEF Bare, LengthOf, Contents
  <1> QED BY <1>1, EntryIsContent DEF Contents

-----------------------------------------------------------------------------
(* A step of one client leaves to another what it knew, if the file that     *)
(* the step stores joins the other's window.                                 *)

Others(c) ==
    \A d \in Clients \ {c} :
        /\ pc'[d] = pc[d] /\ op'[d] = op[d] /\ size'[d] = size[d]
        /\ url'[d] = url[d] /\ buf'[d] = buf[d]
        /\ window[d] \subseteq window'[d]
        /\ pc[d] # "idle" => file' \in window'[d]

LEMMA Frame ==
  ASSUME NEW c \in Clients, IInv, Others(c), NEW d \in Clients, d # c
  PROVE  Held(d)'
  <1>1. /\ pc'[d] = pc[d] /\ op'[d] = op[d] /\ size'[d] = size[d]
        /\ url'[d] = url[d] /\ buf'[d] = buf[d]
        /\ window[d] \subseteq window'[d]
        /\ pc[d] # "idle" => file' \in window'[d]
    BY DEF Others
  <1>2. Held(d)
    BY DEF IInv
  <1>3. Current(d)'
    BY <1>1 DEF Current
  <1>4. Located(d)'
    BY <1>1, <1>2 DEF Held, Located
  <1>5. Appended(d)'
    BY <1>1, <1>2 DEF Held, Appended
  <1> QED BY <1>3, <1>4, <1>5 DEF Held

LEMMA Whole ==
  ASSUME NEW c \in Clients, IInv, Typed', Others(c), Held(c)'
  PROVE  IInv'
  BY Frame DEF IInv

\* A client that returns knows nothing any more.
LEMMA ReturnKeeps ==
  ASSUME NEW c \in Clients, IInv, NEW r, Return(c, r), UNCHANGED <<file, op>>
  PROVE  IInv'
  <1>1. Typed'
    BY DEF IInv, Typed, Return, Goto, Free, Contents
  <1>2. pc'[c] = "idle"
    BY DEF IInv, Typed, Return, Goto
  <1>3. Held(c)'
    BY <1>2 DEF Held, Current, Located, Appended, Uploads
  <1>4. Others(c)
    BY DEF Others, IInv, Typed, Held, Current, Return, Goto, Free
  <1> QED BY <1>1, <1>3, <1>4, Whole

-----------------------------------------------------------------------------
(* The actions.                                                            *)

LEMMA CallKeeps ==
  ASSUME NEW c \in Clients, IInv, NEW o \in Ops, Call(c, o)
  PROVE  IInv'
  <1> USE OpValue
  <1>1. /\ pc[c] = "idle" /\ op' = [op EXCEPT ![c] = o]
        /\ window' = [window EXCEPT ![c] = {file}]
        /\ UNCHANGED <<file, size, url>>
    BY DEF Call
  <1>2. \/ /\ o.kind # "set"
           /\ pc' = [pc EXCEPT ![c] = IF o.kind = "delete" THEN "delete" ELSE "length"]
           /\ buf' = buf
        \/ /\ o.kind = "set"
           /\ \E s \in {"upload", "folder"} : pc' = [pc EXCEPT ![c] = s]
           /\ buf' = [buf EXCEPT ![c] = Entry(o.value)]
    BY DEF Call, Goto, UploadFrom
  <1>3. Typed'
    BY <1>1, <1>2, EntryIsContent DEF IInv, Typed, Requests
  <1>4. op'[c] = o /\ file' \in window'[c]
    BY <1>1 DEF IInv, Typed
  <1>5. \/ o.kind # "set" /\ pc'[c] \in {"length", "delete"}
        \/ o.kind = "set" /\ pc'[c] \in {"upload", "folder"}
    BY <1>2 DEF IInv, Typed
  <1>6. Held(c)'
    BY <1>4, <1>5 DEF Held, Current, Located, Appended, Uploads
  <1>7. Others(c)
    BY <1>1, <1>2 DEF Others, IInv, Typed, Held, Current
  <1> QED BY <1>3, <1>6, <1>7, Whole

LEMMA RefusedKeeps ==
  ASSUME NEW c \in Clients, IInv, Refused(c)
  PROVE  IInv'
  BY ReturnKeeps DEF Refused

LEMMA AnswerKeeps ==
  ASSUME NEW c \in Clients, IInv, Answer(c)
  PROVE  IInv'
  BY ReturnKeeps DEF Answer

\* The upload of a content that the window vouches for.
LEMMA UploadFromKeeps ==
  ASSUME NEW c \in Clients, IInv, pc[c] # "idle",
         NEW content \in window[c], op[c].kind = "put",
         UploadFrom(c, Bare(content) \o Entry(op[c].value)),
         UNCHANGED <<file, op, size, url, window>>
  PROVE  IInv'
  <1> DEFINE new == Bare(content) \o Entry(op[c].value)
  <1>1. op[c] \in Ops /\ op[c].value \in Values
    BY OpValue DEF IInv, Typed
  <1>2. content = NoFile \/ content \in Contents
    BY DEF IInv, Typed
  <1>3. new \in Contents
    BY <1>1, <1>2, AppendIsContent
  <1>4. /\ \E s \in {"upload", "folder"} : pc' = [pc EXCEPT ![c] = s]
        /\ buf' = [buf EXCEPT ![c] = new]
    BY DEF UploadFrom, Goto
  <1> HIDE DEF new
  <1>5. Typed'
    BY <1>3, <1>4 DEF IInv, Typed, Requests
  <1>6. pc'[c] \in {"upload", "folder"} /\ buf'[c] = new
    BY <1>4 DEF IInv, Typed
  <1>7. Appended(c)'
    BY <1>6 DEF Appended, new
  <1>8. Held(c)'
    BY <1>6, <1>7 DEF IInv, Held, Current, Located
  <1>9. Others(c)
    BY <1>4 DEF Others, IInv, Typed, Held, Current
  <1> QED BY <1>5, <1>8, <1>9, Whole

LEMMA GetLengthKeeps ==
  ASSUME NEW c \in Clients, IInv, GetLength(c)
  PROVE  IInv'
  <1> DEFINE len == LengthOf(file)
  <1>1. pc[c] = "length" /\ UNCHANGED <<file, op>>
    BY DEF GetLength
  <1>2. file \in window[c] /\ (file = NoFile \/ file \in Contents)
    BY <1>1 DEF IInv, Typed, Held, Current
  <1>3. op[c] \in Ops
    BY DEF IInv, Typed
  <1>4. len \in Nat
    BY <1>2 DEF LengthOf, Contents
  <1>5. ASSUME len = 0, op[c].kind = "put", UploadFrom(c, Entry(op[c].value)),
               UNCHANGED <<size, url, window>>
        PROVE  IInv'
    <2>1. Entry(op[c].value) = Bare(file) \o Entry(op[c].value)
      BY <1>2, <1>3, <1>5, EmptyIsBare, OpValue
    <2> QED BY <1>1, <1>2, <1>5, <2>1, UploadFromKeeps
  <1>6. ASSUME NEW r, Return(c, r)
        PROVE  IInv'
    BY <1>1, <1>6, ReturnKeeps
  <1>7. ASSUME size' = [size EXCEPT ![c] = len], Goto(c, "info"),
               UNCHANGED <<url, buf, window>>
        PROVE  IInv'
    <2>1. Typed'
      BY <1>1, <1>4, <1>7 DEF IInv, Typed, Goto, Requests
    <2>2. pc'[c] = "info"
      BY <1>7 DEF IInv, Typed, Goto
    <2>3. Held(c)'
      BY <1>1, <1>2, <1>7, <2>2 DEF Held, Current, Located, Appended, Uploads
    <2>4. Others(c)
      BY <1>1, <1>7 DEF Others, IInv, Typed, Held, Current, Goto
    <2> QED BY <2>1, <2>3, <2>4, Whole
  <1> QED BY <1>5, <1>6, <1>7 DEF GetLength

LEMMA GetInfoKeeps ==
  ASSUME NEW c \in Clients, IInv, GetInfo(c)
  PROVE  IInv'
  <1>1. pc[c] = "info" /\ UNCHANGED <<file, op>>
    BY DEF GetInfo
  <1>2. file \in window[c]
    BY <1>1 DEF IInv, Held, Current
  <1>3. ASSUME Fits(file, size[c]), url' = [url EXCEPT ![c] = file],
               Goto(c, "download"), UNCHANGED <<size, buf, window>>
        PROVE  IInv'
    <2>1. file # NoFile /\ file \in Contents /\ Len(file) = size[c]
      BY <1>3 DEF Fits, IInv, Typed
    <2>2. Typed'
      BY <1>1, <1>3, <2>1 DEF IInv, Typed, Goto, Requests
    <2>3. pc'[c] = "download" /\ url'[c] = file
      BY <1>3 DEF IInv, Typed, Goto
    <2>4. Held(c)'
      BY <1>1, <1>2, <1>3, <2>1, <2>3 DEF Held, Current, Located, Appended, Uploads
    <2>5. Others(c)
      BY <1>1, <1>3 DEF Others, IInv, Typed, Held, Current, Goto
    <2> QED BY <2>2, <2>4, <2>5, Whole
  <1> QED BY <1>1, <1>3, ReturnKeeps DEF GetInfo

LEMMA DownloadKeeps ==
  ASSUME NEW c \in Clients, IInv, Download(c)
  PROVE  IInv'
  <1>1. pc[c] = "download" /\ UNCHANGED <<file, op>>
    BY DEF Download
  <1>2. /\ url[c] \in window[c] /\ url[c] # NoFile /\ Len(url[c]) = size[c]
        /\ url[c] \in Contents
    BY <1>1 DEF IInv, Typed, Held, Located
  <1>3. Filled(url[c], size[c]) = Bare(url[c])
    BY <1>2, FilledWhole DEF Bare
  <1>4. ASSUME op[c].kind = "put",
               UploadFrom(c, Filled(url[c], size[c]) \o Entry(op[c].value)),
               UNCHANGED <<size, url, window>>
        PROVE  IInv'
    BY <1>1, <1>2, <1>3, <1>4, UploadFromKeeps
  <1>5. ASSUME NEW r, Return(c, r)
        PROVE  IInv'
    BY <1>1, <1>5, ReturnKeeps
  <1> QED BY <1>4, <1>5 DEF Download

\* The server stores a content for one client.
LEMMA StoreKeeps ==
  ASSUME NEW c \in Clients, IInv, pc[c] # "idle",
         NEW content \in Contents \cup {NoFile}, Store(content), Goto(c, "answer"),
         UNCHANGED local
  PROVE  IInv'
  <1>1. Typed'
    BY DEF IInv, Typed, Store, Goto, local
  <1>2. pc'[c] = "answer" /\ file' \in window'[c]
    BY DEF IInv, Typed, Store, Goto
  <1>3. Held(c)'
    BY <1>2 DEF Held, Current, Located, Appended, Uploads
  <1>4. \A d \in Clients : window'[d] = IF pc[d] = "idle" THEN {}
                                        ELSE window[d] \cup {content}
    BY DEF Store
  <1>5. \A d \in Clients \ {c} : pc'[d] = pc[d]
    BY DEF IInv, Typed, Goto
  <1>6. \A d \in Clients \ {c} : pc[d] # "idle" => Held(d)'
    BY <1>4, <1>5 DEF IInv, Held, Current, Located, Appended, Store, local
  <1>7. \A d \in Clients \ {c} : pc[d] = "idle" => Held(d)'
    BY <1>5 DEF Held, Current, Located, Appended, Uploads
  <1> QED BY <1>1, <1>3, <1>6, <1>7 DEF IInv

LEMMA PrepareSessionKeeps ==
  ASSUME NEW c \in Clients, IInv, PrepareSession(c)
  PROVE  IInv'
  <1>1. /\ pc[c] \in {"folder", "session"}
        /\ \E s \in {"session", "part"} : pc' = [pc EXCEPT ![c] = s]
        /\ UNCHANGED <<file, op, size, url, buf, window>>
    BY DEF PrepareSession, Goto, local
  <1>2. Typed'
    BY <1>1 DEF IInv, Typed, Requests
  <1>3. pc'[c] \in {"session", "part"}
    BY <1>1 DEF IInv, Typed
  <1>4. Held(c)'
    BY <1>1, <1>3 DEF IInv, Held, Current, Located, Appended, Uploads
  <1>5. Others(c)
    BY <1>1 DEF Others, IInv, Typed, Held, Current
  <1> QED BY <1>2, <1>4, <1>5, Whole

LEMMA DeleteKeeps ==
  ASSUME NEW c \in Clients, IInv, Delete(c)
  PROVE  IInv'
  <1>1. pc[c] = "delete"
    BY DEF Delete
  <1> QED BY <1>1, StoreKeeps, ReturnKeeps DEF Delete

LEMMA UploadKeeps ==
  ASSUME NEW c \in Clients, IInv, Upload(c) \/ UploadPart(c)
  PROVE  IInv'
  <1>1. pc[c] # "idle" /\ buf[c] \in Contents
    BY DEF Upload, UploadPart, IInv, Typed
  <1>2. Store(buf[c]) /\ Goto(c, "answer") /\ UNCHANGED local
    BY DEF Upload, UploadPart
  <1> QED BY <1>1, <1>2, StoreKeeps

-----------------------------------------------------------------------------
(* What put_value stores.                                                  *)

LEMMA InitHolds == Init => IInv
  <1> SUFFICES ASSUME Init PROVE IInv
    OBVIOUS
  <1>1. Typed
    <2>1. [kind |-> "delete"] \in Ops
      BY DEF Ops
    <2> QED BY <2>1, FilesAssumption DEF Init, Typed, Contents
  <1>2. \A c \in Clients : pc[c] = "idle"
    BY DEF Init
  <1> QED BY <1>1, <1>2 DEF IInv, Held, Current, Located, Appended, Uploads

LEMMA NextKeeps == IInv /\ [Next]_vars => IInv'
  <1> SUFFICES ASSUME IInv, [Next]_vars PROVE IInv'
    OBVIOUS
  <1>1. CASE UNCHANGED vars
    BY <1>1 DEF vars, IInv, Typed, Held, Current, Located, Appended
  <1>2. ASSUME NEW c \in Clients, NEW o \in Ops, Call(c, o)
        PROVE  IInv'
    BY <1>2, CallKeeps
  <1>3. ASSUME NEW c \in Clients, Refused(c) \/ GetLength(c) \/ GetInfo(c) \/ Download(c)
        PROVE  IInv'
    BY <1>3, RefusedKeeps, GetLengthKeeps, GetInfoKeeps, DownloadKeeps
  <1>4. ASSUME NEW c \in Clients,
               \/ Upload(c) \/ PrepareSession(c) \/ UploadPart(c)
               \/ Delete(c) \/ Answer(c)
        PROVE  IInv'
    BY <1>4, UploadKeeps, PrepareSessionKeeps, DeleteKeeps, AnswerKeeps
  <1> QED BY <1>1, <1>2, <1>3, <1>4 DEF Next

\* What calls know of the file stays true, whatever other clients store.
THEOREM Invariance == Spec => []IInv
  <1> QED BY InitHolds, NextKeeps, PTL DEF Spec

\* Only the upload of a put_value goes from a request that stores to its answer.
LEMMA StepAppends ==
  ASSUME IInv, [Next]_vars, NEW c \in Clients,
         pc[c] \in {"upload", "part"}, pc'[c] = "answer", op[c].kind = "put"
  PROVE  \E content \in window[c] :
            file' = Bare(content) \o Entry(op[c].value)
  <1>1. \E content \in window[c] : buf[c] = Bare(content) \o Entry(op[c].value)
    BY DEF IInv, Held, Appended, Uploads
  <1>2. PICK d \in Clients :
           \/ \E o \in Ops : Call(d, o)
           \/ Refused(d)
           \/ GetLength(d) \/ GetInfo(d) \/ Download(d)
           \/ Upload(d) \/ PrepareSession(d) \/ UploadPart(d)
           \/ Delete(d)
           \/ Answer(d)
    BY DEF Next, vars
  <1>3. \E s \in Requests \cup {"idle", "answer"} : pc' = [pc EXCEPT ![d] = s]
    BY <1>2 DEF Call, Refused, GetLength, GetInfo, Download, Upload, PrepareSession,
                UploadPart, Delete, Answer, Return, UploadFrom, Goto, Requests
  <1>4. d = c
    BY <1>3 DEF IInv, Typed
  <1>5. ~ (\E o \in Ops : Call(d, o)) /\ ~ Answer(d) /\ ~ Delete(d)
    BY <1>4 DEF Call, Answer, Delete
  <1>6. ~ Refused(d) /\ ~ GetLength(d) /\ ~ GetInfo(d) /\ ~ Download(d)
    BY <1>4 DEF IInv, Typed, Refused, GetLength, GetInfo, Download, Return, Goto
  <1>7. ~ PrepareSession(d)
    BY <1>4 DEF IInv, Typed, PrepareSession, Goto
  <1>8. file' = buf[c]
    BY <1>2, <1>4, <1>5, <1>6, <1>7 DEF Upload, UploadPart, Store
  <1> QED BY <1>1, <1>8

\* What put_value stores is its value after the whole of one content that the
\* file had during the call.
THEOREM AlwaysAppend == Spec => PutIsAppend
  <1>1. IInv /\ [Next]_vars =>
          [\A c \in Clients :
             pc[c] \in {"upload", "part"} /\ pc'[c] = "answer" /\ op[c].kind = "put"
               => \E content \in window[c] :
                    file' = (IF content = NoFile THEN <<>> ELSE content)
                              \o Entry(op[c].value)]_vars
    BY StepAppends DEF Bare
  <1> QED BY <1>1, Invariance, PTL DEF Spec, PutIsAppend

-----------------------------------------------------------------------------
(* What clients report, and what is readable.                              *)

\* The outcomes and the counts.
Results ==
    /\ result \in [Clients -> {"none", "ok", "again", "error", "bad"}]
    /\ got    \in [Clients -> Seq(Contents)]
    /\ calls  \in 0..MaxCalls
    /\ faults \in 0..MaxFaults

\* Between calls a client holds no buffer; during a call it has nothing to report,
\* and its request is one of its operation.
Progress(c) ==
    /\ pc[c] = "idle" => size[c] = 0 /\ buf[c] = <<>>
    /\ pc[c] # "idle" => result[c] = "none" /\ got[c] = <<>>
    /\ pc[c] \in {"length", "info", "download"} => op[c].kind \in {"put", "get"}
    /\ pc[c] \in Uploads =>
         \/ op[c].kind = "put"
         \/ op[c].kind = "set" /\ buf[c] = Entry(op[c].value)
    /\ pc[c] = "delete" => op[c].kind = "delete"
    /\ pc[c] = "answer" => op[c].kind # "get"

PInv == IInv /\ Results /\ \A c \in Clients : Progress(c)

LEMMA EmptyValues ==
  <<>> \in Contents /\ <<>> \in Seq(Contents) /\ Readable(<<>>) /\ ValuesIn(<<>>) = <<>>
  BY DEF Contents, Readable, ValuesIn, DeliverAll

\* One step of a client.
Step(c) ==
    \/ \E o \in Ops : Call(c, o)
    \/ Refused(c)
    \/ GetLength(c) \/ GetInfo(c) \/ Download(c)
    \/ Upload(c) \/ PrepareSession(c) \/ UploadPart(c)
    \/ Delete(c)
    \/ Answer(c)

\* A step leaves alone what belongs to other clients, except their windows.
Untouched(c) ==
    \A d \in Clients \ {c} :
        /\ pc'[d] = pc[d] /\ op'[d] = op[d] /\ size'[d] = size[d]
        /\ url'[d] = url[d] /\ buf'[d] = buf[d]
        /\ result'[d] = result[d] /\ got'[d] = got[d]

LEMMA ReturnTouches ==
  ASSUME PInv, NEW c \in Clients, NEW r, Return(c, r), UNCHANGED op,
         \A d \in Clients \ {c} : got'[d] = got[d]
  PROVE  Untouched(c)
  BY DEF Untouched, PInv, IInv, Typed, Results, Return, Goto, Free

LEMMA StepTouches ==
  ASSUME PInv, NEW c \in Clients, Step(c)
  PROVE  Untouched(c)
  <1> USE DEF Untouched
  <1>1. ASSUME NEW o \in Ops, Call(c, o) PROVE Untouched(c)
    BY <1>1 DEF PInv, IInv, Typed, Results, Call, Goto, UploadFrom
  <1>2. CASE Refused(c)
    BY <1>2, ReturnTouches DEF Refused
  <1>3. CASE GetLength(c)
    <2>1. ASSUME NEW r, Return(c, r) PROVE Untouched(c)
      BY <1>3, <2>1, ReturnTouches DEF GetLength
    <2>2. CASE UNCHANGED <<size, url, result, window>> /\ UploadFrom(c, Entry(op[c].value))
      BY <1>3, <2>2 DEF GetLength, PInv, IInv, Typed, UploadFrom, Goto
    <2>3. ASSUME NEW len, size' = [size EXCEPT ![c] = len], Goto(c, "info"),
                 UNCHANGED <<url, buf, result, window>>
          PROVE  Untouched(c)
      BY <1>3, <2>3 DEF GetLength, PInv, IInv, Typed, Goto
    <2> QED BY <1>3, <2>1, <2>2, <2>3 DEF GetLength
  <1>4. CASE GetInfo(c)
    <2>1. ASSUME NEW r, Return(c, r) PROVE Untouched(c)
      BY <1>4, <2>1, ReturnTouches DEF GetInfo
    <2>2. CASE /\ url' = [url EXCEPT ![c] = file] /\ Goto(c, "download")
               /\ UNCHANGED <<size, buf, result, window>>
      BY <1>4, <2>2 DEF GetInfo, PInv, IInv, Typed, Goto
    <2> QED BY <1>4, <2>1, <2>2 DEF GetInfo
  <1>5. CASE Download(c)
    <2>1. ASSUME NEW content, UploadFrom(c, content), UNCHANGED <<size, url, result, got, window>>
          PROVE  Untouched(c)
      BY <1>5, <2>1 DEF Download, PInv, IInv, Typed, UploadFrom, Goto
    <2>2. ASSUME NEW r, NEW vals, Return(c, r), got' = [got EXCEPT ![c] = vals]
          PROVE  Untouched(c)
      BY <1>5, <2>2, ReturnTouches DEF Download, PInv, Results
    <2> QED BY <1>5, <2>1, <2>2 DEF Download
  <1>6. CASE Upload(c) \/ PrepareSession(c) \/ UploadPart(c)
    BY <1>6 DEF PInv, IInv, Typed, Upload, PrepareSession, UploadPart, Goto, local
  <1>7. CASE Delete(c)
    <2>1. CASE Return(c, "ok") /\ UNCHANGED <<op, got>>
      BY <2>1, ReturnTouches
    <2>2. CASE Goto(c, "answer") /\ UNCHANGED <<local, result>>
      BY <2>2 DEF PInv, IInv, Typed, Goto, local
    <2> QED BY <1>7, <2>1, <2>2 DEF Delete
  <1>8. CASE Answer(c)
    BY <1>8, ReturnTouches DEF Answer
  <1> QED BY <1>1, <1>2, <1>3, <1>4, <1>5, <1>6, <1>7, <1>8 DEF Step

LEMMA StepIsNext ==
  ASSUME IInv, NEW c \in Clients, Step(c)
  PROVE  IInv'
  BY NextKeeps DEF Next, Step

\* A client that returns has the outcome, and what it delivered, to show.
LEMMA ReturnProgress ==
  ASSUME PInv, NEW c \in Clients, NEW r \in {"ok", "again", "error", "bad"},
         Return(c, r), UNCHANGED op,
         got' \in [Clients -> Seq(Contents)],
         calls' = calls, faults' \in 0..MaxFaults
  PROVE  Results' /\ Progress(c)'
  <1>1. /\ pc' = [pc EXCEPT ![c] = "idle"]
        /\ size' = [size EXCEPT ![c] = 0] /\ buf' = [buf EXCEPT ![c] = <<>>]
        /\ result' = [result EXCEPT ![c] = r]
    BY DEF Return, Goto, Free
  <1>2. pc'[c] = "idle" /\ size'[c] = 0 /\ buf'[c] = <<>>
    BY <1>1 DEF PInv, IInv, Typed
  <1>3. Results'
    BY <1>1 DEF PInv, Results
  <1>4. Progress(c)'
    BY <1>2 DEF Progress, Uploads
  <1> QED BY <1>3, <1>4

LEMMA FaultCounts ==
  ASSUME PInv, Fault
  PROVE  faults' \in 0..MaxFaults
  BY BoundsAssumption DEF PInv, Results, Fault

\* A client goes on with another request.
LEMMA RequestProgress ==
  ASSUME PInv, NEW c \in Clients, NEW s, pc[c] # "idle", Goto(c, s),
         UNCHANGED <<op, result, got, calls, faults>>,
         s \in {"info", "download"} => op[c].kind \in {"put", "get"},
         s \in Uploads =>
           \/ op[c].kind = "put"
           \/ op[c].kind = "set" /\ buf'[c] = Entry(op[c].value),
         s = "answer" => op[c].kind # "get",
         s \in {"info", "download", "answer"} \cup Uploads
  PROVE  Results' /\ Progress(c)'
  <1>1. pc'[c] = s /\ s # "idle" /\ s # "delete" /\ s # "length"
    BY DEF PInv, IInv, Typed, Goto, Uploads
  <1>2. result'[c] = "none" /\ got'[c] = <<>>
    BY DEF PInv, Progress
  <1>3. Results'
    BY DEF PInv, Results
  <1>4. Progress(c)'
    BY <1>1, <1>2 DEF Progress
  <1> QED BY <1>3, <1>4

LEMMA CallProgress ==
  ASSUME PInv, NEW c \in Clients, NEW o \in Ops, Call(c, o)
  PROVE  Results' /\ Progress(c)'
  <1>1. /\ calls > 0 /\ calls' = calls - 1 /\ faults' = faults
        /\ op' = [op EXCEPT ![c] = o]
        /\ result' = [result EXCEPT ![c] = "none"]
        /\ got' = [got EXCEPT ![c] = <<>>]
    BY DEF Call
  <1>2. Results'
    <2>1. calls' \in 0..MaxCalls
      BY <1>1, BoundsAssumption DEF PInv, Results
    <2> QED BY <1>1, <2>1, EmptyValues DEF PInv, Results
  <1>3. op'[c] = o /\ result'[c] = "none" /\ got'[c] = <<>>
    BY <1>1 DEF PInv, IInv, Typed, Results
  <1>4. \/ o.kind \in {"put", "get"} /\ pc'[c] = "length"
        \/ o.kind = "set" /\ pc'[c] \in {"upload", "folder"} /\ buf'[c] = Entry(o.value)
        \/ o.kind = "delete" /\ pc'[c] = "delete"
    BY DEF Call, Goto, UploadFrom, PInv, IInv, Typed
  <1>5. Progress(c)'
    BY <1>3, <1>4 DEF Progress, Uploads
  <1> QED BY <1>2, <1>5

LEMMA StepProgress ==
  ASSUME PInv, NEW c \in Clients, Step(c)
  PROVE  Results' /\ Progress(c)'
  <1> DEFINE Goal == Results' /\ Progress(c)'
  <1>1. ASSUME NEW o \in Ops, Call(c, o) PROVE Goal
    BY <1>1, CallProgress
  <1>2. CASE Refused(c)
    BY <1>2, FaultCounts, ReturnProgress DEF Refused, PInv, Results
  <1>3. CASE GetLength(c)
    <2>1. ASSUME NEW r \in {"ok", "bad"}, Return(c, r) PROVE Goal
      BY <1>3, <2>1, ReturnProgress DEF GetLength, PInv, Results
    <2>2. CASE op[c].kind = "put" /\ UploadFrom(c, Entry(op[c].value)) /\ UNCHANGED result
      BY <1>3, <2>2, RequestProgress DEF GetLength, UploadFrom, Uploads
    <2>3. CASE Goto(c, "info") /\ UNCHANGED result
      <3>1. op[c].kind \in {"put", "get"}
        BY <1>3 DEF GetLength, PInv, Progress
      <3> QED BY <1>3, <2>3, <3>1, RequestProgress DEF GetLength, Uploads
    <2> QED BY <1>3, <2>1, <2>2, <2>3 DEF GetLength
  <1>4. CASE GetInfo(c)
    <2>1. CASE Return(c, "error")
      BY <1>4, <2>1, ReturnProgress DEF GetInfo, PInv, Results
    <2>2. CASE Goto(c, "download") /\ UNCHANGED result
      <3>1. op[c].kind \in {"put", "get"}
        BY <1>4 DEF GetInfo, PInv, Progress
      <3> QED BY <1>4, <2>2, <3>1, RequestProgress DEF GetInfo, Uploads
    <2> QED BY <1>4, <2>1, <2>2 DEF GetInfo
  <1>5. CASE Download(c)
    <2> DEFINE data == Filled(url[c], size[c])
    <2>1. CASE op[c].kind = "put" /\ UploadFrom(c, data \o Entry(op[c].value))
                 /\ UNCHANGED <<result, got>>
      <3>1. /\ pc[c] # "idle" /\ UNCHANGED <<op, calls, faults>>
            /\ \E s \in {"upload", "folder"} : Goto(c, s)
        BY <1>5, <2>1 DEF Download, UploadFrom
      <3> QED BY <2>1, <3>1, RequestProgress DEF Uploads
    <2>2. ASSUME NEW limit \in 1..Len(data) + 1,
                 got' = [got EXCEPT ![c] = Deliver(data, limit).vals],
                 NEW r \in {"bad", "ok"}, Return(c, r)
          PROVE  Goal
      <3>1. data = url[c] /\ url[c] \in Contents
        BY <1>5, FilledWhole DEF Download, PInv, IInv, Typed, Held, Located
      <3>2. limit \in Nat /\ limit >= 1
        BY <3>1 DEF Contents
      <3> HIDE DEF data
      <3>3. Deliver(data, limit) \in Deliveries
        BY <3>1, <3>2, DeliverIsPrefix DEF Contents, Bytes
      <3>4. Deliver(data, limit).vals \in Seq(Contents)
        BY <3>3 DEF Deliveries, Contents, Bytes
      <3> QED BY <1>5, <2>2, <3>4, ReturnProgress DEF Download, PInv, Results
    <2> QED BY <1>5, <2>1, <2>2 DEF Download
  <1>6. CASE Upload(c) \/ UploadPart(c)
    <2>1. pc[c] \in Uploads /\ pc[c] # "idle" /\ Goto(c, "answer")
          /\ UNCHANGED <<op, result, got, calls, faults>>
      BY <1>6 DEF Upload, UploadPart, local, Uploads
    <2>2. op[c].kind # "get"
      BY <2>1 DEF PInv, Progress
    <2> QED BY <2>1, <2>2, RequestProgress DEF Uploads
  <1>7. CASE PrepareSession(c)
    <2>1. PICK s \in {"session", "part"} :
             /\ pc[c] \in Uploads /\ pc[c] # "idle" /\ Goto(c, s)
             /\ UNCHANGED <<op, buf, result, got, calls, faults>>
      BY <1>7 DEF PrepareSession, local, Uploads
    <2>2. op[c].kind = "put" \/ (op[c].kind = "set" /\ buf'[c] = Entry(op[c].value))
      <3>1. Progress(c) /\ buf'[c] = buf[c]
        BY <2>1 DEF PInv
      <3>2. op[c].kind = "put" \/ (op[c].kind = "set" /\ buf[c] = Entry(op[c].value))
        BY <2>1, <3>1 DEF Progress
      <3> QED BY <3>1, <3>2
    <2> QED BY <2>1, <2>2, RequestProgress DEF Uploads
  <1>8. CASE Delete(c)
    <2>1. CASE Return(c, "ok") /\ UNCHANGED <<op, got>>
      BY <1>8, <2>1, ReturnProgress DEF Delete, PInv, Results
    <2>2. CASE Goto(c, "answer") /\ UNCHANGED <<local, result>>
      <3>1. pc[c] # "idle" /\ op[c].kind # "get"
        BY <1>8 DEF Delete, PInv, Progress
      <3> QED BY <1>8, <2>2, <3>1, RequestProgress DEF Delete, local, Uploads
    <2> QED BY <1>8, <2>1, <2>2 DEF Delete
  <1>9. CASE Answer(c)
    <2>1. \E r \in {"ok", "error"} : Return(c, r)
      BY <1>9 DEF Answer
    <2>2. faults' \in 0..MaxFaults
      BY <1>9, FaultCounts DEF Answer, PInv, Results
    <2> QED BY <1>9, <2>1, <2>2, ReturnProgress DEF Answer, PInv, Results
  <1> QED BY <1>1, <1>2, <1>3, <1>4, <1>5, <1>6, <1>7, <1>8, <1>9 DEF Step

LEMMA StepKeeps ==
  ASSUME PInv, NEW c \in Clients, Step(c)
  PROVE  PInv'
  <1>1. IInv'
    BY StepIsNext DEF PInv
  <1>2. ASSUME NEW d \in Clients, d # c PROVE Progress(d)'
    <2>1. /\ pc'[d] = pc[d] /\ op'[d] = op[d] /\ size'[d] = size[d]
          /\ buf'[d] = buf[d] /\ result'[d] = result[d] /\ got'[d] = got[d]
      BY <1>2, StepTouches DEF Untouched
    <2>2. Progress(d)
      BY DEF PInv
    <2> QED BY <2>1, <2>2 DEF Progress
  <1> QED BY <1>1, <1>2, StepProgress DEF PInv

LEMMA InitProgress == Init => PInv
  <1> SUFFICES ASSUME Init PROVE PInv
    OBVIOUS
  <1>1. IInv
    BY InitHolds
  <1>2. Results
    BY EmptyValues, BoundsAssumption DEF Init, Results
  <1>3. \A c \in Clients : Progress(c)
    BY DEF Init, Progress, Uploads
  <1> QED BY <1>1, <1>2, <1>3 DEF PInv

LEMMA NextSteps ==
  ASSUME [Next]_vars, ~UNCHANGED vars
  PROVE  \E c \in Clients : Step(c)
  BY DEF Next, Step

LEMMA NextProgress == PInv /\ [Next]_vars => PInv'
  <1> SUFFICES ASSUME PInv, [Next]_vars PROVE PInv'
    OBVIOUS
  <1>1. CASE UNCHANGED vars
    <2>1. IInv'
      BY NextKeeps DEF PInv
    <2>2. Results' /\ \A c \in Clients : Progress(c)'
      BY <1>1 DEF vars, PInv, Results, Progress
    <2> QED BY <2>1, <2>2 DEF PInv
  <1>2. CASE ~UNCHANGED vars
    BY <1>2, NextSteps, StepKeeps
  <1> QED BY <1>1, <1>2

\* Every request of a call belongs to its operation, and a call in progress has
\* nothing to report.
THEOREM ProgressInvariance == Spec => []PInv
  <1> QED BY InitProgress, NextProgress, PTL DEF Spec

\* Every variable stays in its type, and an idle client holds no buffer.
THEOREM TypeCorrect == Spec => []TypeOK
  <1>1. PInv => TypeOK
    BY DEF PInv, IInv, Typed, Results, Progress, TypeOK
  <1> QED BY <1>1, ProgressInvariance, PTL

-----------------------------------------------------------------------------
(* Snapshots.                                                              *)

LEMMA NothingIsSnapshot ==
  ASSUME NEW content, content = NoFile \/ content \in Contents, LengthOf(content) = 0
  PROVE  Snapshot(<<>>, content)
  <1>1. content = NoFile \/ content = <<>>
    BY DEF LengthOf, Contents
  <1>2. <<>> = SubSeq(<<>>, 1, Len(<<>>)) /\ Len(<<>>) = 0
    OBVIOUS
  <1> QED BY <1>1, <1>2, EmptyValues DEF Snapshot

LEMMA DeliveredIsSnapshot ==
  ASSUME NEW content \in Contents, content # NoFile, NEW limit \in 1..Len(content) + 1
  PROVE  Snapshot(Deliver(content, limit).vals, content)
  <1>1. content \in Seq(Bytes) /\ limit \in Nat /\ limit >= 1
    BY DEF Contents, Bytes
  <1>2. /\ Len(Deliver(content, limit).vals) \in 0..Len(ValuesIn(content))
        /\ Deliver(content, limit).vals =
             SubSeq(ValuesIn(content), 1, Len(Deliver(content, limit).vals))
    BY <1>1, DeliverIsPrefix
  <1>3. ValuesIn(content) \in Seq(Seq(Bytes))
    BY <1>1, DeliverAllType DEF ValuesIn, Deliveries
  <1>4. Len(Deliver(content, limit).vals) <= Len(ValuesIn(content))
    BY <1>2, <1>3
  <1> QED BY <1>2, <1>4 DEF Snapshot

\* A get_values that returns 0 has found no file or an empty one, or has read what
\* its download URL was given for.
LEMMA StepSnapshot ==
  ASSUME PInv, [Next]_vars, NEW c \in Clients,
         pc[c] # "idle", op[c].kind = "get", result'[c] = "ok"
  PROVE  \E content \in window[c] : Snapshot(got'[c], content)
  <1>1. result[c] = "none" /\ got[c] = <<>> /\ result'[c] # result[c]
    BY DEF PInv, Progress
  <1>2. PICK d \in Clients : Step(d)
    BY <1>1, NextSteps DEF vars
  <1>3. d = c
    BY <1>1, <1>2, StepTouches DEF Untouched
  <1>4. pc[c] \in {"length", "info", "download"}
    BY DEF PInv, IInv, Typed, Progress, Uploads, Requests
  <1>5. ~ \E o \in Ops : Call(c, o)
    BY DEF Call
  <1>6. /\ ~ Upload(c) /\ ~ PrepareSession(c) /\ ~ UploadPart(c)
        /\ ~ Delete(c) /\ ~ Answer(c)
    BY <1>4 DEF Upload, PrepareSession, UploadPart, Delete, Answer
  <1>7. ~ Refused(c)
    <2>1. ASSUME NEW r \in {"error", "again"}, Return(c, r) PROVE FALSE
      BY <2>1 DEF Return, PInv, Results
    <2> QED BY <2>1 DEF Refused
  <1>8. ~ GetInfo(c)
    BY <1>1 DEF GetInfo, Return, PInv, Results
  <1>9. CASE GetLength(c)
    <2>1. LengthOf(file) = 0 /\ UNCHANGED got
      BY <1>1, <1>9 DEF GetLength, Return, PInv, Results
    <2>2. file \in window[c] /\ (file = NoFile \/ file \in Contents)
      BY <1>4 DEF PInv, IInv, Typed, Held, Current
    <2> QED BY <1>1, <2>1, <2>2, NothingIsSnapshot
  <1>10. CASE Download(c)
    <2>1. /\ url[c] \in window[c] /\ url[c] # NoFile /\ url[c] \in Contents
          /\ Filled(url[c], size[c]) = url[c]
      BY <1>10, FilledWhole DEF Download, PInv, IInv, Typed, Held, Located
    <2>2. PICK limit \in 1..Len(url[c]) + 1 :
             got' = [got EXCEPT ![c] = Deliver(url[c], limit).vals]
      BY <1>10, <2>1 DEF Download
    <2>3. got'[c] = Deliver(url[c], limit).vals
      BY <2>2 DEF PInv, Results
    <2> QED BY <2>1, <2>3, DeliveredIsSnapshot
  <1> QED BY <1>2, <1>3, <1>5, <1>6, <1>7, <1>8, <1>9, <1>10 DEF Step

\* A get_values that returns 0 has delivered the first values, or all, of one
\* content that the file had during the call (the length check between its two
\* requests and its download).
THEOREM AlwaysSnapshot == Spec => GetIsSnapshot
  <1>1. PInv /\ [Next]_vars =>
          [\A c \in Clients :
             pc[c] # "idle" /\ op[c].kind = "get" /\ result'[c] = "ok"
               => \E content \in window[c] : Snapshot(got'[c], content)]_vars
    BY StepSnapshot
  <1> QED BY <1>1, ProgressInvariance, PTL DEF Spec, GetIsSnapshot

-----------------------------------------------------------------------------
(* Readable files.                                                         *)

LEMMA NothingIsSound == Sound(<<>>) /\ Sound(NoFile)
  BY EmptyValues DEF Sound

LEMMA AppendIsSound ==
  ASSUME NEW content, content = NoFile \/ content \in Contents, Sound(content),
         NEW v \in Values
  PROVE  Sound(Bare(content) \o Entry(v))
  <1> DEFINE bare == Bare(content)
             old == ValuesIn(bare)
  <1>1. /\ bare \in Seq(Bytes) /\ Readable(bare)
        /\ \A i \in DOMAIN old : old[i] # <<>>
    BY EmptyValues DEF Bare, Sound, Contents, Bytes
  <1>2. v \in Storable /\ v \in Seq(Bytes) /\ v # <<>>
    <2>1. v \in Storable
      BY ValueIsStorable
    <2>2. v \in Seq(Bytes) /\ Len(v) >= 1
      BY <2>1, StorableValue
    <2> QED BY <2>1, <2>2
  <1> HIDE DEF bare
  <1>3. /\ Readable(bare \o Entry(v))
        /\ old \in Seq(Seq(Bytes))
        /\ ValuesIn(bare \o Entry(v)) = Append(old, v)
    BY <1>1, <1>2, AppendReadable
  <1>4. \A i \in DOMAIN Append(old, v) : Append(old, v)[i] # <<>>
    <2> HIDE DEF old
    <2> QED BY <1>1, <1>2, <1>3
  <1> QED BY <1>3, <1>4 DEF Sound, bare

\* What a step may leave of a client's copies: none, the file, the entry of a
\* value, or what it has downloaded and an entry.
LeavesSound(c) == Sound(file') /\ Sound(url'[c]) /\ Sound(buf'[c])

LEMMA ReturnSound ==
  ASSUME PInv, AllSound, NEW c \in Clients, NEW r, Return(c, r), file' = file
  PROVE  LeavesSound(c)
  <1>1. url'[c] = <<>> /\ buf'[c] = <<>>
    BY DEF Return, Free, PInv, IInv, Typed
  <1> QED BY <1>1, NothingIsSound DEF AllSound, LeavesSound

LEMMA UploadFromSound ==
  ASSUME PInv, AllSound, NEW c \in Clients, NEW content, Sound(content),
         UploadFrom(c, content), UNCHANGED <<file, url>>
  PROVE  LeavesSound(c)
  <1>1. buf'[c] = content
    BY DEF UploadFrom, PInv, IInv, Typed
  <1> QED BY <1>1 DEF AllSound, LeavesSound

LEMMA EntrySound ==
  ASSUME NEW v \in Values
  PROVE  Sound(Entry(v))
  <1>1. <<>> \o Entry(v) = Entry(v)
    BY EntryIsContent DEF Contents
  <1>2. Bare(<<>>) = <<>>
    BY DEF Bare
  <1> QED BY <1>1, <1>2, NothingIsSound, EmptyValues, AppendIsSound

LEMMA StepSound ==
  ASSUME PInv, AllSound, NEW c \in Clients, Step(c)
  PROVE  LeavesSound(c)
  <1>1. Sound(file) /\ Sound(url[c]) /\ Sound(buf[c])
    BY DEF AllSound
  <1>2. op[c] \in Ops
    BY DEF PInv, IInv, Typed
  <1>3. ASSUME NEW o \in Ops, Call(c, o) PROVE LeavesSound(c)
    <2>1. CASE UNCHANGED buf
      BY <1>1, <1>3, <2>1 DEF Call, LeavesSound
    <2>2. CASE o.kind = "set" /\ UploadFrom(c, Entry(o.value))
      <3>1. o.value \in Values
        BY <2>2, OpValue
      <3> QED BY <1>3, <2>2, <3>1, UploadFromSound, EntrySound DEF Call
    <2> QED BY <1>3, <2>1, <2>2 DEF Call
  <1>4. CASE Refused(c)
    BY <1>4, ReturnSound DEF Refused
  <1>5. CASE GetLength(c)
    <2>1. ASSUME NEW r, Return(c, r) PROVE LeavesSound(c)
      BY <1>5, <2>1, ReturnSound DEF GetLength
    <2>2. CASE op[c].kind = "put" /\ UploadFrom(c, Entry(op[c].value)) /\ UNCHANGED url
      <3>1. op[c].value \in Values
        BY <1>2, <2>2, OpValue
      <3> QED BY <1>5, <2>2, <3>1, UploadFromSound, EntrySound DEF GetLength
    <2>3. CASE UNCHANGED <<url, buf>>
      BY <1>1, <1>5, <2>3 DEF GetLength, LeavesSound
    <2> QED BY <1>5, <2>1, <2>2, <2>3 DEF GetLength
  <1>6. CASE GetInfo(c)
    <2>1. CASE Return(c, "error")
      BY <1>6, <2>1, ReturnSound DEF GetInfo
    <2>2. CASE url' = [url EXCEPT ![c] = file] /\ UNCHANGED buf
      <3>1. url'[c] = file
        BY <2>2 DEF PInv, IInv, Typed
      <3> QED BY <1>1, <1>6, <2>2, <3>1 DEF GetInfo, LeavesSound
    <2> QED BY <1>6, <2>1, <2>2 DEF GetInfo
  <1>7. CASE Download(c)
    <2>1. /\ Filled(url[c], size[c]) = url[c] /\ url[c] = Bare(url[c]) /\ url[c] \in Contents
          /\ file' = file
      BY <1>7, FilledWhole DEF Download, PInv, IInv, Typed, Held, Located, Bare
    <2>2. CASE op[c].kind = "put" /\ UploadFrom(c, url[c] \o Entry(op[c].value))
                 /\ UNCHANGED url
      <3>1. op[c].value \in Values
        BY <1>2, <2>2, OpValue
      <3>2. Sound(url[c] \o Entry(op[c].value))
        BY <1>1, <2>1, <3>1, AppendIsSound
      <3> QED BY <2>1, <2>2, <3>2, UploadFromSound
    <2>3. ASSUME NEW r, Return(c, r) PROVE LeavesSound(c)
      BY <2>1, <2>3, ReturnSound
    <2> QED BY <1>7, <2>1, <2>2, <2>3 DEF Download
  <1>8. CASE Upload(c) \/ UploadPart(c)
    BY <1>1, <1>8 DEF Upload, UploadPart, Store, local, LeavesSound
  <1>9. CASE PrepareSession(c)
    BY <1>1, <1>9 DEF PrepareSession, local, LeavesSound
  <1>10. CASE Delete(c)
    <2>1. CASE Return(c, "ok") /\ UNCHANGED file
      BY <2>1, ReturnSound
    <2>2. CASE Store(NoFile) /\ UNCHANGED local
      BY <1>1, <2>2, NothingIsSound DEF Store, local, LeavesSound
    <2> QED BY <1>10, <2>1, <2>2 DEF Delete
  <1>11. CASE Answer(c)
    BY <1>11, ReturnSound DEF Answer
  <1> QED BY <1>3, <1>4, <1>5, <1>6, <1>7, <1>8, <1>9, <1>10, <1>11 DEF Step

LEMMA NextSound == PInv /\ [Next]_vars => (AllSound => AllSound')
  <1> SUFFICES ASSUME PInv, [Next]_vars, AllSound PROVE AllSound'
    OBVIOUS
  <1>1. CASE UNCHANGED vars
    BY <1>1 DEF vars, AllSound
  <1>2. ASSUME NEW c \in Clients, Step(c) PROVE AllSound'
    <2>1. Sound(file') /\ Sound(url'[c]) /\ Sound(buf'[c])
      BY <1>2, StepSound DEF LeavesSound
    <2>2. ASSUME NEW d \in Clients, d # c PROVE Sound(url'[d]) /\ Sound(buf'[d])
      <3>1. url'[d] = url[d] /\ buf'[d] = buf[d]
        BY <1>2, <2>2, StepTouches DEF Untouched
      <3> QED BY <3>1 DEF AllSound
    <2>3. (\A d \in Clients : Sound(url[d]) /\ Sound(buf[d]))'
      BY <2>1, <2>2 DEF Sound
    <2> QED BY <2>1, <2>3 DEF AllSound, Sound
  <1> QED BY <1>1, <1>2, NextSteps

\* If the file and the copies of it can be read to their end and have no empty
\* value, all of them stay so, whatever the interleaving and the faults
\* (put_value appends to a copy that it has read completely).
THEOREM AlwaysReadable == Spec => StaysReadable
  <1>1. PInv /\ [Next]_vars => [AllSound => AllSound']_vars
    BY NextSound
  <1> QED BY <1>1, ProgressInvariance, PTL DEF Spec, StaysReadable

-----------------------------------------------------------------------------
(* The refinement: one client implements KVStore.                          *)

\* What KVStore sees as the values of the key.
Vals == IF file = NoFile THEN <<>> ELSE ValuesIn(file)
Phases == [c \in Clients |-> Phase(c)]

\* Nobody else stores anything, and there was no value at first.
Single == \A c, d \in Clients : c = d
Fresh  == InitialFiles \subseteq {NoFile, <<>>}

\* The only client has seen every content of the file.
Alone(c) == pc[c] \in Requests => window[c] = {file}
RInv == PInv /\ AllSound /\ \A c \in Clients : Alone(c)

LEMMA InitRefines ==
  ASSUME Fresh, Init
  PROVE  RInv /\ KV!Init
  <1>1. file = NoFile \/ file = <<>>
    BY DEF Fresh, Init
  <1>2. PInv
    BY InitProgress
  <1>3. AllSound
    BY <1>1, NothingIsSound DEF Init, AllSound
  <1>4. \A c \in Clients : Alone(c)
    BY DEF Init, Alone, Requests
  <1>5. Vals = <<>>
    BY <1>1, EmptyValues DEF Vals
  <1>6. Phases = [c \in Clients |-> "idle"]
    BY DEF Init, Phases, Phase
  <1>7. KV!Init
    BY <1>5, <1>6 DEF Init, KV!Init, KV!NoOp, Vals, Phases
  <1> QED BY <1>2, <1>3, <1>4, <1>7 DEF RInv

\* The window of the only client.
LEMMA StepAlone ==
  ASSUME Single, RInv, NEW c \in Clients, Step(c)
  PROVE  Alone(c)'
  <1>1. ASSUME pc'[c] = "idle" PROVE Alone(c)'
    BY <1>1 DEF Alone, Requests
  <1>2. ASSUME pc'[c] = "answer" PROVE Alone(c)'
    BY <1>2 DEF Alone, Requests
  <1>3. ASSUME NEW r, Return(c, r) PROVE Alone(c)'
    BY <1>1, <1>3 DEF Return, Goto, RInv, PInv, IInv, Typed
  <1>4. ASSUME pc[c] \in Requests, UNCHANGED <<file, window>> PROVE Alone(c)'
    BY <1>4 DEF RInv, Alone
  <1>5. ASSUME NEW o \in Ops, Call(c, o) PROVE Alone(c)'
    BY <1>5 DEF Call, Alone, RInv, PInv, IInv, Typed
  <1>6. CASE Refused(c)
    BY <1>3, <1>6 DEF Refused
  <1>7. CASE GetLength(c) \/ GetInfo(c)
    BY <1>3, <1>4, <1>7 DEF GetLength, GetInfo, Requests
  <1>8. CASE Download(c) \/ PrepareSession(c)
    BY <1>3, <1>4, <1>8 DEF Download, PrepareSession, Requests
  <1>9. CASE Upload(c) \/ UploadPart(c)
    BY <1>2, <1>9 DEF Upload, UploadPart, Goto, RInv, PInv, IInv, Typed
  <1>10. CASE Delete(c)
    BY <1>2, <1>3, <1>10 DEF Delete, Goto, RInv, PInv, IInv, Typed
  <1>11. CASE Answer(c)
    BY <1>3, <1>11 DEF Answer
  <1> QED BY <1>5, <1>6, <1>7, <1>8, <1>9, <1>10, <1>11 DEF Step

LEMMA NextRInv == Single => (RInv /\ [Next]_vars => RInv')
  <1> SUFFICES ASSUME Single, RInv, [Next]_vars PROVE RInv'
    OBVIOUS
  <1>1. PInv' /\ AllSound'
    BY NextProgress, NextSound DEF RInv
  <1>2. CASE UNCHANGED vars
    BY <1>1, <1>2 DEF vars, RInv, Alone
  <1>3. ASSUME NEW c \in Clients, Step(c) PROVE RInv'
    <2>1. Alone(c)'
      BY <1>3, StepAlone
    <2>2. \A d \in Clients : d = c
      BY DEF Single
    <2> QED BY <1>1, <2>1, <2>2 DEF RInv
  <1> QED BY <1>2, <1>3, NextSteps

\* A step of a client in KVStore.
LEMMA PhaseOf ==
  ASSUME PInv, NEW c \in Clients, NEW s, Goto(c, s)
  PROVE  Phases' = [Phases EXCEPT ![c] = IF s = "idle" THEN "idle"
                                         ELSE IF s = "answer" THEN "done" ELSE "pending"]
  <1>1. pc' = [pc EXCEPT ![c] = s] /\ pc \in [Clients -> Requests \cup {"idle", "answer"}]
    BY DEF Goto, PInv, IInv, Typed
  <1>2. \A d \in Clients : pc'[d] = IF d = c THEN s ELSE pc[d]
    BY <1>1
  <1> QED BY <1>2 DEF Phases, Phase

LEMMA PhaseNow ==
  ASSUME PInv, NEW c \in Clients
  PROVE  /\ Phases[c] = Phase(c)
         /\ pc[c] = "idle" => Phases[c] = "idle"
         /\ pc[c] = "answer" => Phases[c] = "done"
         /\ pc[c] \in Requests => Phases[c] = "pending"
  BY DEF Phases, Phase, Requests

LEMMA ReturnRefines ==
  ASSUME PInv, NEW c \in Clients, NEW r, Return(c, r), UNCHANGED <<file, op, got>>,
         \/ pc[c] = "answer" /\ r \in {"ok", "error"}
         \/ pc[c] \in Requests /\ r \in {"again", "error"}
  PROVE  KV!Next
  <1>1. Phases' = [Phases EXCEPT ![c] = "idle"]
    BY PhaseOf DEF Return
  <1>2. Vals' = Vals /\ result' = [result EXCEPT ![c] = r]
    BY DEF Vals, Return
  <1>3. \/ Phases[c] = "done" /\ r \in {"ok", "error"}
        \/ Phases[c] = "pending" /\ r \in {"again", "error"}
    BY PhaseNow
  <1>4. KV!Return(c, r)
    BY <1>1, <1>2, <1>3 DEF KV!Return, Phases, Vals
  <1>5. r \in {"ok", "again", "error"}
    OBVIOUS
  <1> QED BY <1>4, <1>5 DEF KV!Next

\* Requests that only lead to the next one.
LEMMA RequestRefines ==
  ASSUME PInv, NEW c \in Clients, NEW s \in Requests, pc[c] \in Requests, Goto(c, s),
         UNCHANGED <<file, op, result, got>>
  PROVE  UNCHANGED KV!vars
  <1>1. Phases' = [Phases EXCEPT ![c] = "pending"] /\ Phases[c] = "pending"
    BY PhaseOf, PhaseNow DEF Requests
  <1>2. Phases' = Phases
    BY <1>1 DEF Phases
  <1>3. Vals' = Vals
    BY DEF Vals
  <1> QED BY <1>2, <1>3 DEF KV!vars, Phases, Vals

LEMMA ReadRefines ==
  ASSUME PInv, NEW c \in Clients, pc[c] \in Requests, Return(c, "ok"),
         UNCHANGED <<file, op>>,
         \/ /\ op[c].kind = "get"
            /\ \E n \in 0..Len(Vals) :
                 /\ n = 0 => Vals = <<>>
                 /\ got' = [got EXCEPT ![c] = SubSeq(Vals, 1, n)]
         \/ /\ op[c].kind = "delete" /\ Vals = <<>>
            /\ UNCHANGED got
  PROVE  KV!Next
  <1>1. Phases' = [Phases EXCEPT ![c] = "idle"] /\ Phases[c] = "pending"
    BY PhaseOf, PhaseNow DEF Return
  <1>2. Vals' = Vals /\ result' = [result EXCEPT ![c] = "ok"]
    BY DEF Vals, Return
  <1>3. KV!Read(c)
    BY <1>1, <1>2 DEF KV!Read, Phases, Vals
  <1> QED BY <1>3 DEF KV!Next

LEMMA EffectRefines ==
  ASSUME PInv, NEW c \in Clients, pc[c] \in Requests, op[c].kind # "get",
         Goto(c, "answer"), UNCHANGED <<op, result, got>>,
         Vals' = KV!After(op[c], Vals)
  PROVE  KV!Next
  <1>1. Phases' = [Phases EXCEPT ![c] = "done"] /\ Phases[c] = "pending"
    BY PhaseOf, PhaseNow
  <1>2. KV!Effect(c)
    BY <1>1 DEF KV!Effect, Phases, Vals
  <1> QED BY <1>2 DEF KV!Next

\* Nothing can be delivered from no file or an empty one, and only from those.
LEMMA NoValues ==
  ASSUME PInv
  PROVE  LengthOf(file) = 0 => Vals = <<>> /\ Bare(file) = <<>>
  <1>1. file = NoFile \/ file \in Contents
    BY DEF PInv, IInv, Typed
  <1>2. LengthOf(file) = 0 => file = NoFile \/ file = <<>>
    BY <1>1 DEF LengthOf, Contents
  <1> QED BY <1>2, EmptyValues DEF Vals, Bare

LEMMA NothingGot ==
  ASSUME PInv, NEW c \in Clients, pc[c] # "idle"
  PROVE  got = [got EXCEPT ![c] = SubSeq(<<>>, 1, 0)]
  <1>1. got[c] = <<>> /\ SubSeq(<<>>, 1, 0) = <<>>
    BY DEF PInv, Progress
  <1> QED BY <1>1 DEF PInv, Results

\* A file that is too short for an entry cannot be read.
LEMMA ShortIsBad ==
  ASSUME PInv, AllSound
  PROVE  LengthOf(file) \notin 1..HeaderLen
  <1> SUFFICES ASSUME LengthOf(file) \in 1..HeaderLen PROVE FALSE
    OBVIOUS
  <1>1. file # NoFile /\ file \in Contents /\ Len(file) \in 1..HeaderLen
    BY DEF LengthOf, PInv, IInv, Typed
  <1>2. Readable(file)
    BY <1>1 DEF AllSound, Sound
  <1>3. Len(file) \in Nat /\ Len(file) >= 1 /\ Len(file) <= HeaderLen
    <2>1. \A n \in 1..4 : n \in Nat /\ n >= 1 /\ n <= 4
      OBVIOUS
    <2> QED BY <1>1, <2>1 DEF HeaderLen
  <1>4. ASSUME file = <<>> PROVE FALSE
    <2>1. Len(file) = 0
      BY <1>4
    <2> QED BY <1>3, <2>1
  <1>5. DeliverAll(file) = [vals |-> <<>>, bad |-> TRUE]
    BY <1>3, <1>4 DEF DeliverAll
  <1> QED BY <1>2, <1>5 DEF Readable

\* What the only client has downloaded, and what it uploads.
LEMMA OnlyCopy ==
  ASSUME RInv, NEW c \in Clients
  PROVE  /\ pc[c] = "download" =>
              /\ url[c] = file /\ file # NoFile /\ file \in Contents
              /\ Filled(url[c], size[c]) = file
         /\ pc[c] \in Uploads /\ op[c].kind = "put" =>
              buf[c] = Bare(file) \o Entry(op[c].value)
  <1>1. pc[c] \in Requests => window[c] = {file}
    BY DEF RInv, Alone
  <1>2. ASSUME pc[c] = "download"
        PROVE  /\ url[c] = file /\ file # NoFile /\ file \in Contents
               /\ Filled(url[c], size[c]) = file
    <2>1. /\ url[c] \in window[c] /\ url[c] # NoFile /\ Len(url[c]) = size[c]
          /\ url[c] \in Contents
      BY <1>2 DEF RInv, PInv, IInv, Typed, Held, Located
    <2>2. url[c] = file
      BY <1>1, <1>2, <2>1 DEF Requests
    <2> QED BY <2>1, <2>2, FilledWhole
  <1>3. ASSUME pc[c] \in Uploads, op[c].kind = "put"
        PROVE  buf[c] = Bare(file) \o Entry(op[c].value)
    <2>1. \E content \in window[c] : buf[c] = Bare(content) \o Entry(op[c].value)
      BY <1>3 DEF RInv, PInv, IInv, Held, Appended
    <2>2. window[c] = {file}
      BY <1>1, <1>3 DEF Uploads, Requests
    <2> QED BY <2>1, <2>2
  <1> QED BY <1>2, <1>3

\* The values of the key after an upload.
LEMMA UploadedValues ==
  ASSUME RInv, NEW c \in Clients, pc[c] \in {"upload", "part"}, file' = buf[c]
  PROVE  op[c].kind # "get" /\ Vals' = KV!After(op[c], Vals)
  <1>1. op[c] \in Ops /\ (file = NoFile \/ file \in Contents) /\ pc[c] \in Uploads
    BY DEF RInv, PInv, IInv, Typed, Uploads
  <1>2. \/ op[c].kind = "put"
        \/ op[c].kind = "set" /\ buf[c] = Entry(op[c].value)
    <2>1. Progress(c)
      BY DEF RInv, PInv
    <2> QED BY <1>1, <2>1 DEF Progress
  <1>3. op[c].value \in Values /\ op[c].value \in Storable
    BY <1>1, <1>2, OpValue, ValueIsStorable
  <1>4. buf[c] # NoFile => Vals' = ValuesIn(buf[c])
    BY DEF Vals
  <1>5. buf[c] # NoFile
    BY FilesAssumption DEF RInv, PInv, IInv, Typed, Contents
  <1>6. ASSUME op[c].kind = "put" PROVE Vals' = Append(Vals, op[c].value)
    <2>1. buf[c] = Bare(file) \o Entry(op[c].value)
      BY <1>1, <1>6, OnlyCopy
    <2>2. Bare(file) \in Seq(Bytes) /\ Readable(Bare(file)) /\ Vals = ValuesIn(Bare(file))
      BY <1>1, EmptyValues DEF Bare, Vals, RInv, AllSound, Sound, Contents, Bytes
    <2>3. ValuesIn(buf[c]) = Append(Vals, op[c].value)
      BY <1>3, <2>1, <2>2, AppendReadable
    <2> QED BY <1>4, <1>5, <2>3
  <1>7. ASSUME op[c].kind = "set", buf[c] = Entry(op[c].value)
        PROVE  Vals' = <<op[c].value>>
    <2>1. <<>> \o Entry(op[c].value) = Entry(op[c].value) /\ <<>> \in Seq(Bytes)
      BY <1>3, EntryIsContent, EmptyValues DEF Contents, Bytes
    <2>2. ValuesIn(Entry(op[c].value)) = Append(<<>>, op[c].value)
      BY <1>3, <2>1, EmptyValues, AppendReadable
    <2>3. Append(<<>>, op[c].value) = <<op[c].value>>
      OBVIOUS
    <2> QED BY <1>4, <1>5, <1>7, <2>2, <2>3
  <1> QED BY <1>2, <1>6, <1>7 DEF KV!After

LEMMA GetLengthRefines ==
  ASSUME RInv, NEW c \in Clients, GetLength(c)
  PROVE  KV!Next \/ UNCHANGED KV!vars
  <1>1. /\ PInv /\ pc[c] \in Requests /\ pc[c] # "idle"
        /\ UNCHANGED <<file, op, got>>
    BY DEF GetLength, RInv, Requests
  <1>2. CASE op[c].kind = "put" /\ UploadFrom(c, Entry(op[c].value)) /\ UNCHANGED result
    <2>1. \E s \in {"upload", "folder"} : Goto(c, s)
      BY <1>2 DEF UploadFrom
    <2> QED BY <1>1, <1>2, <2>1, RequestRefines DEF Requests
  <1>3. CASE LengthOf(file) = 0 /\ op[c].kind = "get" /\ Return(c, "ok")
    <2>1. Vals = <<>>
      BY <1>1, <1>3, NoValues
    <2>2. got' = [got EXCEPT ![c] = SubSeq(Vals, 1, 0)] /\ 0 \in 0..Len(Vals)
      BY <1>1, <2>1, NothingGot
    <2> QED BY <1>1, <1>3, <2>1, <2>2, ReadRefines
  <1>4. CASE LengthOf(file) \in 1..HeaderLen
    BY <1>1, <1>4, ShortIsBad DEF RInv
  <1>5. CASE Goto(c, "info") /\ UNCHANGED result
    BY <1>1, <1>5, RequestRefines DEF Requests
  <1> QED BY <1>2, <1>3, <1>4, <1>5 DEF GetLength

LEMMA DownloadRefines ==
  ASSUME RInv, NEW c \in Clients, Download(c)
  PROVE  KV!Next \/ UNCHANGED KV!vars
  <1>1. /\ PInv /\ pc[c] \in Requests /\ pc[c] = "download"
        /\ UNCHANGED <<file, op>>
    BY DEF Download, RInv, Requests
  <1>2. /\ file # NoFile /\ file \in Contents
        /\ Filled(url[c], size[c]) = file
    BY <1>1, OnlyCopy
  <1>3. CASE /\ op[c].kind = "put" /\ UploadFrom(c, file \o Entry(op[c].value))
             /\ UNCHANGED <<result, got>>
    <2>1. \E s \in {"upload", "folder"} : Goto(c, s)
      BY <1>3 DEF UploadFrom
    <2> QED BY <1>1, <1>3, <2>1, RequestRefines DEF Requests
  <1>4. ASSUME op[c].kind = "get", NEW limit \in 1..Len(file) + 1,
               got' = [got EXCEPT ![c] = Deliver(file, limit).vals],
               Return(c, IF Deliver(file, limit).bad THEN "bad" ELSE "ok")
        PROVE  KV!Next
    <2> DEFINE d == Deliver(file, limit)
               n == Len(d.vals)
    <2>1. file \in Seq(Bytes) /\ limit \in Nat /\ limit >= 1 /\ Readable(file)
      BY <1>2 DEF RInv, AllSound, Sound, Contents, Bytes
    <2>2. Vals = ValuesIn(file)
      BY <1>2 DEF Vals
    <2>3. /\ n \in 0..Len(Vals) /\ d.vals = SubSeq(Vals, 1, n)
          /\ n = 0 => Vals = <<>>
          /\ ~d.bad
      BY <2>1, <2>2, DeliverIsPrefix
    <2>4. Return(c, "ok")
      BY <1>4, <2>3
    <2>5. got' = [got EXCEPT ![c] = SubSeq(Vals, 1, n)]
      BY <1>4, <2>3
    <2> HIDE DEF d, n
    <2> QED BY <1>1, <1>4, <2>3, <2>4, <2>5, ReadRefines
  <1> QED BY <1>1, <1>2, <1>3, <1>4 DEF Download

LEMMA StepRefines ==
  ASSUME RInv, NEW c \in Clients, Step(c)
  PROVE  KV!Next \/ UNCHANGED KV!vars
  <1>0. PInv /\ AllSound
    BY DEF RInv
  <1>1. ASSUME NEW o \in Ops, Call(c, o) PROVE KV!Next
    <2>1. PICK s \in {"length", "upload", "folder", "delete"} : Goto(c, s)
      BY <1>1 DEF Call, UploadFrom
    <2>2. Phases' = [Phases EXCEPT ![c] = "pending"] /\ Phases[c] = "idle"
      BY <1>0, <1>1, <2>1, PhaseOf, PhaseNow DEF Call
    <2>3. Vals' = Vals
      BY <1>1 DEF Call, Vals
    <2>4. KV!Call(c, o) /\ o \in KV!Ops
      BY <1>1, <2>2, <2>3 DEF Call, KV!Call, KV!Ops, Ops, Phases, Vals
    <2> QED BY <2>4 DEF KV!Next
  <1>2. CASE Refused(c)
    <2>1. PICK r \in {"error", "again"} : Return(c, r)
      BY <1>2 DEF Refused
    <2> QED BY <1>0, <1>2, <2>1, ReturnRefines DEF Refused
  <1>3. CASE GetLength(c)
    BY <1>3, GetLengthRefines
  <1>4. CASE GetInfo(c)
    <2>1. pc[c] \in Requests /\ UNCHANGED <<file, op, got>>
      BY <1>4 DEF GetInfo, Requests
    <2>2. CASE Return(c, "error")
      BY <1>0, <2>1, <2>2, ReturnRefines
    <2>3. CASE Goto(c, "download") /\ UNCHANGED result
      BY <1>0, <2>1, <2>3, RequestRefines DEF Requests
    <2> QED BY <1>4, <2>2, <2>3 DEF GetInfo
  <1>5. CASE Download(c)
    BY <1>5, DownloadRefines
  <1>6. CASE Upload(c) \/ UploadPart(c)
    <2>1. /\ pc[c] \in {"upload", "part"} /\ pc[c] \in Requests
          /\ file' = buf[c] /\ Goto(c, "answer")
          /\ UNCHANGED <<op, result, got>>
      BY <1>6 DEF Upload, UploadPart, Store, local, Requests
    <2>2. op[c].kind # "get" /\ Vals' = KV!After(op[c], Vals)
      BY <2>1, UploadedValues
    <2> QED BY <1>0, <2>1, <2>2, EffectRefines
  <1>7. CASE PrepareSession(c)
    <2>1. \E s \in {"session", "part"} : Goto(c, s)
      BY <1>7 DEF PrepareSession
    <2>2. pc[c] \in Requests /\ UNCHANGED <<file, op, result, got>>
      BY <1>7 DEF PrepareSession, local, Requests
    <2> QED BY <1>0, <2>1, <2>2, RequestRefines DEF Requests
  <1>8. CASE Delete(c)
    <2>1. pc[c] = "delete" /\ pc[c] \in Requests /\ op[c].kind = "delete"
      BY <1>0, <1>8 DEF Delete, PInv, Progress, Requests
    <2>2. CASE Store(NoFile) /\ Goto(c, "answer") /\ UNCHANGED <<local, result>>
      <3>1. Vals' = <<>>
        BY <2>2 DEF Store, Vals
      <3>2. Vals' = KV!After(op[c], Vals)
        BY <2>1, <3>1 DEF KV!After
      <3> QED BY <1>0, <2>1, <2>2, <3>2, EffectRefines DEF local
    <2>3. CASE file = NoFile /\ Return(c, "ok") /\ UNCHANGED <<file, op, got>>
      <3>1. Vals = <<>>
        BY <2>3 DEF Vals
      <3> QED BY <1>0, <2>1, <2>3, <3>1, ReadRefines
    <2> QED BY <1>8, <2>2, <2>3 DEF Delete
  <1>9. CASE Answer(c)
    <2>1. PICK r \in {"ok", "error"} : Return(c, r)
      BY <1>9 DEF Answer
    <2> QED BY <1>0, <1>9, <2>1, ReturnRefines DEF Answer
  <1> QED BY <1>1, <1>2, <1>3, <1>4, <1>5, <1>6, <1>7, <1>8, <1>9 DEF Step

LEMMA NextRefines ==
  ASSUME RInv, [Next]_vars
  PROVE  [KV!Next]_(KV!vars)
  <1>1. CASE UNCHANGED vars
    <2>1. Vals' = Vals /\ Phases' = Phases /\ UNCHANGED <<op, result, got>>
      BY <1>1 DEF vars, Vals, Phases, Phase
    <2> QED BY <2>1 DEF KV!vars, Vals, Phases
  <1>2. CASE ~UNCHANGED vars
    BY <1>2, NextSteps, StepRefines
  <1> QED BY <1>1, <1>2

\* One client, whose key no other program writes, implements KVStore: each of its
\* calls takes effect at one moment between its invocation and its return, also
\* when requests fail or lose their answer.  With two clients it does not: the
\* upload of a put_value replaces what the other has stored since its first
\* request.
THEOREM Refinement ==
  ASSUME Single, Fresh
  PROVE  Spec => ImplementsKVStore
  <1>1. Init => RInv /\ KV!Init
    BY InitRefines
  <1>2. RInv /\ [Next]_vars => RInv'
    BY NextRInv
  <1>3. RInv /\ [Next]_vars => [KV!Next]_(KV!vars)
    BY NextRefines
  <1> QED BY <1>1, <1>2, <1>3, PTL DEF Spec, ImplementsKVStore, KV!Spec
=============================================================================
