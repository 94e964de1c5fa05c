------------------------------ MODULE ListFiles -----------------------------
(***************************************************************************)
(* Listing of a folder: hive_list_files (src/src/hive_file.c) over         *)
(* list_files of the OneDrive (src/src/vendors/onedrive/onedrive.c).       *)
(*                                                                         *)
(* The folder comes in pages, each with a link to the next one.  The names *)
(* of all pages are collected, and the application is told only when the   *)
(* last page was read.  Between the requests other clients create and      *)
(* delete files; a request may fail or be answered with 401, and an answer *)
(* may be malformed.                                                       *)
(*                                                                         *)
(* The link is opaque to the code.  The server is taken to order the names *)
(* and to go on behind the last name it delivered, as the skip token of    *)
(* OneDrive does.  Names are numbers, in that order.                       *)
(***************************************************************************)
EXTENDS Naturals, Integers, Sequences

CONSTANTS
    MaxName,        \* names are 1..MaxName
    PageSize,       \* names in a page
    MaxCalls,       \* bound: calls in a behaviour
    MaxFaults,      \* bound: failures and malformed answers in a behaviour
    MaxChanges      \* bound: files created and deleted in a behaviour

ASSUME NameAssumption   == MaxName \in Nat
ASSUME PageAssumption   == PageSize \in Nat \ {0}
ASSUME BoundsAssumption == {MaxCalls, MaxFaults, MaxChanges} \subseteq Nat

Names == 1..MaxName

VARIABLES
    files,          \* the names in the folder
    pc,             \* what the call does next
    link,           \* next_url: the name behind which the next page begins
    page,           \* the answer: its names and its link
    array,          \* the names collected
    heap,           \* how many parsed pages are allocated
    told,           \* the names the application was told in this call
    ended,          \* it was told that there are no more
    result,         \* the outcome of the last call
    calls, faults, changes,     \* what is still to come
    always, ever    \* history: names that were there all through, at any time

locals  == <<link, page, array, heap>>
outcome == <<told, ended, result>>
bounds  == <<calls, faults, changes>>
history == <<always, ever>>
vars    == <<files, pc, locals, outcome, bounds, history>>

Start  == 0         \* the first page
NoLink == -1        \* the last page was read
NoPage == [names |-> <<>>, next |-> NoLink]

Init ==
    /\ files  \in SUBSET Names
    /\ pc     = "idle"
    /\ link   = NoLink /\ page = NoPage /\ array = <<>> /\ heap = 0
    /\ told   = <<>> /\ ended = FALSE /\ result = "none"
    /\ calls  = MaxCalls /\ faults = MaxFaults /\ changes = MaxChanges
    /\ always = {} /\ ever = {}

Fault   == faults > 0 /\ faults' = faults - 1 /\ UNCHANGED <<calls, changes>>
NoFault == UNCHANGED bounds

Elements(s) == {s[i] : i \in DOMAIN s}

-----------------------------------------------------------------------------
(* The call.                                                               *)

Call ==
    /\ pc = "idle" /\ calls > 0
    /\ calls' = calls - 1
    /\ pc' = "check"
    /\ told' = <<>> /\ ended' = FALSE /\ result' = "none"
    /\ always' = files /\ ever' = files
    /\ UNCHANGED <<files, locals, faults, changes>>

\* The call returns r; the array goes with it.
Return(r) ==
    /\ pc' = "idle" /\ result' = r
    /\ array' = <<>> /\ link' = NoLink /\ page' = NoPage
    /\ UNCHANGED <<told, ended>>

\* oauth_token_check_expire, which fails if the token cannot be refreshed.
CheckExpire ==
    /\ pc = "check"
    /\ \/ /\ NoFault
          /\ pc' = "request" /\ link' = Start
          /\ UNCHANGED <<page, array, outcome>>
       \/ Fault /\ Return("error")
    /\ UNCHANGED <<heap, files, history>>

-----------------------------------------------------------------------------
(* The server.                                                             *)

Behind(l) == {n \in files : n > l}

\* The lists that fit a page.
Increasing ==
    {s \in UNION {[1..k -> Names] : k \in 0..PageSize} :
        \A i, j \in DOMAIN s : i < j => s[i] < s[j]}

\* The first names behind l: as many as fit, or all of them.
Delivers(names, l) ==
    /\ Elements(names) \subseteq Behind(l)
    /\ \/ Behind(l) \subseteq Elements(names)
       \/ /\ Len(names) = PageSize
          /\ \A n \in Behind(l) \ Elements(names) : n > names[PageSize]

PageOf(names, l) ==
    [names |-> names,
     next  |-> IF Behind(l) \subseteq Elements(names) THEN NoLink ELSE names[PageSize]]

-----------------------------------------------------------------------------
(* The loop.                                                               *)

\* The page whose link was used is deleted after the request.
AfterRequest(h) == IF link = Start THEN h ELSE h - 1

\* The request for a page: it fails, is refused, or brings an answer that is no
\* JSON; 401 zeroes the expiry of the token.
Request ==
    /\ pc = "request"
    /\ \/ /\ NoFault
          /\ \E names \in Increasing :
                Delivers(names, link) /\ page' = PageOf(names, link)
          /\ pc' = "merge"
          /\ heap' = AfterRequest(heap) + 1
          /\ UNCHANGED <<link, array, outcome>>
       \/ /\ Fault
          /\ heap' = AfterRequest(heap)
          /\ Return("error") \/ Return("again")
    /\ UNCHANGED <<files, history>>

\* Mutated forms: the page that holds the link is deleted too early; a page is
\* deleted again.
DeletedEarly(more) == heap - 1
DeletedTwice(more) == heap - 2

\* The last page is deleted when it was merged, another one when its link was
\* used.
Deleted(more) == IF more THEN heap ELSE heap - 1

\* Mutated form: only the first page counts.
FirstPage(a, names) == IF a = <<>> THEN names ELSE a

\* __merge_array moves the items one by one.
Merged(a, names) == a \o names

\* Mutated form: the loop goes on while the first page is empty.
EmptyAgain(p) == IF p.names = <<>> /\ link = Start THEN Start ELSE p.next

\* @odata.nextLink.
NextLink(p) == p.next

\* Mutated form: the application is told page by page.
MergeAndTell ==
    /\ pc = "merge"
    /\ \/ /\ NoFault
          /\ array' = Merged(array, page.names) /\ told' = array'
          /\ link'  = NextLink(page)
          /\ page'  = NoPage
          /\ heap'  = Deleted(page.next # NoLink)
          /\ pc'    = IF NextLink(page) = NoLink THEN "notify" ELSE "request"
          /\ UNCHANGED <<ended, result>>
       \/ Fault /\ heap' = heap - 1 /\ Return("error")
    /\ UNCHANGED <<files, history>>

\* A page that lacks its array, has an item that is neither a file nor a folder,
\* or a link that is no string ends the call, whatever was collected before.
Merge ==
    /\ pc = "merge"
    /\ \/ /\ NoFault
          /\ array' = Merged(array, page.names)
          /\ link'  = NextLink(page)
          /\ page'  = NoPage
          /\ heap'  = Deleted(page.next # NoLink)
          /\ pc'    = IF NextLink(page) = NoLink THEN "notify" ELSE "request"
          /\ UNCHANGED outcome
       \/ Fault /\ heap' = heap - 1 /\ Return("error")
    /\ UNCHANGED <<files, history>>

\* __notify_user_files: one name, after which the application may say that it
\* wants no more.
Notify ==
    /\ pc = "notify" /\ Len(told) < Len(array)
    /\ told' = Append(told, array[Len(told) + 1])
    /\ \/ UNCHANGED <<pc, result, locals>>
       \/ pc' = "idle" /\ result' = "stopped"
          /\ array' = <<>> /\ UNCHANGED <<link, page, heap>>
    /\ NoFault
    /\ UNCHANGED <<ended, files, history>>

\* The callback is called with NULL.
NotifyEnd ==
    /\ pc = "notify" /\ Len(told) = Len(array)
    /\ pc' = "idle" /\ result' = "ok"
    /\ ended' = TRUE
    /\ array' = <<>>
    /\ NoFault
    /\ UNCHANGED <<link, page, heap, told, files, history>>

-----------------------------------------------------------------------------
(* Other clients.                                                          *)

Change(n) ==
    /\ changes > 0 /\ changes' = changes - 1
    /\ files'  = IF n \in files THEN files \ {n} ELSE files \cup {n}
    /\ always' = always \cap files'
    /\ ever'   = ever \cup files'
    /\ UNCHANGED <<pc, locals, outcome, calls, faults>>

Step == CheckExpire \/ Request \/ Merge \/ Notify \/ NotifyEnd

Next == Call \/ Step \/ \E n \in Names : Change(n)

Spec == Init /\ [][Next]_vars

\* A call that was made runs on; requests end, with an answer or an error.
FairSpec == Spec /\ WF_vars(Step)

-----------------------------------------------------------------------------
(* Properties.                                                             *)

\* Every variable stays in its type.
TypeOK ==
    /\ files   \in SUBSET Names
    /\ pc      \in {"idle", "check", "request", "merge", "notify"}
    /\ link    \in Names \cup {Start, NoLink}
    /\ page    \in [names : Seq(Names), next : Names \cup {NoLink}]
    /\ array   \in Seq(Names)
    /\ heap    \in Nat
    /\ told    \in Seq(Names)
    /\ ended   \in BOOLEAN
    /\ result  \in {"none", "ok", "stopped", "error", "again"}
    /\ calls   \in 0..MaxCalls
    /\ faults  \in 0..MaxFaults
    /\ changes \in 0..MaxChanges
    /\ always  \in SUBSET Names
    /\ ever    \in SUBSET Names

\* A listing that returns 0 and was not stopped has told every file that was
\* there all through the call, nothing that never was, and nothing twice,
\* however the folder changed between the pages.
ListedWhole ==
    result = "ok" /\ ended =>
        /\ always \subseteq Elements(told)
        /\ Elements(told) \subseteq ever
        /\ \A i, j \in DOMAIN told : told[i] = told[j] => i = j

\* The application is told nothing by a call that fails: a 401 or a malformed
\* page in the middle leaves no half of a listing behind.
AllOrNothing ==
    result \in {"error", "again"} => told = <<>> /\ ~ended

\* A parsed page is deleted once, whichever way the loop is left, and not while
\* its link is still to be used for the next request.
PagesFreedOnce ==
    /\ heap \in {0, 1}
    /\ pc = "idle" => heap = 0
    /\ pc = "request" /\ link # Start => heap = 1

\* Every call ends, also when files keep appearing.
ListEnds == pc # "idle" ~> pc = "idle"
=============================================================================
