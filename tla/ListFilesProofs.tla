--------------------------- MODULE ListFilesProofs ----------------------------
(***************************************************************************)
(* Proofs about ListFiles for any number of names, any size of a page and  *)
(* any bounds.                                                             *)
(*                                                                         *)
(* The argument: what was collected is increasing, ends at the link, and   *)
(* holds every name up to the link that was there all through; a page      *)
(* continues it up to its own link.                                        *)
(***************************************************************************)
EXTENDS ListFiles, TLAPS

Rising(s) == \A i, j \in DOMAIN s : i < j => s[i] < s[j]

Pages ==
    /\ heap = IF pc = "merge" \/ (pc = "request" /\ link # Start) THEN 1 ELSE 0
    /\ pc \in {"idle", "check"} => array = <<>>
    /\ pc \in {"request", "merge"} => link # NoLink

Silent ==
    /\ pc # "idle" => result = "none" /\ ~ended
    /\ pc \in {"check", "request", "merge"} => told = <<>>
    /\ AllOrNothing

\* The names n collected up to a link l.
Collected(l) ==
    /\ \A n \in Elements(array) : n <= l
    /\ \A n \in always : n <= l => n \in Elements(array)

Continued ==
    /\ Rising(page.names) /\ Elements(page.names) \subseteq ever
    /\ \A n \in Elements(page.names) : n > link
    /\ \/ page.next = NoLink /\ \A n \in always : n > link => n \in Elements(page.names)
       \/ /\ page.next \in Names /\ page.next > link
          /\ \A n \in Elements(page.names) : n <= page.next
          /\ \A n \in always :
                n > link /\ n <= page.next => n \in Elements(page.names)

Listing ==
    /\ pc # "idle" => always \subseteq files /\ files \subseteq ever
    /\ pc \in {"request", "merge", "notify"} => Rising(array) /\ Elements(array) \subseteq ever
    /\ pc \in {"request", "merge"} => Collected(link)
    /\ pc = "merge" => Continued
    /\ pc = "notify" => /\ always \subseteq Elements(array)
                        /\ Len(told) <= Len(array)
                        /\ \A i \in 1..Len(told) : told[i] = array[i]
    /\ ListedWhole

IInv == TypeOK /\ Pages /\ Silent /\ Listing

-----------------------------------------------------------------------------
(* Names and lists.                                                        *)

LEMMA NamesAreNumbers == \A n \in Names : n \in Int /\ n > 0 /\ n # Start /\ n # NoLink
  BY NameAssumption DEF Names, Start, NoLink

LEMMA RisingConcat ==
  ASSUME NEW s \in Seq(Names), NEW t \in Seq(Names), NEW l \in Int,
         Rising(s), Rising(t),
         \A n \in Elements(s) : n <= l, \A n \in Elements(t) : n > l
  PROVE  /\ s \o t \in Seq(Names)
         /\ Rising(s \o t)
         /\ Elements(s \o t) = Elements(s) \cup Elements(t)
  <1> DEFINE u == s \o t
  <1>1. /\ u \in Seq(Names) /\ Len(s) \in Nat /\ Len(t) \in Nat
        /\ DOMAIN s = 1..Len(s) /\ DOMAIN t = 1..Len(t) /\ DOMAIN u = 1..(Len(s) + Len(t))
        /\ \A i \in 1..Len(s) : u[i] = s[i]
        /\ \A i \in (Len(s) + 1)..(Len(s) + Len(t)) : u[i] = t[i - Len(s)]
    OBVIOUS
  <1> HIDE DEF u
  <1>a. ASSUME NEW i \in DOMAIN u, i \notin DOMAIN s
        PROVE  i > Len(s) /\ i - Len(s) \in DOMAIN t /\ u[i] = t[i - Len(s)]
    <2>1. i \in (Len(s) + 1)..(Len(s) + Len(t)) /\ i - Len(s) \in 1..Len(t) /\ i > Len(s)
      BY <1>1, <1>a
    <2> QED
      BY <1>1, <2>1
  <1>2. \A i \in DOMAIN u :
          \/ i \in DOMAIN s /\ u[i] = s[i]
          \/ i > Len(s) /\ i - Len(s) \in DOMAIN t /\ u[i] = t[i - Len(s)]
    <2> SUFFICES ASSUME NEW i \in DOMAIN u
                 PROVE  \/ i \in DOMAIN s /\ u[i] = s[i]
                        \/ i > Len(s) /\ i - Len(s) \in DOMAIN t /\ u[i] = t[i - Len(s)]
      OBVIOUS
    <2>1. CASE i \in DOMAIN s
      BY <1>1, <2>1
    <2>2. CASE i \notin DOMAIN s
      BY <1>a, <2>2
    <2> QED
      BY <2>1, <2>2
  <1>3. \A j \in DOMAIN t : j + Len(s) \in DOMAIN u /\ u[j + Len(s)] = t[j]
    <2> SUFFICES ASSUME NEW j \in DOMAIN t
                 PROVE  j + Len(s) \in DOMAIN u /\ u[j + Len(s)] = t[j]
      OBVIOUS
    <2>1. /\ j + Len(s) \in (Len(s) + 1)..(Len(s) + Len(t))
          /\ (j + Len(s)) - Len(s) = j /\ j + Len(s) \in DOMAIN u
      BY <1>1
    <2> QED
      BY <1>1, <2>1
  <1>4. Elements(u) = Elements(s) \cup Elements(t)
    <2>1. Elements(u) \subseteq Elements(s) \cup Elements(t)
      BY <1>2 DEF Elements
    <2>2. Elements(s) \subseteq Elements(u)
      BY <1>1 DEF Elements
    <2>3. Elements(t) \subseteq Elements(u)
      BY <1>3 DEF Elements
    <2> QED
      BY <2>1, <2>2, <2>3
  <1>5. Rising(u)
    <2> SUFFICES ASSUME NEW i \in DOMAIN u, NEW j \in DOMAIN u, i < j
                 PROVE  u[i] < u[j]
      BY DEF Rising
    <2>1. CASE i \in DOMAIN s /\ j \in DOMAIN s
      BY <1>1, <2>1 DEF Rising
    <2>2. CASE i \in DOMAIN s /\ j \notin DOMAIN s
      <3>1. j - Len(s) \in DOMAIN t /\ u[j] = t[j - Len(s)] /\ u[i] = s[i]
        BY <1>1, <1>2, <2>2
      <3>2. u[i] \in Elements(s) /\ u[j] \in Elements(t)
        BY <2>2, <3>1 DEF Elements
      <3>3. u[i] \in Int /\ u[j] \in Int
        BY <1>1, NamesAreNumbers
      <3> QED
        BY <3>2, <3>3
    <2>3. CASE i \notin DOMAIN s
      <3>1. j \notin DOMAIN s
        BY <1>1, <2>3
      <3>2. /\ i - Len(s) \in DOMAIN t /\ u[i] = t[i - Len(s)]
            /\ j - Len(s) \in DOMAIN t /\ u[j] = t[j - Len(s)]
            /\ i - Len(s) < j - Len(s)
        BY <1>1, <1>2, <2>3, <3>1
      <3> QED
        BY <3>2 DEF Rising
    <2> QED
      BY <2>1, <2>2, <2>3
  <1> QED
    BY <1>1, <1>4, <1>5 DEF u

\* A page that the server delivers.
LEMMA PageType ==
  ASSUME NEW l \in Names \cup {Start}, NEW names \in Increasing, Delivers(names, l),
         files \subseteq Names
  PROVE  /\ names \in Seq(Names) /\ Rising(names)
         /\ Elements(names) \subseteq files
         /\ \A n \in Elements(names) : n > l
         /\ \/ /\ PageOf(names, l).next = NoLink
               /\ \A n \in files : n > l => n \in Elements(names)
            \/ /\ PageOf(names, l).next \in Names /\ PageOf(names, l).next > l
               /\ \A n \in Elements(names) : n <= PageOf(names, l).next
               /\ \A n \in files : n > l /\ n <= PageOf(names, l).next
                                    => n \in Elements(names)
         /\ PageOf(names, l) \in [names : Seq(Names), next : Names \cup {NoLink}]
         /\ PageOf(names, l).names = names
  <1>1. PICK k \in 0..PageSize : names \in [1..k -> Names]
    BY DEF Increasing
  <1>2. names \in Seq(Names) /\ DOMAIN names = 1..k /\ Len(names) = k /\ k \in Nat
    <2>1. names \in Seq(Names)
      BY <1>1, PageAssumption
    <2> QED
      BY <1>1, <2>1, PageAssumption
  <1>3. Rising(names)
    BY DEF Increasing, Rising
  <1>4. Elements(names) \subseteq files /\ \A n \in Elements(names) : n > l
    BY DEF Delivers, Behind
  <1>5. CASE Behind(l) \subseteq Elements(names)
    BY <1>2, <1>3, <1>4, <1>5 DEF PageOf, Behind
  <1>6. CASE ~(Behind(l) \subseteq Elements(names))
    <2>1. /\ Len(names) = PageSize /\ PageOf(names, l).next = names[PageSize]
          /\ \A n \in Behind(l) \ Elements(names) : n > names[PageSize]
      BY <1>6 DEF Delivers, PageOf
    <2>2. PageSize \in DOMAIN names /\ names[PageSize] \in Names
          /\ names[PageSize] \in Elements(names)
      BY <1>2, <2>1, PageAssumption DEF Elements
    <2>3. \A n \in Elements(names) : n <= names[PageSize]
      <3> SUFFICES ASSUME NEW i \in DOMAIN names PROVE names[i] <= names[PageSize]
        BY DEF Elements
      <3>1. i = PageSize \/ i < PageSize
        BY <1>2, <2>1
      <3>2. names[i] \in Int
        BY <1>2, NamesAreNumbers
      <3> QED
        BY <1>3, <2>2, <3>1, <3>2, NamesAreNumbers DEF Rising
    <2>4. \A n \in files : n > l /\ n <= names[PageSize] => n \in Elements(names)
      <3> SUFFICES ASSUME NEW n \in files, n > l, n <= names[PageSize], n \notin Elements(names)
                   PROVE  FALSE
        OBVIOUS
      <3>1. n > names[PageSize]
        BY <2>1 DEF Behind
      <3>2. n \in Int /\ names[PageSize] \in Int
        BY <2>2, NamesAreNumbers
      <3> QED
        BY <3>1, <3>2
    <2> QED
      BY <1>2, <1>3, <1>4, <1>6, <2>1, <2>2, <2>3, <2>4 DEF PageOf
  <1> QED
    BY <1>5, <1>6

-----------------------------------------------------------------------------
(* Steps that have much in common.                                         *)

LEMMA FaultType ==
  ASSUME TypeOK, Fault \/ NoFault
  PROVE  calls' \in 0..MaxCalls /\ faults' \in 0..MaxFaults /\ changes' \in 0..MaxChanges
  BY BoundsAssumption DEF TypeOK, Fault, NoFault, bounds

\* A failure: whatever was collected goes.
LEMMA FailStep ==
  ASSUME IInv, Fault, pc \in {"check", "request", "merge"},
         NEW r \in {"error", "again"}, Return(r), heap' = 0,
         UNCHANGED <<files, history>>
  PROVE  IInv'
  <1>1. TypeOK'
    <2>1. /\ pc' = "idle" /\ result' = r /\ array' = <<>> /\ link' = NoLink
          /\ page' = NoPage /\ heap' = 0
          /\ UNCHANGED <<told, ended, files, always, ever>>
      BY DEF Return, history
    <2>2. array' \in Seq(Names) /\ page' \in [names : Seq(Names), next : Names \cup {NoLink}]
      BY <2>1 DEF NoPage
    <2> QED
      BY <2>1, <2>2, FaultType DEF IInv, TypeOK
  <1>2. Pages'
    BY DEF Return, Pages
  <1>3. Silent'
    BY DEF Return, IInv, Silent, AllOrNothing
  <1>4. Listing'
    BY DEF Return, Listing, ListedWhole
  <1> QED
    BY <1>1, <1>2, <1>3, <1>4 DEF IInv

LEMMA InitStep == Init => IInv
  <1> SUFFICES ASSUME Init PROVE IInv
    OBVIOUS
  <1>1. TypeOK
    <2>1. page \in [names : Seq(Names), next : Names \cup {NoLink}]
      BY DEF Init, NoPage
    <2>2. calls \in 0..MaxCalls /\ faults \in 0..MaxFaults /\ changes \in 0..MaxChanges
      BY BoundsAssumption DEF Init
    <2>3. array \in Seq(Names) /\ told \in Seq(Names)
      BY DEF Init
    <2> QED
      BY <2>1, <2>2, <2>3 DEF Init, TypeOK
  <1>2. Pages /\ Silent /\ Listing
    BY DEF Init, Pages, Silent, Listing, AllOrNothing, ListedWhole
  <1> QED
    BY <1>1, <1>2 DEF IInv

LEMMA CallStep == IInv /\ Call => IInv'
  <1> SUFFICES ASSUME IInv, Call PROVE IInv'
    OBVIOUS
  <1>0. /\ pc = "idle" /\ pc' = "check" /\ told' = <<>> /\ result' = "none"
        /\ always' = files /\ ever' = files /\ ended' = FALSE
        /\ UNCHANGED <<files, link, page, array, heap, faults, changes>>
    BY DEF Call, locals
  <1>1. TypeOK'
    <2>1. calls' \in 0..MaxCalls
      BY BoundsAssumption DEF Call, IInv, TypeOK
    <2>2. told' \in Seq(Names)
      BY <1>0
    <2> QED
      BY <1>0, <2>1, <2>2 DEF IInv, TypeOK
  <1>2. Pages' /\ Silent'
    BY <1>0 DEF IInv, Pages, Silent, AllOrNothing
  <1>3. Listing'
    BY DEF Call, Listing, ListedWhole
  <1> QED
    BY <1>1, <1>2, <1>3 DEF IInv

LEMMA CheckStep == IInv /\ CheckExpire => IInv'
  <1> SUFFICES ASSUME IInv, CheckExpire PROVE IInv'
    OBVIOUS
  <1>1. CASE Fault /\ Return("error")
    <2>1. heap' = 0
      BY DEF CheckExpire, IInv, Pages
    <2> QED
      BY <1>1, <2>1, FailStep DEF CheckExpire
  <1>2. CASE /\ NoFault /\ pc' = "request" /\ link' = Start
             /\ UNCHANGED <<page, array, outcome>>
    <2>0. /\ pc = "check" /\ array = <<>> /\ array' = <<>> /\ heap = 0 /\ heap' = 0
          /\ UNCHANGED <<files, always, ever, told, ended, result>>
      BY <1>2 DEF CheckExpire, IInv, Pages, history, outcome
    <2>1. TypeOK'
      BY <1>2, <2>0, FaultType DEF IInv, TypeOK
    <2>2. Pages' /\ Silent'
      BY <1>2, <2>0 DEF IInv, Pages, Silent, AllOrNothing, Start, NoLink
    <2>3. Elements(array') = {} /\ Rising(array')
      BY <2>0 DEF Elements, Rising
    <2>4. Collected(link)'
      <3>1. \A n \in always : ~(n <= Start)
        BY NamesAreNumbers DEF IInv, TypeOK, Start
      <3> QED
        BY <1>2, <2>0, <2>3, <3>1 DEF Collected
    <2>5. Listing'
      BY <1>2, <2>0, <2>3, <2>4 DEF IInv, Listing, ListedWhole, Silent
    <2> QED
      BY <2>1, <2>2, <2>5 DEF IInv
  <1> QED
    BY <1>1, <1>2 DEF CheckExpire

LEMMA RequestStep == IInv /\ Request => IInv'
  <1> SUFFICES ASSUME IInv, Request PROVE IInv'
    OBVIOUS
  <1>0. /\ pc = "request" /\ link \in Names \cup {Start} /\ AfterRequest(heap) = 0
        /\ UNCHANGED <<files, history>>
    BY DEF Request, IInv, TypeOK, Pages, AfterRequest
  <1>1. CASE Fault /\ heap' = AfterRequest(heap) /\ (Return("error") \/ Return("again"))
    BY <1>0, <1>1, FailStep
  <1>2. ASSUME NoFault, pc' = "merge", heap' = AfterRequest(heap) + 1,
               UNCHANGED <<link, array, outcome>>,
               NEW names \in Increasing, Delivers(names, link), page' = PageOf(names, link)
        PROVE  IInv'
    <2> DEFINE P == PageOf(names, link)
    <2>1. /\ Rising(names) /\ Elements(names) \subseteq files
          /\ \A n \in Elements(names) : n > link
          /\ \/ /\ P.next = NoLink
                /\ \A n \in files : n > link => n \in Elements(names)
             \/ /\ P.next \in Names /\ P.next > link
                /\ \A n \in Elements(names) : n <= P.next
                /\ \A n \in files : n > link /\ n <= P.next => n \in Elements(names)
          /\ P \in [names : Seq(Names), next : Names \cup {NoLink}] /\ P.names = names
      BY <1>0, <1>2, PageType DEF IInv, TypeOK
    <2> HIDE DEF P
    <2>2. page' = P /\ heap' = 1
          /\ UNCHANGED <<files, always, ever, told, ended, result, link, array>>
      BY <1>0, <1>2 DEF history, outcome, P
    <2>3. TypeOK'
      BY <1>2, <2>1, <2>2, FaultType DEF IInv, TypeOK
    <2>4. Pages' /\ Silent'
      BY <1>0, <1>2, <2>2 DEF IInv, Pages, Silent, AllOrNothing
    <2>5. always \subseteq files /\ files \subseteq ever
      BY <1>0 DEF IInv, Listing
    <2>6. Continued'
      BY <2>1, <2>2, <2>5 DEF Continued
    <2>7. Listing'
      BY <1>0, <1>2, <2>2, <2>5, <2>6 DEF IInv, Listing, Collected, ListedWhole
    <2> QED
      BY <2>3, <2>4, <2>7 DEF IInv
  <1> QED
    BY <1>1, <1>2 DEF Request

LEMMA MergeStep == IInv /\ Merge => IInv'
  <1> SUFFICES ASSUME IInv, Merge PROVE IInv'
    OBVIOUS
  <1>0. /\ pc = "merge" /\ link \in Names \cup {Start} /\ heap = 1
        /\ UNCHANGED <<files, history>>
        /\ page \in [names : Seq(Names), next : Names \cup {NoLink}]
        /\ array \in Seq(Names) /\ always \subseteq Names
    BY DEF Merge, IInv, TypeOK, Pages
  <1>1. CASE Fault /\ heap' = heap - 1 /\ Return("error")
    <2>1. heap' = 0
      BY <1>0, <1>1
    <2> QED
      BY <1>0, <1>1, <2>1, FailStep
  <1>2. CASE /\ NoFault
             /\ array' = Merged(array, page.names)
             /\ link'  = NextLink(page)
             /\ page'  = NoPage
             /\ heap'  = Deleted(page.next # NoLink)
             /\ pc'    = IF NextLink(page) = NoLink THEN "notify" ELSE "request"
             /\ UNCHANGED outcome
    <2>1. /\ array' = array \o page.names /\ link' = page.next
          /\ heap' = (IF page.next # NoLink THEN 1 ELSE 0)
          /\ pc' = IF page.next = NoLink THEN "notify" ELSE "request"
          /\ UNCHANGED <<files, always, ever, told, ended, result>>
      BY <1>0, <1>2 DEF history, outcome, Merged, NextLink, Deleted
    <2>2. /\ Rising(array) /\ Elements(array) \subseteq ever /\ Collected(link) /\ Continued
          /\ always \subseteq files /\ files \subseteq ever
      BY <1>0 DEF IInv, Listing
    <2>3. link \in Int /\ \A n \in always : n \in Int
      BY <1>0, NamesAreNumbers DEF Start
    <2>4. /\ array' \in Seq(Names) /\ Rising(array')
          /\ Elements(array') = Elements(array) \cup Elements(page.names)
      BY <1>0, <2>1, <2>2, <2>3, RisingConcat DEF Continued, Collected
    <2>5. page' \in [names : Seq(Names), next : Names \cup {NoLink}]
      BY <1>2 DEF NoPage
    <2>6. TypeOK'
      BY <1>0, <1>2, <2>1, <2>4, <2>5, FaultType DEF IInv, TypeOK
    <2>7. Pages' /\ Silent'
      BY <1>0, <2>1, NamesAreNumbers DEF IInv, Pages, Silent, AllOrNothing
    <2>8. Elements(array') \subseteq ever
      BY <2>2, <2>4 DEF Continued
    <2>9. CASE page.next = NoLink
      <3>1. always \subseteq Elements(array')
        <4>1. \A n \in always : n <= link \/ n > link
          BY <2>3
        <4>2. \A n \in always : n > link => n \in Elements(page.names)
          BY <2>2, <2>9, NamesAreNumbers DEF Continued
        <4> QED
          BY <2>2, <2>4, <4>1, <4>2 DEF Collected
      <3>2. told' = <<>> /\ result' = "none"
        BY <1>0, <2>1 DEF IInv, Silent
      <3>3. Len(told') <= Len(array') /\ \A i \in 1..Len(told') : told'[i] = array'[i]
        BY <2>4, <3>2
      <3>4. Listing'
        BY <2>1, <2>2, <2>4, <2>8, <2>9, <3>1, <3>2, <3>3 DEF Listing, ListedWhole
      <3> QED
        BY <2>6, <2>7, <3>4 DEF IInv
    <2>10. CASE page.next # NoLink
      <3>1. page.next \in Names /\ page.next \in Int
        BY <1>0, <2>10, NamesAreNumbers
      <3>2. /\ page.next > link /\ \A n \in Elements(page.names) : n <= page.next
            /\ \A n \in always : n > link /\ n <= page.next => n \in Elements(page.names)
        BY <2>2, <2>10 DEF Continued
      <3>3. \A n \in Elements(array) : n \in Int /\ n <= link
        BY <1>0, <2>2, NamesAreNumbers DEF Elements, Collected
      <3>4. \A n \in Elements(array') : n <= page.next
        BY <2>3, <2>4, <3>1, <3>2, <3>3
      <3>5. \A n \in always : n <= page.next => n \in Elements(array')
        <4>1. \A n \in always : n <= link \/ n > link
          BY <2>3
        <4> QED
          BY <2>2, <2>4, <3>2, <4>1 DEF Collected
      <3>6. Collected(link)'
        BY <2>1, <3>4, <3>5 DEF Collected
      <3>7. Listing'
        BY <1>0, <2>1, <2>2, <2>4, <2>8, <2>10, <3>6 DEF IInv, Listing, Silent, ListedWhole
      <3> QED
        BY <2>6, <2>7, <3>7 DEF IInv
    <2> QED
      BY <2>9, <2>10
  <1> QED
    BY <1>1, <1>2 DEF Merge

LEMMA NotifyStep == IInv /\ Notify => IInv'
  <1> SUFFICES ASSUME IInv, Notify PROVE IInv'
    OBVIOUS
  <1>0. /\ pc = "notify" /\ Len(told) < Len(array) /\ told' = Append(told, array[Len(told) + 1])
        /\ told \in Seq(Names) /\ array \in Seq(Names) /\ heap = 0 /\ heap' = 0
        /\ UNCHANGED <<ended, files, always, ever, link, page>> /\ NoFault
    BY DEF Notify, IInv, TypeOK, Pages, history, locals
  <1>1. /\ told' \in Seq(Names) /\ Len(told') = Len(told) + 1 /\ Len(told') <= Len(array)
        /\ \A i \in 1..Len(told) : told'[i] = told[i]
        /\ told'[Len(told) + 1] = array[Len(told) + 1]
    <2>1. Len(told) + 1 \in 1..Len(array)
      BY <1>0
    <2>2. array[Len(told) + 1] \in Names
      BY <1>0, <2>1
    <2> QED
      BY <1>0, <2>2
  <1>2. ~ended
    BY <1>0 DEF IInv, Silent
  <1>3. CASE UNCHANGED <<pc, result, locals>>
    <2>1. TypeOK'
      BY <1>0, <1>1, <1>3, FaultType DEF IInv, TypeOK, locals
    <2>2. Pages' /\ Silent'
      BY <1>0, <1>2, <1>3 DEF IInv, Pages, Silent, AllOrNothing, locals
    <2>3. \A i \in 1..Len(told') : told'[i] = array[i]
      <3> SUFFICES ASSUME NEW i \in 1..Len(told') PROVE told'[i] = array[i]
        OBVIOUS
      <3>1. i \in 1..Len(told) \/ i = Len(told) + 1
        BY <1>0, <1>1
      <3> QED
        BY <1>0, <1>1, <3>1 DEF IInv, Listing
    <2>4. Listing'
      BY <1>0, <1>1, <1>2, <1>3, <2>3 DEF IInv, Listing, ListedWhole, locals
    <2> QED
      BY <2>1, <2>2, <2>4 DEF IInv
  <1>4. CASE pc' = "idle" /\ result' = "stopped" /\ array' = <<>>
    <2>1. TypeOK'
      <3>1. array' \in Seq(Names)
        BY <1>4
      <3> QED
        BY <1>0, <1>1, <1>4, <3>1, FaultType DEF IInv, TypeOK
    <2>2. Pages' /\ Silent'
      BY <1>0, <1>2, <1>4 DEF IInv, Pages, Silent, AllOrNothing
    <2>3. Listing'
      BY <1>4 DEF Listing, ListedWhole
    <2> QED
      BY <2>1, <2>2, <2>3 DEF IInv
  <1> QED
    BY <1>3, <1>4 DEF Notify

LEMMA NotifyEndStep == IInv /\ NotifyEnd => IInv'
  <1> SUFFICES ASSUME IInv, NotifyEnd PROVE IInv'
    OBVIOUS
  <1>0. /\ pc = "notify" /\ Len(told) = Len(array) /\ pc' = "idle" /\ result' = "ok"
        /\ ended' = TRUE /\ array' = <<>> /\ NoFault
        /\ told \in Seq(Names) /\ array \in Seq(Names) /\ heap = 0
        /\ UNCHANGED <<link, page, heap, told, files, always, ever>>
    BY DEF NotifyEnd, IInv, TypeOK, Pages, history
  <1>1. TypeOK'
    <2>1. array' \in Seq(Names)
      BY <1>0
    <2> QED
      BY <1>0, <2>1, FaultType DEF IInv, TypeOK
  <1>2. Pages' /\ Silent'
    BY <1>0 DEF Pages, Silent, AllOrNothing
  <1>3. told = array
    <2>1. \A i \in 1..Len(told) : told[i] = array[i]
      BY <1>0 DEF IInv, Listing
    <2> QED
      BY <1>0, <2>1
  <1>4. /\ always \subseteq Elements(told) /\ Elements(told) \subseteq ever /\ Rising(told)
    BY <1>0, <1>3 DEF IInv, Listing
  <1>5. \A i, j \in DOMAIN told : told[i] = told[j] => i = j
    <2> SUFFICES ASSUME NEW i \in DOMAIN told, NEW j \in DOMAIN told, i # j
                 PROVE  told[i] # told[j]
      OBVIOUS
    <2>1. i < j \/ j < i
      BY <1>0
    <2>2. told[i] \in Int /\ told[j] \in Int
      BY <1>0, NamesAreNumbers
    <2> QED
      BY <1>4, <2>1, <2>2 DEF Rising
  <1>6. Listing'
    BY <1>0, <1>4, <1>5 DEF Listing, ListedWhole
  <1> QED
    BY <1>1, <1>2, <1>6 DEF IInv

\* Another client: what was there all through can only become less, what was
\* there at any time only more.
LEMMA ChangeStep == ASSUME NEW n \in Names PROVE IInv /\ Change(n) => IInv'
  <1> SUFFICES ASSUME IInv, Change(n) PROVE IInv'
    OBVIOUS
  <1>0. /\ files' \in SUBSET Names /\ always' = always \cap files' /\ ever' = ever \cup files'
        /\ changes' \in 0..MaxChanges
        /\ UNCHANGED <<pc, link, page, array, heap, told, ended, result, calls, faults>>
    BY BoundsAssumption DEF Change, IInv, TypeOK, locals, outcome
  <1>1. TypeOK'
    BY <1>0 DEF IInv, TypeOK
  <1>2. Pages' /\ Silent'
    BY <1>0 DEF IInv, Pages, Silent, AllOrNothing
  <1>3. ListedWhole'
    BY <1>0 DEF IInv, Listing, ListedWhole
  <1>4. pc = "merge" => Continued'
    BY <1>0 DEF IInv, Listing, Continued
  <1>5. pc \in {"request", "merge"} => Collected(link)'
    BY <1>0 DEF IInv, Listing, Collected
  <1>6. Listing'
    BY <1>0, <1>3, <1>4, <1>5 DEF IInv, Listing
  <1> QED
    BY <1>1, <1>2, <1>6 DEF IInv

-----------------------------------------------------------------------------
(* The theorems.                                                           *)

THEOREM Invariance == Spec => []IInv
  <1>1. Init => IInv
    BY InitStep
  <1>2. IInv /\ [Next]_vars => IInv'
    <2>1. IInv /\ UNCHANGED vars => IInv'
      BY DEF vars, locals, outcome, bounds, history, IInv, TypeOK, Pages, Silent, Listing,
             AllOrNothing, ListedWhole, Collected, Continued
    <2> QED
      BY <2>1, CallStep, CheckStep, RequestStep, MergeStep, NotifyStep, NotifyEndStep,
         ChangeStep DEF Next, Step
  <1> QED
    BY <1>1, <1>2, PTL DEF Spec

\* Every variable of the listing stays in its type; in particular no page is
\* deleted that is not there.
THEOREM TypeCorrect == Spec => []TypeOK
  <1>1. IInv => TypeOK
    BY DEF IInv
  <1> QED
    BY <1>1, Invariance, PTL

\* A listing that succeeds is whole, for folders and pages of any size and any
\* number of changes between the pages.
THEOREM AlwaysWhole == Spec => []ListedWhole
  <1>1. IInv => ListedWhole
    BY DEF IInv, Listing
  <1> QED
    BY <1>1, Invariance, PTL

\* A listing that fails has told the application nothing.
THEOREM AlwaysAllOrNothing == Spec => []AllOrNothing
  <1>1. IInv => AllOrNothing
    BY DEF IInv, Silent
  <1> QED
    BY <1>1, Invariance, PTL

\* A parsed page lives as long as its link is needed, and is deleted once.
THEOREM AlwaysFreedOnce == Spec => []PagesFreedOnce
  <1>1. IInv => PagesFreedOnce
    BY DEF IInv, Pages, PagesFreedOnce
  <1> QED
    BY <1>1, Invariance, PTL
=============================================================================
