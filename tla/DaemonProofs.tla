---------------------------- MODULE DaemonProofs ----------------------------
(***************************************************************************)
(* Proofs about the daemon, for any set of requests that is finite, any     *)
(* mixture of kinds and start times, and any bounds.                        *)
(*                                                                         *)
(* The argument.  STATEFILE, and every copy that somebody is about to write *)
(* over it, is a list of queued requests without repetition.  Whatever is   *)
(* scheduled, or has a thread, has its entry in the file and in the copy    *)
(* the daemon has in its hands, unless a client took it out: that is what   *)
(* survives the daemon's unlocked writes.  Within check_schedule the events *)
(* marked found are those of the entries that its loop has passed, so at    *)
(* its end events and entries are the same, if nobody wrote in between; and *)
(* after every write there is something to read from the watch.             *)
(*                                                                         *)
(* Sessions, clients and time touch a few fields and the file (Background); *)
(* a step that ends or starts the process leaves nothing (Blank); the rest  *)
(* are the steps of the main thread, one lemma each.                        *)
(***************************************************************************)
EXTENDS Daemon, FiniteSetTheorems, SequenceTheorems, TLAPS

-----------------------------------------------------------------------------
(* The invariant                                                             *)

Entries == Requests \cup {"shutdown"}

\* free_and_close is at work on victim, within check_schedule, or elsewhere.
Closing == pc \in {"stop", "join", "convert", "unlist", "rewrite", "leave"}
Checking == pc \in {"look", "shutdown"} \/ (Closing /\ back = "look")

\* A session's thread runs.
Active(r) == ev[r].thread \notin {"none", "exited"}

Events ==
  [status : {"NOT_STARTED", "RUNNING", "CANCELLED", "STOPPED", "FINISHED", "ERROR"},
   found : BOOLEAN,
   thread : {"none", "prep", "init", "create", "wait", "join", "exited"},
   ent : {NULL, "raw", "ready"}, streamer : BOOLEAN, open : BOOLEAN, fi : BOOLEAN]

MainPlaces ==
  {"down", "lock", "look", "shutdown", "start", "poll", "finish", "closing",
   "stop", "join", "convert", "unlist", "rewrite", "leave"}

TypeInv ==
  /\ file \in Seq(Entries) /\ cfg \in Seq(Entries) /\ copy \in Seq(Entries) /\ i \in Nat
  /\ freelist \in Seq(Requests) /\ busylist \in Seq(Requests)
  /\ ev \in [Requests -> Events]
  /\ index \in [Names -> [associations : Nat, recording : BOOLEAN]]
  /\ pc \in MainPlaces /\ notify \in BOOLEAN
  /\ queued \subseteq Requests
  /\ editor \in {<<>>} \cup (Seq(Entries) \X Entries)
  /\ (pc = "lock" \/ Checking) => then \in {"start", "finish"}
  /\ Closing => victim \in Requests /\ back \in {"look", "start", "finish", "closing"}

Once(s) == \A j, k \in DOMAIN s : s[j] = s[k] => j = k

\* A file, or what somebody read of it.
WellFormed(s) == Once(s) /\ Range(s) \subseteq queued \cup {"shutdown"}

FilesInv ==
  /\ WellFormed(file) /\ WellFormed(copy)
  /\ editor # <<>> => WellFormed(editor[1])

\* An event is in one list once, or is the one that is being closed.
ListsInv ==
  /\ Once(freelist) /\ Once(busylist)
  /\ Range(freelist) \cap Range(busylist) = {}
  /\ Closing => victim \notin Scheduled

\* A session has its file index from its start until its event is freed.
EventsInv ==
  /\ \A r \in Requests : ev[r].fi <=> ev[r].thread # "none"
  /\ \A r \in Requests : ev[r].fi => r \in Range(busylist) \/ (Closing /\ r = victim)
  /\ pc \in {"convert", "unlist", "rewrite", "leave"} => ~Active(victim)

\* What is scheduled has its entry, unless a client took it out: in the file, and in
\* what the daemon is about to write over it.
KnownIn(s) ==
  \A r \in Requests : r \in Scheduled \/ Active(r) => r \in Range(s) \cup withdrawn

KnownInv == KnownIn(file) /\ (pc \in {"shutdown", "rewrite"} => KnownIn(copy))

\* The loop of check_schedule has come to entry i of what it read.
Checked ==
  /\ i \in 1..(Len(cfg) + 1)
  /\ \A k \in 1..(i - 1) : cfg[k] # "shutdown" => cfg[k] \in Scheduled /\ ev[cfg[k]].found
  /\ \A r \in Scheduled : ev[r].found => \E k \in 1..(i - 1) : cfg[k] = r
  /\ \A k \in i..Len(cfg) : cfg[k] # "shutdown" =>
       /\ cfg[k] \in Range(file) \cup withdrawn
       /\ pc = "shutdown" => cfg[k] \in Range(copy) \cup withdrawn
  /\ ~notify => cfg = file
  /\ pc = "shutdown" => i <= Len(cfg) /\ cfg[i] = "shutdown"
  /\ Closing => i = Len(cfg) + 1

\* A request refused at once ends the daemon before its loop goes on.
CheckInv ==
  /\ Checking => Checked \/ (Closing /\ ~ev[victim].fi)
  /\ ~Checking => \A r \in Requests : ~ev[r].found

\* If nobody wrote the file since it was read, the events are its entries.
StepInv ==
  /\ pc \in {"start", "finish", "poll"} /\ ~notify =>
       Scheduled = Range(file) \ {"shutdown"} /\ lock = "none"
  /\ Closing /\ back \in {"start", "finish"} /\ ~notify =>
       victim \in Range(file) /\ pc # "leave"

IInv ==
  TypeInv /\ FilesInv /\ ListsInv /\ EventsInv /\ KnownInv /\ CheckInv /\ StepInv
    /\ IndexMatchesSessions

-----------------------------------------------------------------------------
(* Lists                                                                     *)

\* The elements of a list.
LEMMA RangeOf ==
  ASSUME NEW S, NEW s \in Seq(S)
  PROVE  /\ DOMAIN s = 1..Len(s) /\ Len(s) \in Nat
         /\ Range(s) \subseteq S
         /\ \A e : e \in Range(s) <=> \E k \in 1..Len(s) : s[k] = e
<1>1. DOMAIN s = 1..Len(s) /\ Len(s) \in Nat
  BY LenProperties
<1>2. \A k \in 1..Len(s) : s[k] \in S
  BY ElementOfSeq
<1> QED
  BY <1>1, <1>2 DEF Range

LEMMA EmptyList ==
  /\ \A S : <<>> \in Seq(S)
  /\ Range(<<>>) = {} /\ Once(<<>>) /\ Len(<<>>) = 0
<1>1. \A S : <<>> \in Seq(S)
  BY EmptySeq
<1>2. Len(<<>>) = 0 /\ DOMAIN <<>> = {}
  OBVIOUS
<1> QED
  BY <1>1, <1>2 DEF Range, Once

LEMMA AppendTo ==
  ASSUME NEW S, NEW s \in Seq(S), NEW e \in S
  PROVE  /\ Append(s, e) \in Seq(S)
         /\ Range(Append(s, e)) = Range(s) \cup {e}
         /\ Once(s) /\ e \notin Range(s) => Once(Append(s, e))
<1> DEFINE t == Append(s, e)
<1>1. /\ t \in Seq(S) /\ Len(t) = Len(s) + 1 /\ t[Len(s) + 1] = e
      /\ \A k \in 1..Len(s) : t[k] = s[k]
  BY AppendProperties
<1>2. DOMAIN s = 1..Len(s) /\ Len(s) \in Nat /\ DOMAIN t = 1..Len(t)
  BY <1>1, LenProperties
<1>3. \A d : /\ d \in Range(s) <=> \E k \in 1..Len(s) : s[k] = d
             /\ d \in Range(t) <=> \E k \in 1..Len(t) : t[k] = d
  BY <1>1, RangeOf
<1> HIDE DEF t
<1>4. Range(t) = Range(s) \cup {e}
  <2>1. ASSUME NEW d \in Range(t) PROVE d \in Range(s) \cup {e}
    BY <1>1, <1>2, <1>3, <2>1
  <2>2. ASSUME NEW d \in Range(s) \cup {e} PROVE d \in Range(t)
    BY <1>1, <1>2, <1>3, <2>2
  <2> QED
    BY <2>1, <2>2
<1>5. Once(s) /\ e \notin Range(s) => Once(t)
  BY <1>1, <1>2, <1>3 DEF Once
<1> QED
  BY <1>1, <1>4, <1>5 DEF t

\* A list without an element has the others, each once.
LEMMA WithoutOne ==
  ASSUME NEW S, NEW s \in Seq(S), Once(s), NEW r
  PROVE  /\ Without(s, r) \in Seq(S)
         /\ Range(Without(s, r)) = Range(s) \ {r}
         /\ Once(Without(s, r))
<1>1. CASE r \notin Range(s)
  BY <1>1 DEF Without
<1>2. CASE r \in Range(s)
  <2> DEFINE k == CHOOSE j \in DOMAIN s : s[j] = r
             front == SubSeq(s, 1, k - 1)
             rear == SubSeq(s, k + 1, Len(s))
             t == front \o rear
  <2>1. Without(s, r) = t
    BY <1>2 DEF Without
  <2>2. DOMAIN s = 1..Len(s) /\ Len(s) \in Nat /\ \A j \in 1..Len(s) : s[j] \in S
    BY RangeOf, ElementOfSeq
  <2>3. k \in 1..Len(s) /\ s[k] = r
    <3>1. \E j \in DOMAIN s : s[j] = r
      BY <1>2 DEF Range
    <3> QED
      BY <2>2, <3>1
  <2> HIDE DEF k
  <2>4. /\ front \in Seq(S) /\ Len(front) = k - 1
        /\ \A j \in 1..(k - 1) : front[j] = s[j]
    <3>1. \A j \in 1..(k - 1) : s[j] \in S
      BY <2>2, <2>3
    <3>2. /\ front \in Seq(S) /\ Len(front) = IF 1 <= k - 1 THEN k - 1 - 1 + 1 ELSE 0
          /\ \A j \in 1..(k - 1 - 1 + 1) : front[j] = s[1 + j - 1]
      BY <2>2, <2>3, <3>1, SubSeqProperties
    <3>3. k - 1 \in Nat /\ \A j \in 1..(k - 1) : 1 + j - 1 = j
      BY <2>2, <2>3
    <3> HIDE DEF front
    <3> QED
      BY <2>2, <2>3, <3>2, <3>3
  <2>5. /\ rear \in Seq(S) /\ Len(rear) = Len(s) - k
        /\ \A j \in 1..(Len(s) - k) : rear[j] = s[k + j]
    <3>1. \A j \in (k + 1)..Len(s) : s[j] \in S
      BY <2>2, <2>3
    <3>2. /\ rear \in Seq(S)
          /\ Len(rear) = IF k + 1 <= Len(s) THEN Len(s) - (k + 1) + 1 ELSE 0
          /\ \A j \in 1..(Len(s) - (k + 1) + 1) : rear[j] = s[k + 1 + j - 1]
      BY <2>2, <2>3, <3>1, SubSeqProperties
    <3>3. /\ Len(s) - (k + 1) + 1 = Len(s) - k
          /\ \A j \in 1..(Len(s) - k) : k + 1 + j - 1 = k + j
      BY <2>2, <2>3
    <3> HIDE DEF rear
    <3>4. Len(rear) = Len(s) - k
      <4>1. CASE k + 1 <= Len(s)
        BY <3>2, <3>3, <4>1
      <4>2. CASE ~(k + 1 <= Len(s))
        <5> DEFINE n == Len(s)
        <5>0. n \in Nat /\ k \in 1..n /\ ~(k + 1 <= n)
          BY <2>2, <2>3, <4>2
        <5> HIDE DEF n
        <5>1. n - k = 0
          BY <5>0
        <5> USE DEF n
        <5> QED
          BY <3>2, <4>2, <5>1
      <4> QED
        BY <4>1, <4>2
    <3>5. ASSUME NEW j \in 1..(Len(s) - k) PROVE rear[j] = s[k + j]
      <4>1. rear[j] = s[k + 1 + j - 1]
        BY <3>2, <3>3
      <4> QED
        BY <3>3, <4>1
    <3> QED
      BY <3>2, <3>4, <3>5
  <2> HIDE DEF front, rear
  <2>6. /\ t \in Seq(S) /\ Len(t) = Len(s) - 1
        /\ \A j \in 1..(Len(s) - 1) : t[j] = IF j < k THEN s[j] ELSE s[j + 1]
    <3>1. /\ t \in Seq(S) /\ Len(t) = Len(front) + Len(rear)
          /\ \A j \in 1..(Len(front) + Len(rear)) :
               t[j] = IF j <= Len(front) THEN front[j] ELSE rear[j - Len(front)]
      BY <2>4, <2>5, ConcatProperties
    <3> HIDE DEF t
    <3>2. Len(front) + Len(rear) = Len(s) - 1
      BY <2>2, <2>3, <2>4, <2>5
    <3>3. ASSUME NEW j \in 1..(Len(s) - 1) PROVE t[j] = IF j < k THEN s[j] ELSE s[j + 1]
      <4>1. CASE j < k
        BY <2>2, <2>3, <2>4, <3>1, <3>2, <4>1
      <4>2. CASE ~(j < k)
        <5>1. j - (k - 1) \in 1..(Len(s) - k) /\ k + (j - (k - 1)) = j + 1
          BY <2>2, <2>3, <4>2
        <5>2. rear[j - (k - 1)] = s[j + 1]
          BY <2>5, <5>1
        <5>3. t[j] = rear[j - (k - 1)]
          BY <2>2, <2>3, <2>4, <3>1, <3>2, <4>2
        <5> QED
          BY <4>2, <5>2, <5>3
      <4> QED
        BY <4>1, <4>2
    <3> QED
      BY <3>1, <3>2, <3>3
  <2>7. DOMAIN t = 1..(Len(s) - 1) /\ \A e : e \in Range(t) <=> \E j \in 1..(Len(s) - 1) : t[j] = e
    BY <2>6, RangeOf
  <2> HIDE DEF t
  <2>8. \A e : e \in Range(s) <=> \E j \in 1..Len(s) : s[j] = e
    BY RangeOf
  <2>9. \A j \in 1..Len(s) : s[j] = r => j = k
    BY <2>2, <2>3 DEF Once
  <2>10. ASSUME NEW e \in Range(t) PROVE e \in Range(s) \ {r}
    <3>1. PICK j \in 1..(Len(s) - 1) : t[j] = e
      BY <2>7, <2>10
    <3>2. j \in 1..Len(s) /\ j + 1 \in 1..Len(s)
      BY <2>2
    <3> QED
      BY <2>2, <2>3, <2>6, <2>8, <2>9, <3>1, <3>2
  <2>11. ASSUME NEW e \in Range(s) \ {r} PROVE e \in Range(t)
    <3>1. PICK j \in 1..Len(s) : s[j] = e
      BY <2>8, <2>11
    <3>2. j # k
      BY <2>3, <2>11, <3>1
    <3>3. CASE j < k
      <4>1. j \in 1..(Len(s) - 1)
        BY <2>2, <2>3, <3>3
      <4> QED
        BY <2>6, <2>7, <3>1, <3>3, <4>1
    <3>4. CASE j > k
      <4>1. j - 1 \in 1..(Len(s) - 1) /\ ~(j - 1 < k) /\ (j - 1) + 1 = j
        BY <2>2, <2>3, <3>4
      <4> QED
        BY <2>6, <2>7, <3>1, <4>1
    <3> QED
      BY <2>2, <2>3, <3>2, <3>3, <3>4
  <2>12. Once(t)
    <3> SUFFICES ASSUME NEW j \in 1..(Len(s) - 1), NEW m \in 1..(Len(s) - 1), t[j] = t[m]
                 PROVE  j = m
      BY <2>7 DEF Once
    <3>1. \A p, q \in 1..Len(s) : s[p] = s[q] => p = q
      BY <2>2 DEF Once
    <3>2. /\ j \in 1..Len(s) /\ j + 1 \in 1..Len(s) /\ m \in 1..Len(s) /\ m + 1 \in 1..Len(s)
      BY <2>2
    <3>3. CASE j < k /\ m < k
      BY <2>6, <3>1, <3>2, <3>3
    <3>4. CASE j < k /\ ~(m < k)
      <4>1. s[j] = s[m + 1]
        BY <2>6, <3>4
      <4>2. j = m + 1
        BY <3>1, <3>2, <4>1
      <4> QED
        BY <2>2, <2>3, <3>4, <4>2
    <3>5. CASE ~(j < k) /\ m < k
      <4>1. s[j + 1] = s[m]
        BY <2>6, <3>5
      <4>2. j + 1 = m
        BY <3>1, <3>2, <4>1
      <4> QED
        BY <2>2, <2>3, <3>5, <4>2
    <3>6. CASE ~(j < k) /\ ~(m < k)
      <4>1. s[j + 1] = s[m + 1]
        BY <2>6, <3>6
      <4>2. j + 1 = m + 1
        BY <3>1, <3>2, <4>1
      <4> QED
        BY <2>2, <4>2
    <3> QED
      BY <3>3, <3>4, <3>5, <3>6
  <2> QED
    BY <2>1, <2>6, <2>10, <2>11, <2>12
<1> QED
  BY <1>1, <1>2

-----------------------------------------------------------------------------
(* Steps that do not belong to the main thread                               *)

\* The daemon is not running, or has just been started.
Blank ==
  /\ file \in Seq(Entries) /\ cfg \in Seq(Entries) /\ copy \in Seq(Entries) /\ i \in Nat
  /\ notify \in BOOLEAN /\ queued \subseteq Requests
  /\ editor \in {<<>>} \cup (Seq(Entries) \X Entries)
  /\ FilesInv
  /\ pc \in {"down", "lock"} /\ (pc = "lock" => then = "start")
  /\ freelist = <<>> /\ busylist = <<>> /\ ev = [r \in Requests |-> NoEvent]
  /\ index = NoIndex

LEMMA NoEventIs ==
  /\ NoEvent \in Events /\ NewEvent \in Events
  /\ NoEvent.thread = "none" /\ ~NoEvent.fi /\ ~NoEvent.found
  /\ NewEvent.thread = "none" /\ ~NewEvent.fi /\ NewEvent.found
BY DEF NoEvent, NewEvent, Events

LEMMA BlankInv == Blank => IInv
<1> SUFFICES ASSUME Blank PROVE IInv
  OBVIOUS
<1>1. /\ freelist \in Seq(Requests) /\ busylist \in Seq(Requests)
      /\ Range(freelist) = {} /\ Range(busylist) = {} /\ Once(freelist) /\ Once(busylist)
      /\ Scheduled = {}
  BY EmptyList DEF Blank, Scheduled
<1>2. ~Closing /\ ~Checking /\ pc \notin {"start", "finish", "poll", "rewrite", "shutdown"}
  BY DEF Blank, Closing, Checking
<1>3. \A r \in Requests : /\ ev[r] \in Events /\ ev[r].thread = "none" /\ ~ev[r].fi /\ ~ev[r].found
  BY NoEventIs DEF Blank
<1>4. TypeInv
  <2>1. ev \in [Requests -> Events]
    BY NoEventIs DEF Blank
  <2>2. index \in [Names -> [associations : Nat, recording : BOOLEAN]]
    BY DEF Blank, NoIndex
  <2> QED
    BY <1>1, <1>2, <2>1, <2>2 DEF Blank, TypeInv, MainPlaces
<1>5. FilesInv
  BY DEF Blank
<1>6. ListsInv
  BY <1>1, <1>2 DEF ListsInv
<1>7. EventsInv
  BY <1>2, <1>3 DEF EventsInv, Closing
<1>8. KnownInv
  BY <1>1, <1>2, <1>3 DEF KnownInv, KnownIn, Active
<1>9. CheckInv /\ StepInv
  BY <1>2, <1>3 DEF CheckInv, StepInv
<1>10. IndexMatchesSessions
  <2> SUFFICES ASSUME NEW n \in Names
               PROVE  LET users == {r \in Requests : ev[r].fi /\ Request[r].name = n} IN
                        /\ index[n].associations = Cardinality(users)
                        /\ Cardinality(users \cap {r \in Requests : Recording(r)})
                             = IF index[n].recording THEN 1 ELSE 0
    BY DEF IndexMatchesSessions
  <2>1. index[n].associations = 0 /\ ~index[n].recording
    BY DEF Blank, NoIndex
  <2>2. {r \in Requests : ev[r].fi /\ Request[r].name = n} = {}
    BY <1>3
  <2> QED
    BY <2>1, <2>2, FS_EmptySet
<1> QED
  BY <1>4, <1>5, <1>6, <1>7, <1>8, <1>9, <1>10 DEF IInv

\* An event after a step of its session's thread.
SameEvent(r) ==
  /\ ev'[r].fi <=> ev[r].fi
  /\ ev'[r].found <=> ev[r].found
  /\ ev'[r].thread = "none" <=> ev[r].thread = "none"
  /\ ev'[r].thread \notin {"none", "exited"} => Active(r)

\* What sessions, clients and time do while the main thread is where it is.
Background ==
  /\ UNCHANGED <<lock, pc, victim, back, then, cfg, i, copy, freelist, busylist, index>>
  /\ ev' \in [Requests -> Events] /\ \A r \in Requests : SameEvent(r)
  /\ file' \in Seq(Entries) /\ FilesInv'
  /\ Range(file) \cup withdrawn \subseteq Range(file') \cup withdrawn'
  /\ withdrawn \subseteq withdrawn'
  /\ (file' = file /\ notify' = notify) \/ notify' \/ pc = "down"
  /\ notify' \in BOOLEAN /\ queued' \subseteq Requests
  /\ editor' \in {<<>>} \cup (Seq(Entries) \X Entries)

\* The users of the index are the same.
LEMMA SameUsers ==
  ASSUME IndexMatchesSessions, UNCHANGED index,
         \A r \in Requests : ev'[r].fi <=> ev[r].fi
  PROVE  IndexMatchesSessions'
<1>1. \A n : {r \in Requests : ev'[r].fi /\ Request[r].name = n}
               = {r \in Requests : ev[r].fi /\ Request[r].name = n}
  OBVIOUS
<1>2. \A r : Recording(r)' = Recording(r)
  BY DEF Recording
<1> QED
  BY <1>1, <1>2 DEF IndexMatchesSessions

LEMMA BackgroundInv ==
  ASSUME IInv, Background
  PROVE  IInv'
<1>t. TypeInv /\ FilesInv /\ ListsInv /\ EventsInv /\ KnownInv /\ CheckInv /\ StepInv
  BY DEF IInv
<1>1. /\ (Closing' <=> Closing) /\ (Checking' <=> Checking) /\ Scheduled' = Scheduled
      /\ UNCHANGED <<lock, pc, victim, back, then, cfg, i, copy, freelist, busylist>>
  BY DEF Background, Closing, Checking, Scheduled
<1>2. ASSUME NEW r \in Requests PROVE SameEvent(r) /\ (Active(r)' => Active(r))
  BY DEF Background, SameEvent, Active
<1>3. /\ Range(file) \cup withdrawn \subseteq Range(file') \cup withdrawn'
      /\ withdrawn \subseteq withdrawn'
      /\ (file' = file /\ notify' = notify) \/ notify' \/ pc = "down"
  BY DEF Background
<1>s. Scheduled \subseteq Requests
  BY <1>t, RangeOf DEF Scheduled, TypeInv
<1>4. TypeInv'
  BY <1>t, <1>1 DEF Background, TypeInv
<1>5. FilesInv'
  BY DEF Background
<1>6. ListsInv'
  BY <1>t, <1>1 DEF ListsInv
<1>7. EventsInv'
  <2>1. \A r \in Requests : ev'[r].fi <=> ev'[r].thread # "none"
    BY <1>t, <1>2 DEF EventsInv, SameEvent
  <2>2. \A r \in Requests : ev'[r].fi => r \in Range(busylist') \/ (Closing' /\ r = victim')
    BY <1>t, <1>1, <1>2 DEF EventsInv, SameEvent
  <2>3. pc' \in {"convert", "unlist", "rewrite", "leave"} => ~Active(victim)'
    <3>1. pc \in {"convert", "unlist", "rewrite", "leave"} => victim \in Requests
      BY <1>t DEF TypeInv, Closing
    <3>2. Active(victim)' => \E r \in {victim} : Active(r)'
      BY <1>1 DEF Active
    <3> QED
      BY <1>t, <1>1, <1>2, <3>1, <3>2 DEF EventsInv
  <2> QED
    BY <2>1, <2>2, <2>3 DEF EventsInv
<1>8. KnownInv'
  <2>1. ASSUME KnownIn(file) PROVE KnownIn(file)'
    BY <1>1, <1>2, <1>3, <2>1 DEF KnownIn
  <2>2. ASSUME KnownIn(copy) PROVE KnownIn(copy)'
    BY <1>1, <1>2, <1>3, <2>2 DEF KnownIn
  <2> QED
    BY <1>t, <1>1, <2>1, <2>2 DEF KnownInv
<1>9. CheckInv'
  <2>1. ASSUME Checking, Checked PROVE Checked'
    <3>1. i' \in 1..(Len(cfg') + 1)
      BY <1>1, <2>1 DEF Checked
    <3>2. \A k \in 1..(i' - 1) : cfg'[k] # "shutdown" => cfg'[k] \in Scheduled' /\ ev'[cfg'[k]].found
      BY <1>1, <1>2, <1>s, <2>1 DEF Checked, SameEvent
    <3>3. \A r \in Scheduled' : ev'[r].found => \E k \in 1..(i' - 1) : cfg'[k] = r
      BY <1>1, <1>2, <1>s, <2>1 DEF Checked, SameEvent
    <3>4. \A k \in i'..Len(cfg') : cfg'[k] # "shutdown" =>
            /\ cfg'[k] \in Range(file') \cup withdrawn'
            /\ pc' = "shutdown" => cfg'[k] \in Range(copy') \cup withdrawn'
      BY <1>1, <1>3, <2>1 DEF Checked
    <3>5. ~notify' => cfg' = file'
      <4>1. pc # "down"
        BY <2>1 DEF Checking, Closing
      <4> QED
        BY <1>1, <1>3, <2>1, <4>1 DEF Checked
    <3>6. /\ pc' = "shutdown" => i' <= Len(cfg') /\ cfg'[i'] = "shutdown"
          /\ Closing' => i' = Len(cfg') + 1
      BY <1>1, <2>1 DEF Checked
    <3> QED
      BY <3>1, <3>2, <3>3, <3>4, <3>5, <3>6 DEF Checked
  <2>2. ASSUME Closing, ~ev[victim].fi PROVE ~ev'[victim'].fi
    <3>1. victim \in Requests
      BY <1>t, <2>2 DEF TypeInv
    <3> QED
      BY <1>1, <1>2, <2>2, <3>1 DEF SameEvent
  <2>3. ASSUME ~Checking PROVE \A r \in Requests : ~ev'[r].found
    BY <1>t, <1>2, <2>3 DEF CheckInv, SameEvent
  <2> QED
    BY <1>t, <1>1, <2>1, <2>2, <2>3 DEF CheckInv
<1>10. StepInv'
  BY <1>t, <1>1, <1>3 DEF StepInv, Closing
<1>11. IndexMatchesSessions'
  <2>1. \A r \in Requests : ev'[r].fi <=> ev[r].fi
    BY <1>2 DEF SameEvent
  <2> QED
    BY <2>1, SameUsers DEF Background, IInv
<1> QED
  BY <1>4, <1>5, <1>6, <1>7, <1>8, <1>9, <1>10, <1>11 DEF IInv

LEMMA CrashBlank ==
  ASSUME IInv, Crash
  PROVE  Blank'
<1>1. TypeInv /\ FilesInv
  BY DEF IInv
<1>2. /\ freelist' = <<>> /\ busylist' = <<>> /\ ev' = [r \in Requests |-> NoEvent]
      /\ index' = NoIndex /\ pc' = "down" /\ notify' = FALSE
      /\ cfg' = <<>> /\ i' = 0 /\ copy' = <<>>
      /\ UNCHANGED <<file, queued, editor>>
  BY DEF Crash, Died, zero_sched, afi_init, client
<1>3. WellFormed(file)' /\ (editor # <<>> => WellFormed(editor[1]))'
  BY <1>1, <1>2 DEF FilesInv, WellFormed, Once
<1>4. /\ WellFormed(copy)' /\ cfg' \in Seq(Entries) /\ copy' \in Seq(Entries)
  BY <1>2, EmptyList DEF WellFormed
<1>5. /\ NoEvent' = NoEvent /\ NoIndex' = NoIndex
  BY DEF NoEvent, NewEvent, NoIndex, Names
<1>6. FilesInv'
  BY <1>3, <1>4 DEF FilesInv
<1> QED
  BY <1>1, <1>2, <1>4, <1>5, <1>6 DEF Blank, TypeInv

LEMMA BootBlank ==
  ASSUME IInv, Boot
  PROVE  Blank'
<1>1. TypeInv /\ FilesInv
  BY DEF IInv
<1>2. /\ freelist' = <<>> /\ busylist' = <<>> /\ ev' = [r \in Requests |-> NoEvent]
      /\ index' = NoIndex
      /\ UNCHANGED <<file, queued, editor, notify, cfg, i, copy>>
  BY DEF Boot, zero_sched, afi_init, client
<1>3. pc' \in {"down", "lock"} /\ (pc' = "lock" => then' = "start")
  BY DEF Boot
<1>4. FilesInv'
  BY <1>1, <1>2 DEF FilesInv, WellFormed, Once
<1>5. /\ NoEvent' = NoEvent /\ NoIndex' = NoIndex
  BY DEF NoEvent, NewEvent, NoIndex, Names
<1> QED
  BY <1>1, <1>2, <1>3, <1>4, <1>5 DEF Blank, TypeInv

LEMMA BlankStep ==
  ASSUME IInv, Crash \/ Boot
  PROVE  IInv'
<1>1. Blank'
  BY CrashBlank, BootBlank
<1>2. Blank' => IInv'
  BY BlankInv, PTL
<1> QED
  BY <1>1, <1>2

\* The streamer's thread touches only these fields.
LEMMA EndsTheStreamer ==
  ASSUME ev \in [Requests -> Events], NEW r \in Requests,
         NEW s \in {"NOT_STARTED", "RUNNING", "CANCELLED", "STOPPED", "FINISHED", "ERROR"},
         ev' = [ev EXCEPT ![r].streamer = FALSE, ![r].open = FALSE, ![r].status = s]
  PROVE  ev' \in [Requests -> Events] /\ \A q \in Requests : SameEvent(q)
<1>1. ev[r] \in Events
  OBVIOUS
<1>2. /\ ev'[r].fi = ev[r].fi /\ ev'[r].found = ev[r].found /\ ev'[r].thread = ev[r].thread
      /\ ev'[r].ent = ev[r].ent /\ ev'[r].streamer = FALSE /\ ev'[r].open = FALSE
      /\ ev'[r].status = s
  BY <1>1 DEF Events
<1>3. ev' \in [Requests -> Events]
  BY <1>1 DEF Events
<1>4. \A q \in Requests \ {r} : ev'[q] = ev[q]
  OBVIOUS
<1> QED
  BY <1>2, <1>3, <1>4 DEF SameEvent, Active

LEMMA SessionStep ==
  ASSUME IInv, NEW r \in Requests, Session(r) \/ StreamerEnds(r)
  PROVE  Background \/ Crash
<1> SUFFICES ASSUME ~Crash PROVE Background
  OBVIOUS
<1>1. TypeInv /\ FilesInv /\ EventsInv
  BY DEF IInv
<1>2. SessionOnly
  BY DEF Session, StreamerEnds, Prepare, prep_streamer, Create, TimeIsUp, StreamerStops, Drained
<1>3. /\ UNCHANGED <<lock, pc, victim, back, then, cfg, i, copy, freelist, busylist, index>>
      /\ UNCHANGED <<file, notify, queued, editor, withdrawn>>
  BY <1>2 DEF SessionOnly, local, branch, client
<1>4. FilesInv'
  BY <1>1, <1>3 DEF FilesInv, WellFormed, Once
<1>5. ev' \in [Requests -> Events] /\ \A q \in Requests : SameEvent(q)
  <2>1. ev \in [Requests -> Events] /\ Request[r].kind \in {"timed", "counted", "send"}
    BY <1>1, DaemonAssumption DEF TypeInv, Kinds
  <2>2. CASE Prepare(r)
    BY <2>1, <2>2 DEF Prepare, At, Events, SameEvent, Active
  <2>3. CASE prep_streamer(r)
    BY <2>1, <2>3 DEF prep_streamer, At, Events, SameEvent, Active
  <2>4. CASE Create(r)
    BY <2>1, <2>4 DEF Create, At, Events, SameEvent, Active
  <2>5. CASE TimeIsUp(r)
    BY <2>1, <2>5 DEF TimeIsUp, At, Events, SameEvent, Active
  <2>6. CASE StreamerStops(r)
    <3>1. PICK s \in {"NOT_STARTED", "RUNNING", "CANCELLED", "STOPPED", "FINISHED", "ERROR"} :
            ev' = [ev EXCEPT ![r].streamer = FALSE, ![r].open = FALSE, ![r].status = s]
      <4>1. ev[r].status \in {"NOT_STARTED", "RUNNING", "CANCELLED", "STOPPED", "FINISHED", "ERROR"}
        BY <2>1 DEF Events
      <4> QED
        BY <2>6, <4>1 DEF StreamerStops
    <3> QED
      BY <2>1, <3>1, EndsTheStreamer
  <2>7. CASE StreamerEnds(r)
    <3>1. LeftBy(Request[r].kind) \subseteq {"ERROR", "FINISHED", "STOPPED", "RUNNING"}
      BY <2>1 DEF LeftBy
    <3>2. PICK s \in {"ERROR", "FINISHED", "STOPPED", "RUNNING"} :
            ev' = [ev EXCEPT ![r].streamer = FALSE, ![r].open = FALSE, ![r].status = s]
      BY <2>7, <3>1 DEF StreamerEnds
    <3> QED
      BY <2>1, <3>2, EndsTheStreamer
  <2>8. CASE Drained(r)
    BY <2>1, <2>8 DEF Drained, At, Events, SameEvent, Active
  <2> QED
    BY <2>2, <2>3, <2>4, <2>5, <2>6, <2>7, <2>8 DEF Session
<1> QED
  BY <1>1, <1>3, <1>4, <1>5 DEF Background, TypeInv

\* What was well formed stays so when more is queued.
LEMMA StaysWellFormed ==
  ASSUME NEW s, WellFormed(s), queued \subseteq queued'
  PROVE  Once(s) /\ Range(s) \subseteq queued' \cup {"shutdown"}
BY DEF WellFormed

\* A client changes the file alone, if anything.
LEMMA ClientIsBackground ==
  ASSUME IInv, UNCHANGED <<lock, pc, local, branch, ev, index>>,
         file' \in Seq(Entries), Once(file'), Range(file') \subseteq queued' \cup {"shutdown"},
         Range(file) \cup withdrawn \subseteq Range(file') \cup withdrawn',
         withdrawn \subseteq withdrawn', queued \subseteq queued', queued' \subseteq Requests,
         (file' = file /\ notify' = notify) \/ notify' = (pc # "down"),
         \/ editor' = editor \/ editor' = <<>>
         \/ \E e \in Entries : editor' = <<file, e>>
  PROVE  Background
<1>1. TypeInv /\ FilesInv
  BY DEF IInv
<1>2. UNCHANGED <<victim, back, then, cfg, i, copy, freelist, busylist>>
  BY DEF local, branch
<1>3. \A q \in Requests : SameEvent(q)
  BY DEF SameEvent, Active
<1>4. editor' \in {<<>>} \cup (Seq(Entries) \X Entries)
  BY <1>1 DEF TypeInv
<1>5. editor' # <<>> => \/ editor # <<>> /\ editor'[1] = editor[1]
                        \/ editor'[1] = file
  OBVIOUS
<1>6. FilesInv'
  <2>1. WellFormed(file)'
    BY DEF WellFormed, Once
  <2>2. WellFormed(copy)'
    BY <1>1, <1>2, StaysWellFormed DEF FilesInv, WellFormed, Once
  <2>3. (editor # <<>> => WellFormed(editor[1]))'
    BY <1>1, <1>5, StaysWellFormed DEF FilesInv, WellFormed, Once
  <2> QED
    BY <2>1, <2>2, <2>3 DEF FilesInv
<1> QED
  BY <1>1, <1>2, <1>3, <1>4, <1>6 DEF Background, TypeInv

LEMMA ClientStep ==
  ASSUME IInv,
         \/ \E r \in Requests : Queue(r) \/ Tick(r)
         \/ ClearSchedule \/ RequestShutdown \/ EditEnds \/ MemtreeDies
         \/ \E e \in Entries : EditBegins(e)
         \/ UNCHANGED vars
  PROVE  Background
<1>1. TypeInv /\ FilesInv
  BY DEF IInv
<1>2. /\ file \in Seq(Entries) /\ Once(file) /\ Range(file) \subseteq queued \cup {"shutdown"}
      /\ queued \subseteq Requests
  BY <1>1 DEF TypeInv, FilesInv, WellFormed
<1>3. ASSUME NEW r \in Requests, Queue(r) PROVE Background
  <2>1. /\ file' = Append(file, r) /\ notify' = (pc # "down") /\ queued' = queued \cup {r}
        /\ UNCHANGED <<editor, withdrawn, lock, pc, local, branch, ev, index>>
    BY <1>3 DEF Queue, Write, ClientOnly
  <2>2. r \notin Range(file) /\ r \in Entries
    BY <1>2, <1>3, DaemonAssumption DEF Queue, Entries
  <2>3. file' \in Seq(Entries) /\ Range(file') = Range(file) \cup {r} /\ Once(file')
    BY <1>2, <2>1, <2>2, AppendTo
  <2> QED
    BY <1>2, <2>1, <2>3, ClientIsBackground
<1>4. CASE ClearSchedule
  <2>1. /\ file' = <<>> /\ notify' = (pc # "down") /\ withdrawn' = withdrawn \cup Range(file)
        /\ UNCHANGED <<queued, editor, lock, pc, local, branch, ev, index>>
    BY <1>4 DEF ClearSchedule, Write, ClientOnly
  <2>2. file' \in Seq(Entries) /\ Range(file') = {} /\ Once(file')
    BY <2>1, EmptyList
  <2> QED
    BY <1>2, <2>1, <2>2, ClientIsBackground
<1>5. CASE RequestShutdown
  <2>1. /\ file' = Append(file, "shutdown") /\ notify' = (pc # "down")
        /\ "shutdown" \notin Range(file)
        /\ UNCHANGED <<queued, withdrawn, editor, lock, pc, local, branch, ev, index>>
    BY <1>5 DEF RequestShutdown, Write, ClientOnly
  <2>2. "shutdown" \in Entries
    BY DEF Entries
  <2>3. file' \in Seq(Entries) /\ Range(file') = Range(file) \cup {"shutdown"} /\ Once(file')
    BY <1>2, <2>1, <2>2, AppendTo
  <2> QED
    BY <1>2, <2>1, <2>3, ClientIsBackground
<1>6. CASE EditEnds
  <2>1. /\ editor # <<>> /\ file' = Without(editor[1], editor[2]) /\ notify' = (pc # "down")
        /\ editor' = <<>> /\ withdrawn' = withdrawn \cup (Range(file) \ Range(file'))
        /\ UNCHANGED <<queued, lock, pc, local, branch, ev, index>>
    BY <1>6 DEF EditEnds, Write, ClientOnly
  <2>2. editor[1] \in Seq(Entries) /\ WellFormed(editor[1])
    BY <1>1, <2>1 DEF TypeInv, FilesInv
  <2>3. file' \in Seq(Entries) /\ Range(file') \subseteq Range(editor[1]) /\ Once(file')
    BY <2>1, <2>2, WithoutOne DEF WellFormed
  <2> QED
    BY <1>2, <2>1, <2>2, <2>3, ClientIsBackground DEF WellFormed
<1>7. ASSUME NEW e \in Entries, EditBegins(e) PROVE Background
  BY <1>2, <1>7, ClientIsBackground DEF EditBegins, ClientOnly
<1>8. CASE (\E r \in Requests : Tick(r)) \/ MemtreeDies \/ UNCHANGED vars
  <2>1. UNCHANGED <<lock, pc, local, branch, ev, index, file, notify, queued, editor, withdrawn>>
    BY <1>8 DEF Tick, MemtreeDies, client, vars
  <2> QED
    BY <1>2, <2>1, ClientIsBackground
<1> QED
  BY <1>3, <1>4, <1>5, <1>6, <1>7, <1>8

-----------------------------------------------------------------------------
(* Steps of the main thread                                                  *)

\* The event of a session that goes on, or none, as before.
SameUse(r) ==
  /\ ev'[r].fi <=> ev[r].fi
  /\ ev'[r].thread = "none" <=> ev[r].thread = "none"
  /\ ev'[r].thread \notin {"none", "exited"} => Active(r)

\* A step that leaves the lists and the file alone.
LEMMA Onward ==
  ASSUME IInv, UNCHANGED <<file, queued, editor, withdrawn, freelist, busylist, index, victim>>,
         ev' \in [Requests -> Events], \A r \in Requests : SameUse(r),
         WellFormed(copy'), Closing' <=> Closing,
         pc' \in {"convert", "unlist", "rewrite", "leave"} => ~Active(victim)
  PROVE  /\ FilesInv' /\ ListsInv' /\ EventsInv' /\ IndexMatchesSessions'
         /\ KnownIn(file)' /\ Scheduled' = Scheduled
         /\ KnownIn(file) /\ (KnownIn(copy) /\ copy' = copy => KnownIn(copy)')
<1>1. TypeInv /\ FilesInv /\ ListsInv /\ EventsInv /\ KnownInv /\ IndexMatchesSessions
  BY DEF IInv
<1>2. Scheduled' = Scheduled
  BY DEF Scheduled
<1>3. FilesInv'
  BY <1>1 DEF FilesInv, WellFormed, Once
<1>4. ListsInv'
  BY <1>1, <1>2 DEF ListsInv, Once
<1>5. EventsInv'
  <2>1. \A r \in Requests : ev'[r].fi <=> ev'[r].thread # "none"
    BY <1>1 DEF EventsInv, SameUse
  <2>2. \A r \in Requests : ev'[r].fi => r \in Range(busylist') \/ (Closing' /\ r = victim')
    BY <1>1 DEF EventsInv, SameUse
  <2>3. pc' \in {"convert", "unlist", "rewrite", "leave"} => ~Active(victim)'
    <3>1. Closing' => victim \in Requests
      BY <1>1 DEF TypeInv
    <3>2. pc' \in {"convert", "unlist", "rewrite", "leave"} => Closing'
      BY DEF Closing
    <3> QED
      BY <3>1, <3>2 DEF SameUse, Active
  <2> QED
    BY <2>1, <2>2, <2>3 DEF EventsInv
<1>6. IndexMatchesSessions'
  BY <1>1, SameUsers DEF SameUse
<1>7. KnownIn(file) /\ KnownIn(file)' /\ (KnownIn(copy) /\ copy' = copy => KnownIn(copy)')
  BY <1>1, <1>2 DEF KnownInv, KnownIn, SameUse, Active
<1> QED
  BY <1>2, <1>3, <1>4, <1>5, <1>6, <1>7

LEMMA SameUseOf ==
  ASSUME UNCHANGED ev
  PROVE  \A r \in Requests : SameUse(r)
BY DEF SameUse, Active

\* An event leaves its list, and free_and_close begins.
LEMMA Closes ==
  ASSUME IInv, NEW r \in Scheduled, NEW place, ~Closing, Unlink(r), Close(r, place),
         UNCHANGED <<file, queued, editor, withdrawn, copy, index>>,
         ev' \in [Requests -> Events], \A q \in Requests : SameUse(q)
  PROVE  /\ FilesInv' /\ ListsInv' /\ EventsInv' /\ KnownInv' /\ IndexMatchesSessions'
         /\ freelist' \in Seq(Requests) /\ busylist' \in Seq(Requests)
         /\ Scheduled' = Scheduled \ {r}
         /\ r \in Requests /\ Closing' /\ pc' = "stop" /\ victim' = r /\ back' = place
<1>1. TypeInv /\ FilesInv /\ ListsInv /\ EventsInv /\ KnownInv /\ IndexMatchesSessions
  BY DEF IInv
<1>2. Closing' /\ pc' = "stop" /\ victim' = r /\ back' = place
  BY DEF Close, Closing
<1>3. /\ freelist' \in Seq(Requests) /\ busylist' \in Seq(Requests)
      /\ Range(freelist') = Range(freelist) \ {r} /\ Range(busylist') = Range(busylist) \ {r}
      /\ Once(freelist') /\ Once(busylist')
  BY <1>1, WithoutOne DEF Unlink, TypeInv, ListsInv
<1>4. Scheduled' = Scheduled \ {r} /\ r \in Requests
  <2>1. Scheduled \subseteq Requests
    BY <1>1, RangeOf DEF TypeInv, Scheduled
  <2> QED
    BY <1>3, <2>1 DEF Scheduled
<1>5. FilesInv'
  BY <1>1 DEF FilesInv, WellFormed, Once
<1>6. ListsInv'
  BY <1>1, <1>2, <1>3, <1>4 DEF ListsInv, Once
<1>7. EventsInv'
  <2>1. \A q \in Requests : ev'[q].fi <=> ev'[q].thread # "none"
    BY <1>1 DEF EventsInv, SameUse
  <2>2. \A q \in Requests : ev'[q].fi => q \in Range(busylist') \/ (Closing' /\ q = victim')
    BY <1>1, <1>2, <1>3 DEF EventsInv, SameUse
  <2> QED
    BY <1>2, <2>1, <2>2 DEF EventsInv
<1>8. KnownInv'
  BY <1>1, <1>2, <1>4 DEF KnownInv, KnownIn, SameUse, Active
<1>9. IndexMatchesSessions'
  BY <1>1, SameUsers DEF SameUse
<1> QED
  BY <1>2, <1>3, <1>4, <1>5, <1>6, <1>7, <1>8, <1>9

\* check_schedule reads the file.
LEMMA LockStep ==
  ASSUME IInv, Lock
  PROVE  IInv'
<1>1. TypeInv /\ FilesInv /\ CheckInv
  BY DEF IInv
<1>2. /\ pc = "lock" /\ cfg' = file /\ i' = 1 /\ pc' = "look"
      /\ UNCHANGED <<file, notify, victim, back, then, copy, freelist, busylist, ev, index,
                     queued, editor, withdrawn>>
  BY DEF Lock, branch, client
<1>3. ~Closing /\ ~Closing' /\ Checking' /\ ~Checking
  BY <1>2 DEF Closing, Checking
<1>4. WellFormed(copy')
  BY <1>1, <1>2 DEF FilesInv
<1>5. ev' \in [Requests -> Events] /\ \A r \in Requests : SameUse(r)
  BY <1>1, <1>2, SameUseOf DEF TypeInv
<1>6. /\ FilesInv' /\ ListsInv' /\ EventsInv' /\ IndexMatchesSessions'
      /\ KnownIn(file)' /\ Scheduled' = Scheduled
  BY <1>2, <1>3, <1>4, <1>5, Onward
<1>7. TypeInv'
  BY <1>1, <1>2, <1>3 DEF TypeInv, MainPlaces
<1>8. KnownInv'
  BY <1>2, <1>6 DEF KnownInv
<1>9. CheckInv'
  <2>1. Checked'
    <3>1. i' \in 1..(Len(cfg') + 1)
      BY <1>1, <1>2, RangeOf DEF TypeInv
    <3>2. \A r \in Scheduled' : ~ev'[r].found
      <4>1. Scheduled \subseteq Requests
        BY <1>1, RangeOf DEF TypeInv, Scheduled
      <4> QED
        BY <1>1, <1>2, <1>3, <1>6, <4>1 DEF CheckInv
    <3>3. \A k \in i'..Len(cfg') : cfg'[k] \in Range(file')
      BY <1>1, <1>2, RangeOf DEF TypeInv
    <3>4. 1..(i' - 1) = {}
      BY <1>2
    <3> QED
      BY <1>2, <1>3, <3>1, <3>2, <3>3, <3>4 DEF Checked
  <2> QED
    BY <1>3, <2>1 DEF CheckInv
<1>10. StepInv'
  BY <1>2, <1>3 DEF StepInv
<1> QED
  BY <1>6, <1>7, <1>8, <1>9, <1>10 DEF IInv

\* poll, with or without something to read.
LEMMA PollStep ==
  ASSUME IInv, Poll
  PROVE  IInv'
<1>1. TypeInv /\ FilesInv /\ CheckInv /\ StepInv
  BY DEF IInv
<1>2. /\ pc = "poll" /\ pc' \in {"lock", "finish"} /\ (pc' = "lock" => then' = "finish")
      /\ (pc' = "finish" => ~notify /\ notify' = notify)
      /\ notify' \in BOOLEAN
      /\ UNCHANGED <<file, lock, victim, back, cfg, i, copy, freelist, busylist, ev, index,
                     queued, editor, withdrawn>>
  BY <1>1 DEF Poll, branch, client, TypeInv
<1>3. ~Closing /\ ~Closing' /\ ~Checking' /\ ~Checking
  BY <1>2 DEF Closing, Checking
<1>4. WellFormed(copy')
  BY <1>1, <1>2 DEF FilesInv
<1>5. ev' \in [Requests -> Events] /\ \A r \in Requests : SameUse(r)
  BY <1>1, <1>2, SameUseOf DEF TypeInv
<1>6. /\ FilesInv' /\ ListsInv' /\ EventsInv' /\ IndexMatchesSessions'
      /\ KnownIn(file)' /\ Scheduled' = Scheduled
  BY <1>2, <1>3, <1>4, <1>5, Onward
<1>7. TypeInv'
  BY <1>1, <1>2, <1>3 DEF TypeInv, MainPlaces
<1>8. KnownInv'
  BY <1>2, <1>6 DEF KnownInv
<1>9. CheckInv'
  BY <1>1, <1>2, <1>3 DEF CheckInv
<1>10. StepInv'
  BY <1>1, <1>2, <1>3, <1>6 DEF StepInv
<1> QED
  BY <1>6, <1>7, <1>8, <1>9, <1>10 DEF IInv

\* A step of free_and_close that leaves the file and the lists alone.
LEMMA ClosingOn ==
  ASSUME IInv, Closing, pc' \in {"join", "convert", "unlist", "rewrite", "leave"},
         UNCHANGED <<file, notify, victim, back, then, cfg, i, freelist, busylist, index,
                     queued, editor, withdrawn>>,
         ev' \in [Requests -> Events], \A r \in Requests : SameEvent(r),
         copy' = copy \/ copy' = file, pc' = "rewrite" => copy' = file,
         pc' # "join" => ~Active(victim),
         pc' = "leave" => victim \notin Range(file)
  PROVE  IInv'
<1>1. TypeInv /\ FilesInv /\ CheckInv /\ StepInv
  BY DEF IInv
<1>2. Closing' /\ (Checking' <=> Checking) /\ pc \notin {"look", "shutdown"}
  BY DEF Closing, Checking
<1>3. WellFormed(copy') /\ copy' \in Seq(Entries)
  BY <1>1 DEF FilesInv, TypeInv
<1>4. \A r \in Requests : SameUse(r)
  BY DEF SameEvent, SameUse
<1>5. /\ FilesInv' /\ ListsInv' /\ EventsInv' /\ IndexMatchesSessions'
      /\ KnownIn(file)' /\ Scheduled' = Scheduled
  BY <1>2, <1>3, <1>4, Onward
<1>6. TypeInv'
  BY <1>1, <1>2, <1>3 DEF TypeInv, MainPlaces, Checking
<1>7. KnownInv'
  BY <1>2, <1>5 DEF KnownInv, KnownIn, Active
<1>8. CheckInv'
  <2>0. Scheduled \subseteq Requests /\ victim \in Requests
    BY <1>1, RangeOf DEF TypeInv, Scheduled
  <2>1. ASSUME Checking, Checked PROVE Checked'
    <3>1. i = Len(cfg) + 1 /\ Len(cfg) \in Nat
      BY <1>1, <2>1, RangeOf DEF Checked, TypeInv
    <3>2. i'..Len(cfg') = {}
      BY <3>1
    <3>3. /\ \A k \in 1..(i' - 1) :
               cfg'[k] # "shutdown" => cfg'[k] \in Scheduled' /\ ev'[cfg'[k]].found
          /\ \A r \in Scheduled' : ev'[r].found => \E k \in 1..(i' - 1) : cfg'[k] = r
      BY <1>5, <2>0, <2>1 DEF Checked, SameEvent
    <3>4. pc' # "shutdown"
      OBVIOUS
    <3> QED
      BY <2>1, <3>1, <3>2, <3>3, <3>4 DEF Checked
  <2>2. ~ev[victim].fi => ~ev'[victim'].fi
    BY <2>0 DEF SameEvent
  <2>3. ASSUME ~Checking PROVE \A r \in Requests : ~ev'[r].found
    BY <1>1, <2>3 DEF CheckInv, SameEvent
  <2> QED
    BY <1>1, <1>2, <2>1, <2>2, <2>3 DEF CheckInv
<1>9. StepInv'
  BY <1>1, <1>2 DEF StepInv
<1> QED
  BY <1>5, <1>6, <1>7, <1>8, <1>9 DEF IInv

LEMMA SameEventOf ==
  ASSUME UNCHANGED ev
  PROVE  \A r \in Requests : SameEvent(r)
BY DEF SameEvent, Active

LEMMA StopStep ==
  ASSUME IInv, Stop, ~Crash
  PROVE  IInv'
<1>1. TypeInv /\ pc = "stop" /\ Closing /\ victim \in Requests
  BY DEF IInv, TypeInv, Stop, Closing
<1>2. /\ IF Finished(victim) THEN UNCHANGED ev ELSE shutdown_thread(victim)
      /\ pc' = "join"
      /\ UNCHANGED <<file, notify, victim, back, then, cfg, i, copy, freelist, busylist, index,
                     queued, editor, withdrawn>>
  BY DEF Stop, local, branch, client
<1>3. ev' \in [Requests -> Events] /\ \A r \in Requests : SameEvent(r)
  <2>1. CASE UNCHANGED ev
    BY <1>1, <2>1, SameEventOf DEF TypeInv
  <2>2. CASE ev' = [ev EXCEPT ![victim].status = "STOPPED", ![victim].open = FALSE]
    <3>1. ev \in [Requests -> Events] /\ ev[victim] \in Events
      BY <1>1 DEF TypeInv
    <3>2. /\ ev'[victim].fi = ev[victim].fi /\ ev'[victim].found = ev[victim].found
          /\ ev'[victim].thread = ev[victim].thread
      BY <1>1, <2>2, <3>1 DEF Events
    <3>3. ev' \in [Requests -> Events]
      BY <1>1, <2>2, <3>1 DEF Events
    <3>4. \A q \in Requests \ {victim} : ev'[q] = ev[q]
      BY <2>2, <3>1
    <3> QED
      BY <3>2, <3>3, <3>4 DEF SameEvent, Active
  <2> QED
    BY <1>2, <2>1, <2>2 DEF shutdown_thread
<1> QED
  BY <1>1, <1>2, <1>3, ClosingOn

LEMMA JoinStep ==
  ASSUME IInv, Join
  PROVE  IInv'
<1>1. TypeInv /\ pc = "join" /\ Closing
  BY DEF IInv, Join, Closing
<1>2. /\ pc' = "convert" /\ ~Active(victim)
      /\ UNCHANGED <<file, notify, victim, back, then, cfg, i, copy, freelist, busylist, ev, index,
                     queued, editor, withdrawn>>
  BY DEF Join, local, branch, client, Active
<1> QED
  BY <1>1, <1>2, SameEventOf, ClosingOn DEF TypeInv

LEMMA ConvertStep ==
  ASSUME IInv, Convert
  PROVE  IInv'
<1>1. TypeInv /\ pc = "convert" /\ Closing /\ ~Active(victim)
  BY DEF IInv, EventsInv, Convert, Closing
<1>2. /\ pc' = "unlist"
      /\ UNCHANGED <<file, notify, victim, back, then, cfg, i, copy, freelist, busylist, ev, index,
                     queued, editor, withdrawn>>
  BY DEF Convert, local, branch, client
<1> QED
  BY <1>1, <1>2, SameEventOf, ClosingOn DEF TypeInv

LEMMA UnlistStep ==
  ASSUME IInv, Unlist
  PROVE  IInv'
<1>1. TypeInv /\ pc = "unlist" /\ Closing /\ ~Active(victim)
  BY DEF IInv, EventsInv, Unlist, Closing
<1>2. /\ IF victim \in Range(file) THEN copy' = file /\ pc' = "rewrite"
                                   ELSE pc' = "leave" /\ UNCHANGED copy
      /\ UNCHANGED <<file, notify, victim, back, then, cfg, i, freelist, busylist, ev, index,
                     queued, editor, withdrawn>>
  BY DEF Unlist, branch, client
<1> QED
  BY <1>1, <1>2, SameEventOf, ClosingOn DEF TypeInv

\* config_write_file takes out the entry of a session that has ended, and no other that
\* is scheduled, whatever was written since the file was read.
LEMMA RewriteStep ==
  ASSUME IInv, Rewrite
  PROVE  IInv'
<1>1. /\ TypeInv /\ FilesInv /\ ListsInv /\ EventsInv /\ KnownInv /\ CheckInv
      /\ IndexMatchesSessions
  BY DEF IInv
<1>2. /\ pc = "rewrite" /\ pc' = "leave" /\ file' = Without(copy, victim) /\ notify' = TRUE
      /\ copy' = <<>>
      /\ UNCHANGED <<victim, back, then, cfg, i, freelist, busylist, ev, index,
                     queued, editor, withdrawn>>
  BY DEF Rewrite, branch, client
<1>3. Closing /\ Closing' /\ (Checking' <=> Checking) /\ Scheduled' = Scheduled
  BY <1>2 DEF Closing, Checking, Scheduled
<1>4. /\ file' \in Seq(Entries) /\ Once(file') /\ Range(file') = Range(copy) \ {victim}
  BY <1>1, <1>2, WithoutOne DEF TypeInv, FilesInv, WellFormed
<1>5. copy' \in Seq(Entries) /\ Once(copy') /\ Range(copy') = {}
  BY <1>2, EmptyList
<1>6. FilesInv'
  BY <1>1, <1>2, <1>4, <1>5 DEF FilesInv, WellFormed, Once
<1>7. TypeInv'
  BY <1>1, <1>2, <1>3, <1>4, <1>5 DEF TypeInv, MainPlaces
<1>8. ListsInv'
  BY <1>1, <1>2, <1>3 DEF ListsInv, Once
<1>9. EventsInv'
  BY <1>1, <1>2, <1>3 DEF EventsInv, Active
<1>10. KnownInv'
  <2>1. victim \notin Scheduled /\ ~Active(victim) /\ KnownIn(copy)
    BY <1>1, <1>2, <1>3 DEF ListsInv, EventsInv, KnownInv
  <2> QED
    BY <1>2, <1>3, <1>4, <2>1 DEF KnownInv, KnownIn, Active
<1>11. CheckInv'
  <2>1. ASSUME Checking, Checked PROVE Checked'
    <3>1. i = Len(cfg) + 1 /\ Len(cfg) \in Nat
      BY <1>1, <1>3, <2>1, RangeOf DEF Checked, TypeInv
    <3>2. i'..Len(cfg') = {}
      BY <1>2, <3>1
    <3> QED
      BY <1>2, <1>3, <2>1, <3>1, <3>2 DEF Checked
  <2> QED
    BY <1>1, <1>2, <1>3, <2>1 DEF CheckInv
<1>12. StepInv'
  BY <1>2 DEF StepInv
<1>13. IndexMatchesSessions'
  BY <1>1, <1>2, SameUsers
<1> QED
  BY <1>6, <1>7, <1>8, <1>9, <1>10, <1>11, <1>12, <1>13 DEF IInv

\* check_schedule goes on to the next entry of what it read.
LEMMA NextEntry ==
  ASSUME cfg \in Seq(Entries), Checked, i <= Len(cfg), i' = i + 1, cfg' = cfg,
         ~Closing', pc' # "shutdown", Scheduled \subseteq Scheduled',
         \A r \in Scheduled : ev[r].found => ev'[r].found,
         cfg[i] # "shutdown" => cfg[i] \in Scheduled' /\ ev'[cfg[i]].found,
         \A r \in Scheduled' : ev'[r].found => (r \in Scheduled /\ ev[r].found) \/ r = cfg[i],
         \A k \in (i + 1)..Len(cfg) : cfg[k] # "shutdown" => cfg[k] \in Range(file') \cup withdrawn',
         ~notify' => cfg' = file'
  PROVE  Checked'
<1>1. i \in 1..(Len(cfg) + 1) /\ Len(cfg) \in Nat
  BY RangeOf DEF Checked
<1>2. i' \in 1..(Len(cfg') + 1) /\ i \in 1..(i' - 1) /\ i' - 1 = i
  BY <1>1
<1>3. ASSUME NEW k \in 1..(i' - 1), cfg'[k] # "shutdown"
      PROVE  cfg'[k] \in Scheduled' /\ ev'[cfg'[k]].found
  <2>1. k = i \/ k \in 1..(i - 1)
    BY <1>1
  <2>2. k \in 1..(i - 1) => cfg[k] \in Scheduled /\ ev[cfg[k]].found
    BY <1>3 DEF Checked
  <2> QED
    BY <1>3, <2>1, <2>2
<1>4. ASSUME NEW r \in Scheduled', ev'[r].found
      PROVE  \E k \in 1..(i' - 1) : cfg'[k] = r
  <2>1. CASE r = cfg[i]
    BY <1>2, <2>1
  <2>2. CASE r \in Scheduled /\ ev[r].found
    <3>1. PICK k \in 1..(i - 1) : cfg[k] = r
      BY <2>2 DEF Checked
    <3>2. k \in 1..(i' - 1)
      BY <1>1
    <3> QED
      BY <3>1, <3>2
  <2> QED
    BY <1>4, <2>1, <2>2
<1>5. \A k \in i'..Len(cfg') : cfg'[k] # "shutdown" => cfg'[k] \in Range(file') \cup withdrawn'
  OBVIOUS
<1> QED
  BY <1>2, <1>3, <1>4, <1>5 DEF Checked

\* add_recording for "shutdown" reads the file, or finds the entry gone.
LEMMA ShutdownStep ==
  ASSUME IInv, Shutdown
  PROVE  IInv'
<1>1. TypeInv /\ FilesInv /\ CheckInv /\ StepInv
  BY DEF IInv
<1>2. /\ pc = "look" /\ i <= Len(cfg) /\ cfg[i] = "shutdown"
      /\ \/ copy' = file /\ pc' = "shutdown" /\ i' = i
         \/ i' = i + 1 /\ pc' = "look" /\ copy' = copy
      /\ UNCHANGED <<file, notify, victim, back, then, cfg, freelist, busylist, ev, index,
                     queued, editor, withdrawn>>
  BY DEF Shutdown, branch, client
<1>3. ~Closing /\ ~Closing' /\ Checking /\ Checking' /\ Checked
  BY <1>1, <1>2 DEF Closing, Checking, CheckInv
<1>4. WellFormed(copy') /\ copy' \in Seq(Entries)
  BY <1>1, <1>2 DEF FilesInv, TypeInv
<1>5. ev' \in [Requests -> Events] /\ \A r \in Requests : SameUse(r)
  BY <1>1, <1>2, SameUseOf DEF TypeInv
<1>6. /\ FilesInv' /\ ListsInv' /\ EventsInv' /\ IndexMatchesSessions'
      /\ KnownIn(file)' /\ Scheduled' = Scheduled /\ KnownIn(file)
  BY <1>2, <1>3, <1>4, <1>5, Onward
<1>7. TypeInv'
  BY <1>1, <1>2, <1>3, <1>4 DEF TypeInv, MainPlaces
<1>8. KnownInv'
  <2>1. pc' = "shutdown" => KnownIn(copy)'
    BY <1>2, <1>6 DEF KnownIn, Active
  <2> QED
    BY <1>2, <1>6, <2>1 DEF KnownInv
<1>9. Checked'
  <2>1. CASE pc' = "shutdown"
    BY <1>2, <1>3, <1>6, <2>1 DEF Checked
  <2>2. CASE pc' = "look"
    <3>1. i' = i + 1
      BY <1>2, <2>2
    <3>2. \A k \in (i + 1)..Len(cfg) :
            cfg[k] # "shutdown" => cfg[k] \in Range(file') \cup withdrawn'
      <4>1. \A k \in (i + 1)..Len(cfg) : k \in i..Len(cfg)
        BY <1>1, RangeOf DEF TypeInv
      <4> QED
        BY <1>2, <1>3, <4>1 DEF Checked
    <3>3. ~notify' => cfg' = file'
      BY <1>2, <1>3 DEF Checked
    <3> QED
      BY <1>1, <1>2, <1>3, <1>6, <2>2, <3>1, <3>2, <3>3, NextEntry DEF TypeInv
  <2> QED
    BY <1>2, <2>1, <2>2
<1>10. CheckInv'
  BY <1>3, <1>9 DEF CheckInv
<1>11. StepInv'
  BY <1>2, <1>3 DEF StepInv
<1> QED
  BY <1>6, <1>7, <1>8, <1>10, <1>11 DEF IInv

\* add_recording for "shutdown" writes the file without that entry: what was scheduled
\* when it was read is still in it.
LEMMA ShutdownTakenStep ==
  ASSUME IInv, ShutdownTaken
  PROVE  IInv'
<1>1. TypeInv /\ FilesInv /\ ListsInv /\ EventsInv /\ KnownInv /\ CheckInv /\ IndexMatchesSessions
  BY DEF IInv
<1>2. /\ pc = "shutdown" /\ pc' = "look" /\ file' = Without(copy, "shutdown") /\ notify' = TRUE
      /\ copy' = <<>> /\ i' = i + 1
      /\ UNCHANGED <<victim, back, then, cfg, freelist, busylist, ev, index,
                     queued, editor, withdrawn>>
  BY DEF ShutdownTaken, branch, client
<1>3. ~Closing /\ ~Closing' /\ Checking /\ Checking' /\ Checked /\ Scheduled' = Scheduled
  BY <1>1, <1>2 DEF Closing, Checking, CheckInv, Scheduled
<1>4. file' \in Seq(Entries) /\ Once(file') /\ Range(file') = Range(copy) \ {"shutdown"}
  BY <1>1, <1>2, WithoutOne DEF TypeInv, FilesInv, WellFormed
<1>5. copy' \in Seq(Entries) /\ Once(copy') /\ Range(copy') = {}
  BY <1>2, EmptyList
<1>6. FilesInv'
  BY <1>1, <1>2, <1>4, <1>5 DEF FilesInv, WellFormed, Once
<1>7. TypeInv'
  BY <1>1, <1>2, <1>3, <1>4, <1>5 DEF TypeInv, MainPlaces
<1>8. ListsInv'
  BY <1>1, <1>2, <1>3 DEF ListsInv, Once
<1>9. EventsInv'
  BY <1>1, <1>2, <1>3 DEF EventsInv
<1>10. KnownInv'
  <2>1. \A r \in Requests : r # "shutdown"
    BY DaemonAssumption
  <2> QED
    BY <1>1, <1>2, <1>3, <1>4, <2>1 DEF KnownInv, KnownIn, Active
<1>11. Checked'
  <2>1. i <= Len(cfg) /\ cfg[i] = "shutdown"
    BY <1>2, <1>3 DEF Checked
  <2>2. \A k \in (i + 1)..Len(cfg) :
          cfg[k] # "shutdown" => cfg[k] \in Range(file') \cup withdrawn'
    <3>1. \A k \in (i + 1)..Len(cfg) : k \in i..Len(cfg)
      BY <1>1, RangeOf DEF TypeInv
    <3> QED
      BY <1>2, <1>3, <1>4, <3>1 DEF Checked
  <2> QED
    BY <1>1, <1>2, <1>3, <2>1, <2>2, NextEntry DEF TypeInv
<1>12. CheckInv'
  BY <1>3, <1>11 DEF CheckInv
<1>13. StepInv'
  BY <1>2, <1>3 DEF StepInv
<1>14. IndexMatchesSessions'
  BY <1>1, <1>2, SameUsers
<1> QED
  BY <1>6, <1>7, <1>8, <1>9, <1>10, <1>12, <1>13, <1>14 DEF IInv

\* An event is given another mark.
LEMMA Marks ==
  ASSUME ev \in [Requests -> Events], NEW r \in Requests, NEW b \in BOOLEAN,
         ev' = [ev EXCEPT ![r].found = b]
  PROVE  /\ ev' \in [Requests -> Events] /\ \A q \in Requests : SameUse(q)
         /\ ev'[r].found = b /\ \A q \in Requests \ {r} : ev'[q] = ev[q]
<1>1. ev[r] \in Events
  OBVIOUS
<1>2. /\ ev'[r].fi = ev[r].fi /\ ev'[r].found = b /\ ev'[r].thread = ev[r].thread
  BY <1>1 DEF Events
<1>3. ev' \in [Requests -> Events]
  BY <1>1 DEF Events
<1>4. \A q \in Requests \ {r} : ev'[q] = ev[q]
  OBVIOUS
<1> QED
  BY <1>2, <1>3, <1>4 DEF SameUse, Active

\* A request that is not scheduled gets an event of its own.
LEMMA Renews ==
  ASSUME ev \in [Requests -> Events], NEW r \in Requests, ~ev[r].fi, ev[r].thread = "none",
         ev' = [ev EXCEPT ![r] = NewEvent]
  PROVE  /\ ev' \in [Requests -> Events] /\ \A q \in Requests : SameUse(q)
         /\ ev'[r].found /\ ~ev'[r].fi /\ \A q \in Requests \ {r} : ev'[q] = ev[q]
<1>1. ev'[r] = NewEvent /\ \A q \in Requests \ {r} : ev'[q] = ev[q]
  OBVIOUS
<1>2. ev' \in [Requests -> Events]
  BY NoEventIs
<1> QED
  BY <1>1, <1>2, NoEventIs DEF SameUse, Active

\* An entry has its event, gets one, or is refused.
LEMMA LookStep ==
  ASSUME IInv, Look
  PROVE  IInv'
<1> DEFINE r == cfg[i]
<1>1. TypeInv /\ FilesInv /\ ListsInv /\ EventsInv /\ KnownInv /\ CheckInv /\ StepInv
  BY DEF IInv
<1>2. /\ pc = "look" /\ i <= Len(cfg) /\ r # "shutdown" /\ i' = i + 1
      /\ IF r \in Scheduled
         THEN /\ ev' = [ev EXCEPT ![r].found = TRUE]
              /\ UNCHANGED <<freelist, busylist, victim, back, pc>>
         ELSE /\ ev' = [ev EXCEPT ![r] = NewEvent]
              /\ \/ Close(r, "look") /\ UNCHANGED <<freelist, busylist>>
                 \/ freelist' = Append(freelist, r) /\ UNCHANGED <<busylist, victim, back, pc>>
      /\ UNCHANGED <<file, notify, then, cfg, copy, index, queued, editor, withdrawn>>
  BY DEF Look, add_recording, branch, client
<1>3. ~Closing /\ Checking /\ Checked
  BY <1>1, <1>2 DEF Closing, Checking, CheckInv
<1>4. r \in Requests /\ r \in Range(file) \cup withdrawn /\ i \in Nat
  <2>1. i \in i..Len(cfg) /\ i \in 1..Len(cfg)
    BY <1>1, <1>2, <1>3, RangeOf DEF TypeInv, Checked
  <2>2. r \in Entries
    BY <1>1, <2>1, ElementOfSeq DEF TypeInv
  <2> QED
    BY <1>1, <1>2, <1>3, <2>1, <2>2 DEF Checked, Entries, TypeInv
<1>5. Scheduled \subseteq Requests
  BY <1>1, RangeOf DEF TypeInv, Scheduled
<1>6. /\ \A k \in (i + 1)..Len(cfg) :
           cfg[k] # "shutdown" => cfg[k] \in Range(file') \cup withdrawn'
      /\ ~notify' => cfg' = file'
  <2>1. \A k \in (i + 1)..Len(cfg) : k \in i..Len(cfg)
    BY <1>1, RangeOf DEF TypeInv
  <2> QED
    BY <1>2, <1>3, <2>1 DEF Checked
<1>7. WellFormed(copy') /\ WellFormed(file')
  BY <1>1, <1>2 DEF FilesInv, WellFormed, Once
<1> HIDE DEF r
<1>8. CASE r \in Scheduled
  <2>1. /\ ev' = [ev EXCEPT ![r].found = TRUE]
        /\ UNCHANGED <<freelist, busylist, victim, back, pc>>
    BY <1>2, <1>8
  <2>2. /\ ev' \in [Requests -> Events] /\ \A q \in Requests : SameUse(q)
        /\ ev'[r].found /\ \A q \in Requests \ {r} : ev'[q] = ev[q]
    BY <1>1, <1>4, <2>1, Marks DEF TypeInv
  <2>3. ~Closing' /\ Checking' /\ pc' = "look"
    BY <1>2, <2>1 DEF Closing, Checking
  <2>4. /\ FilesInv' /\ ListsInv' /\ EventsInv' /\ IndexMatchesSessions'
        /\ KnownIn(file)' /\ Scheduled' = Scheduled
    BY <1>2, <1>3, <1>7, <2>1, <2>2, <2>3, Onward
  <2>5. TypeInv'
    BY <1>1, <1>2, <1>3, <1>4, <2>1, <2>2, <2>3 DEF TypeInv
  <2>6. KnownInv'
    BY <2>3, <2>4 DEF KnownInv
  <2>7. Checked'
    <3>1. \A q \in Scheduled : ev[q].found => ev'[q].found
      BY <1>5, <2>2
    <3>2. \A q \in Scheduled' : ev'[q].found => (q \in Scheduled /\ ev[q].found) \/ q = r
      BY <1>5, <2>2, <2>4
    <3> QED
      BY <1>1, <1>2, <1>3, <1>6, <1>8, <2>2, <2>3, <2>4, <3>1, <3>2, NextEntry DEF TypeInv, r
  <2>8. CheckInv' /\ StepInv'
    BY <2>3, <2>7 DEF CheckInv, StepInv
  <2> QED
    BY <2>4, <2>5, <2>6, <2>8 DEF IInv
<1>9. CASE r \notin Scheduled
  <2>1. ~ev[r].fi /\ ev[r].thread = "none"
    BY <1>1, <1>3, <1>4, <1>9 DEF EventsInv, Scheduled
  <2>2. /\ ev' \in [Requests -> Events] /\ \A q \in Requests : SameUse(q)
        /\ ev'[r].found /\ ~ev'[r].fi /\ \A q \in Requests \ {r} : ev'[q] = ev[q]
    BY <1>1, <1>2, <1>4, <1>9, <2>1, Renews DEF TypeInv
  <2>3. IndexMatchesSessions'
    BY <1>2, <2>2, SameUsers DEF IInv, SameUse
  <2>4. FilesInv'
    BY <1>1, <1>2, <1>7 DEF FilesInv, WellFormed, Once
  <2>5. CASE Close(r, "look") /\ UNCHANGED <<freelist, busylist>>
    <3>1. Closing' /\ Checking' /\ pc' = "stop" /\ victim' = r /\ back' = "look"
      BY <2>5 DEF Close, Closing, Checking
    <3>2. Scheduled' = Scheduled
      BY <2>5 DEF Scheduled
    <3>3. TypeInv'
      BY <1>1, <1>2, <1>3, <1>4, <2>2, <2>5, <3>1 DEF TypeInv, MainPlaces
    <3>4. ListsInv'
      BY <1>1, <1>9, <2>5, <3>1, <3>2 DEF ListsInv, Once
    <3>5. EventsInv'
      BY <1>1, <1>3, <2>2, <2>5, <3>1 DEF EventsInv, SameUse
    <3>6. KnownInv'
      BY <1>1, <1>2, <2>2, <3>1, <3>2 DEF KnownInv, KnownIn, SameUse, Active
    <3>7. CheckInv' /\ StepInv'
      BY <2>2, <3>1 DEF CheckInv, StepInv
    <3> QED
      BY <2>3, <2>4, <3>3, <3>4, <3>5, <3>6, <3>7 DEF IInv
  <2>6. CASE freelist' = Append(freelist, r) /\ UNCHANGED <<busylist, victim, back, pc>>
    <3>1. ~Closing' /\ Checking' /\ pc' = "look"
      BY <1>2, <2>6 DEF Closing, Checking
    <3>2. /\ freelist' \in Seq(Requests) /\ Range(freelist') = Range(freelist) \cup {r}
          /\ Once(freelist')
      BY <1>1, <1>4, <1>9, <2>6, AppendTo DEF TypeInv, ListsInv, Scheduled
    <3>3. Scheduled' = Scheduled \cup {r}
      BY <2>6, <3>2 DEF Scheduled
    <3>4. TypeInv'
      BY <1>1, <1>2, <1>3, <1>4, <2>2, <2>6, <3>1, <3>2 DEF TypeInv
    <3>5. ListsInv'
      BY <1>1, <1>9, <2>6, <3>1, <3>2 DEF ListsInv, Once, Scheduled
    <3>6. EventsInv'
      BY <1>1, <1>3, <2>2, <2>6, <3>1 DEF EventsInv, SameUse, Closing
    <3>7. KnownInv'
      BY <1>1, <1>2, <1>4, <2>2, <3>1, <3>3 DEF KnownInv, KnownIn, SameUse, Active
    <3>8. Checked'
      <4>1. \A q \in Scheduled : ev[q].found => ev'[q].found
        BY <1>5, <2>2
      <4>2. \A q \in Scheduled' : ev'[q].found => (q \in Scheduled /\ ev[q].found) \/ q = r
        BY <1>5, <2>2, <3>3
      <4> QED
        BY <1>1, <1>2, <1>3, <1>6, <2>2, <3>1, <3>3, <4>1, <4>2, NextEntry DEF TypeInv, r
    <3>9. CheckInv' /\ StepInv'
      BY <3>1, <3>8 DEF CheckInv, StepInv
    <3> QED
      BY <2>3, <2>4, <3>4, <3>5, <3>6, <3>7, <3>9 DEF IInv
  <2> QED
    BY <1>2, <1>9, <2>5, <2>6
<1> QED
  BY <1>8, <1>9

\* An event without an entry leaves its list; those with one have been found.
LEMMA RemoveMissingStep ==
  ASSUME IInv, RemoveMissing
  PROVE  IInv'
<1>1. TypeInv /\ FilesInv /\ CheckInv
  BY DEF IInv
<1>2. PICK r \in NotFound :
        /\ ev' = [ev EXCEPT ![r].status = IF @ = "RUNNING" THEN "CANCELLED" ELSE @]
        /\ Unlink(r) /\ Close(r, "look")
  BY DEF RemoveMissing
<1>3. /\ pc = "look" /\ i > Len(cfg)
      /\ UNCHANGED <<file, notify, then, cfg, i, copy, index, queued, editor, withdrawn>>
  BY DEF RemoveMissing, LookedThrough, client
<1>4. ~Closing /\ Checking /\ Checked
  BY <1>1, <1>3 DEF Closing, Checking, CheckInv
<1>5. r \in Scheduled /\ r \in Requests /\ ~ev[r].found /\ Scheduled \subseteq Requests
  BY <1>1, RangeOf DEF TypeInv, Scheduled, NotFound
<1>6. /\ ev' \in [Requests -> Events] /\ \A q \in Requests : SameUse(q)
      /\ \A q \in Requests : ev'[q].found = ev[q].found
  <2>1. ev \in [Requests -> Events] /\ ev[r] \in Events
    BY <1>1, <1>5 DEF TypeInv
  <2>2. PICK s \in {"NOT_STARTED", "RUNNING", "CANCELLED", "STOPPED", "FINISHED", "ERROR"} :
          ev' = [ev EXCEPT ![r].status = s]
    <3>1. ev[r].status \in {"NOT_STARTED", "RUNNING", "CANCELLED", "STOPPED", "FINISHED", "ERROR"}
      BY <2>1 DEF Events
    <3> QED
      BY <1>2, <3>1
  <2>3. /\ ev'[r].fi = ev[r].fi /\ ev'[r].found = ev[r].found /\ ev'[r].thread = ev[r].thread
    BY <1>5, <2>1, <2>2 DEF Events
  <2>4. ev' \in [Requests -> Events]
    BY <1>5, <2>1, <2>2 DEF Events
  <2>5. \A q \in Requests \ {r} : ev'[q] = ev[q]
    BY <2>1, <2>2
  <2> QED
    BY <2>3, <2>4, <2>5 DEF SameUse, Active
<1>7. /\ FilesInv' /\ ListsInv' /\ EventsInv' /\ KnownInv' /\ IndexMatchesSessions'
      /\ freelist' \in Seq(Requests) /\ busylist' \in Seq(Requests)
      /\ Scheduled' = Scheduled \ {r}
      /\ Closing' /\ pc' = "stop" /\ victim' = r /\ back' = "look"
  BY <1>2, <1>3, <1>4, <1>5, <1>6, Closes
<1>8. Checking'
  BY <1>7 DEF Checking
<1>9. TypeInv'
  BY <1>1, <1>3, <1>4, <1>5, <1>6, <1>7, <1>8 DEF TypeInv, MainPlaces
<1>10. Checked'
  <2>1. i = Len(cfg) + 1 /\ Len(cfg) \in Nat
    BY <1>1, <1>3, <1>4, RangeOf DEF TypeInv, Checked
  <2>2. i'..Len(cfg') = {} /\ i' \in 1..(Len(cfg') + 1)
    BY <1>3, <1>4, <2>1
  <2>3. /\ \A k \in 1..(i' - 1) :
             cfg'[k] # "shutdown" => cfg'[k] \in Scheduled' /\ ev'[cfg'[k]].found
        /\ \A q \in Scheduled' : ev'[q].found => \E k \in 1..(i' - 1) : cfg'[k] = q
    BY <1>3, <1>4, <1>5, <1>6, <1>7 DEF Checked
  <2>4. ~notify' => cfg' = file'
    BY <1>3, <1>4 DEF Checked
  <2> QED
    BY <1>3, <1>7, <2>1, <2>2, <2>3, <2>4 DEF Checked
<1>11. CheckInv' /\ StepInv'
  BY <1>7, <1>8, <1>10 DEF CheckInv, StepInv
<1> QED
  BY <1>7, <1>9, <1>11 DEF IInv

\* The end of check_schedule: all entries have their events and all events their entry.
LEMMA UnlockStep ==
  ASSUME IInv, Unlock
  PROVE  IInv'
<1>1. TypeInv /\ FilesInv /\ CheckInv
  BY DEF IInv
<1>2. /\ pc = "look" /\ i > Len(cfg) /\ NotFound = {} /\ pc' = then
      /\ ev' = zerofound /\ lock' = "none" /\ cfg' = <<>> /\ i' = 0
      /\ UNCHANGED <<file, notify, victim, back, copy, freelist, busylist, index, queued, editor,
                     withdrawn>>
  BY DEF Unlock, LookedThrough, branch, client
<1>3. ~Closing /\ Checking /\ Checked /\ pc' \in {"start", "finish"}
  BY <1>1, <1>2 DEF Closing, Checking, CheckInv, TypeInv
<1>4. ~Closing' /\ ~Checking'
  BY <1>3 DEF Closing, Checking
<1>5. /\ ev' \in [Requests -> Events] /\ \A q \in Requests : SameUse(q)
      /\ \A q \in Requests : ~ev'[q].found
  <2>1. ASSUME NEW q \in Requests
        PROVE  /\ ev'[q] = [ev[q] EXCEPT !.found = FALSE] /\ ev[q] \in Events
    BY <1>1, <1>2 DEF zerofound, TypeInv
  <2>2. ASSUME NEW q \in Requests
        PROVE  /\ ev'[q] \in Events /\ ev'[q].fi = ev[q].fi /\ ev'[q].thread = ev[q].thread
               /\ ~ev'[q].found
    <3> DEFINE x == ev[q]
    <3>1. ev'[q] = [x EXCEPT !.found = FALSE] /\ x \in Events
      BY <2>1
    <3> HIDE DEF x
    <3>2. [x EXCEPT !.found = FALSE] \in Events
      BY <3>1 DEF Events
    <3>3. /\ [x EXCEPT !.found = FALSE].fi = x.fi
          /\ [x EXCEPT !.found = FALSE].thread = x.thread
          /\ ~[x EXCEPT !.found = FALSE].found
      BY <3>1 DEF Events
    <3> QED
      BY <3>1, <3>2, <3>3 DEF x
  <2>3. ev' \in [Requests -> Events]
    BY <1>2, <2>2 DEF zerofound
  <2> QED
    BY <2>2, <2>3 DEF SameUse, Active
<1>6. WellFormed(copy')
  BY <1>1, <1>2 DEF FilesInv
<1>7. /\ FilesInv' /\ ListsInv' /\ EventsInv' /\ IndexMatchesSessions'
      /\ KnownIn(file)' /\ Scheduled' = Scheduled
  BY <1>2, <1>3, <1>4, <1>5, <1>6, Onward
<1>8. TypeInv'
  <2>1. cfg' \in Seq(Entries)
    BY <1>2, EmptyList
  <2> QED
    BY <1>1, <1>2, <1>3, <1>4, <1>5, <2>1 DEF TypeInv, MainPlaces
<1>9. KnownInv' /\ CheckInv'
  BY <1>3, <1>4, <1>5, <1>7 DEF KnownInv, CheckInv
<1>10. ASSUME ~notify PROVE Scheduled = Range(file) \ {"shutdown"}
  <2>1. cfg = file /\ i - 1 = Len(cfg) /\ 1..(i - 1) = 1..Len(cfg)
    BY <1>1, <1>2, <1>3, <1>10, RangeOf DEF TypeInv, Checked
  <2>2. \A e : e \in Range(file) <=> \E k \in 1..(i - 1) : cfg[k] = e
    BY <1>1, <2>1, RangeOf DEF TypeInv
  <2>3. \A r \in Scheduled : ev[r].found /\ r # "shutdown"
    <3>1. Scheduled \subseteq Requests
      BY <1>1, RangeOf DEF TypeInv, Scheduled
    <3> QED
      BY <1>2, <3>1, DaemonAssumption DEF NotFound
  <2> QED
    BY <1>3, <2>2, <2>3 DEF Checked
<1>11. StepInv'
  BY <1>2, <1>3, <1>4, <1>7, <1>10 DEF StepInv
<1> QED
  BY <1>7, <1>8, <1>9, <1>11 DEF IInv

\* What a search ends at is in the list, and what leaves a list outside check_schedule
\* has no mark.
LEMMA ClosesElsewhere ==
  ASSUME IInv, NEW r \in Scheduled, NEW place \in {"start", "finish", "closing"},
         pc = place, Unlink(r), Close(r, place),
         UNCHANGED <<file, notify, lock, then, cfg, i, queued, editor, withdrawn, copy, ev, index>>
  PROVE  IInv'
<1>1. TypeInv /\ FilesInv /\ CheckInv /\ StepInv
  BY DEF IInv
<1>2. ~Closing /\ ~Checking
  BY DEF Closing, Checking
<1>3. ev' \in [Requests -> Events] /\ \A q \in Requests : SameUse(q)
  BY <1>1, SameUseOf DEF TypeInv
<1>4. /\ FilesInv' /\ ListsInv' /\ EventsInv' /\ KnownInv' /\ IndexMatchesSessions'
      /\ freelist' \in Seq(Requests) /\ busylist' \in Seq(Requests)
      /\ r \in Requests /\ Closing' /\ pc' = "stop" /\ victim' = r /\ back' = place
  BY <1>2, <1>3, Closes
<1>5. ~Checking'
  BY <1>4 DEF Checking
<1>6. TypeInv'
  BY <1>1, <1>4, <1>5 DEF TypeInv, MainPlaces
<1>7. CheckInv'
  BY <1>1, <1>2, <1>5 DEF CheckInv
<1>8. StepInv'
  BY <1>1, <1>4 DEF StepInv
<1> QED
  BY <1>4, <1>6, <1>7, <1>8 DEF IInv

\* The main thread goes on in its loop without having changed anything.
LEMMA GoesOn ==
  ASSUME IInv, pc \in {"start", "finish"}, pc' \in {"poll", "start", "closing"},
         UNCHANGED <<file, notify, lock, victim, back, then, cfg, i, queued, editor, withdrawn,
                     copy, ev, index, freelist, busylist>>
  PROVE  IInv'
<1>1. TypeInv /\ FilesInv /\ CheckInv /\ StepInv
  BY DEF IInv
<1>2. ~Closing /\ ~Checking /\ ~Closing' /\ ~Checking'
  BY DEF Closing, Checking
<1>3. ev' \in [Requests -> Events] /\ \A q \in Requests : SameUse(q)
  BY <1>1, SameUseOf DEF TypeInv
<1>4. WellFormed(copy')
  BY <1>1 DEF FilesInv
<1>5. /\ FilesInv' /\ ListsInv' /\ EventsInv' /\ IndexMatchesSessions'
      /\ KnownIn(file)' /\ Scheduled' = Scheduled
  BY <1>2, <1>3, <1>4, Onward
<1>6. TypeInv'
  BY <1>1, <1>2, <1>3 DEF TypeInv, MainPlaces
<1>7. KnownInv' /\ CheckInv' /\ StepInv'
  BY <1>1, <1>2, <1>5 DEF KnownInv, CheckInv, StepInv
<1> QED
  BY <1>5, <1>6, <1>7 DEF IInv

\* check_finished, and the end of a round of the loop.
LEMMA CheckFinishedStep ==
  ASSUME IInv, CheckFinished
  PROVE  IInv'
<1>1. /\ pc = "finish"
      /\ UNCHANGED <<file, notify, lock, then, cfg, i, queued, editor, withdrawn, copy, ev, index>>
  BY DEF CheckFinished, client
<1>2. \/ \E r \in Range(busylist) : Unlink(r) /\ Close(r, "finish")
      \/ pc' \in {"start", "closing"} /\ UNCHANGED <<freelist, busylist, victim, back>>
  BY DEF CheckFinished, branch
<1>3. ASSUME NEW r \in Range(busylist), Unlink(r), Close(r, "finish") PROVE IInv'
  BY <1>1, <1>3, ClosesElsewhere DEF Scheduled
<1> QED
  BY <1>1, <1>2, <1>3, GoesOn

\* main closes what is in the busy branch.
LEMMA CloseSessionsStep ==
  ASSUME IInv, CloseSessions
  PROVE  IInv'
<1>1. /\ pc = "closing" /\ busylist # <<>>
      /\ Unlink(Head(busylist)) /\ Close(Head(busylist), "closing")
      /\ UNCHANGED <<file, notify, lock, then, cfg, i, queued, editor, withdrawn, copy, ev, index>>
  BY DEF CloseSessions, client
<1>2. Head(busylist) \in Scheduled
  <2>1. busylist \in Seq(Requests)
    BY DEF IInv, TypeInv
  <2>2. Len(busylist) \in Nat /\ Len(busylist) # 0
    BY <1>1, <2>1, EmptySeq, LenProperties
  <2>3. Head(busylist) = busylist[1] /\ 1 \in 1..Len(busylist)
    BY <1>1, <2>1, <2>2, HeadTailProperties
  <2>4. Head(busylist) \in Range(busylist)
    BY <2>1, <2>3, RangeOf
  <2> QED
    BY <2>4 DEF Scheduled
<1> QED
  BY <1>1, <1>2, ClosesElsewhere

-----------------------------------------------------------------------------
(* Steps that change the index                                               *)

Recorders == {r \in Requests : Recording(r)}
Users(n) == {r \in Requests : ev[r].fi /\ Request[r].name = n}

\* A session joins: its recording counts one more, and its one recorder.
LEMMA UserJoins ==
  ASSUME IInv, NEW r \in Requests, ~ev[r].fi, ev'[r].fi,
         \A q \in Requests \ {r} : ev'[q].fi <=> ev[q].fi,
         afi_add(Request[r].name, Recording(r)),
         Recording(r) => ~index[Request[r].name].recording
  PROVE  /\ IndexMatchesSessions'
         /\ index' \in [Names -> [associations : Nat, recording : BOOLEAN]]
<1> DEFINE m == Request[r].name
<1>1. /\ index \in [Names -> [associations : Nat, recording : BOOLEAN]]
      /\ IndexMatchesSessions /\ m \in Names
  BY DEF IInv, TypeInv, Names
<1>2. index[m] \in [associations : Nat, recording : BOOLEAN] /\ Recording(r) \in BOOLEAN
  BY <1>1 DEF Recording
<1>3. /\ index' = [index EXCEPT ![m].associations = index[m].associations + 1,
                               ![m].recording = index[m].recording \/ Recording(r)]
  BY <1>1, <1>2 DEF afi_add
<1> HIDE DEF m
<1>4. /\ index' \in [Names -> [associations : Nat, recording : BOOLEAN]]
      /\ index'[m].associations = index[m].associations + 1
      /\ index'[m].recording = (index[m].recording \/ Recording(r))
      /\ \A n \in Names \ {m} : index'[n] = index[n]
  <2>1. index[m].associations \in Nat /\ index[m].recording \in BOOLEAN
    BY <1>2
  <2>2. index[m].associations + 1 \in Nat /\ (index[m].recording \/ Recording(r)) \in BOOLEAN
    BY <2>1
  <2> DEFINE a == index[m].associations + 1
             b == index[m].recording \/ Recording(r)
  <2> HIDE DEF a, b
  <2>3. /\ index' = [index EXCEPT ![m].associations = a, ![m].recording = b]
        /\ a \in Nat /\ b \in BOOLEAN
    BY <1>3, <2>2 DEF a, b
  <2>4. /\ index' \in [Names -> [associations : Nat, recording : BOOLEAN]]
        /\ index'[m].associations = a /\ index'[m].recording = b
        /\ \A n \in Names \ {m} : index'[n] = index[n]
    BY <1>1, <1>2, <2>3
  <2> QED
    BY <2>4 DEF a, b
<1>5. ASSUME NEW n \in Names
      PROVE  /\ index'[n].associations = Cardinality(Users(n)')
             /\ Cardinality(Users(n)' \cap Recorders) = IF index'[n].recording THEN 1 ELSE 0
  <2>1. /\ index[n].associations = Cardinality(Users(n))
        /\ Cardinality(Users(n) \cap Recorders) = IF index[n].recording THEN 1 ELSE 0
    BY <1>1 DEF IndexMatchesSessions, Users, Recorders
  <2>2. IsFiniteSet(Users(n)) /\ IsFiniteSet(Users(n) \cap Recorders)
    BY DaemonAssumption, FS_Subset DEF Users
  <2>3. CASE n # m
    <3>1. Users(n)' = Users(n)
      BY <2>3 DEF Users, m
    <3> QED
      BY <1>4, <2>1, <2>3, <3>1
  <2>4. CASE n = m
    <3>1. Users(n)' = Users(n) \cup {r} /\ r \notin Users(n)
      BY <2>4 DEF Users, m
    <3>2. Cardinality(Users(n)') = Cardinality(Users(n)) + 1
      BY <2>2, <3>1, FS_AddElement
    <3>3. CASE Recording(r)
      <4>1. Users(n)' \cap Recorders = (Users(n) \cap Recorders) \cup {r}
            /\ r \notin Users(n) \cap Recorders
        BY <3>1, <3>3 DEF Recorders
      <4>2. Cardinality(Users(n)' \cap Recorders) = Cardinality(Users(n) \cap Recorders) + 1
        BY <2>2, <4>1, FS_AddElement
      <4>3. ~index[n].recording /\ index'[n].recording
        BY <1>4, <2>4, <3>3 DEF m
      <4> QED
        BY <1>4, <2>1, <2>4, <3>2, <4>2, <4>3
    <3>4. CASE ~Recording(r)
      <4>1. Users(n)' \cap Recorders = Users(n) \cap Recorders
        BY <3>1, <3>4 DEF Recorders
      <4> QED
        BY <1>2, <1>4, <2>1, <2>4, <3>2, <3>4, <4>1
    <3> QED
      BY <3>3, <3>4
  <2> QED
    BY <2>3, <2>4
<1>6. Recorders' = Recorders
  BY DEF Recorders, Recording
<1> QED
  BY <1>4, <1>5, <1>6 DEF IndexMatchesSessions, Users, Recorders

\* A session leaves, and a recorder takes its mark along; while a recorder is there, it is
\* not the last that leaves.
LEMMA UserLeaves ==
  ASSUME IInv, NEW r \in Requests, ev[r].fi, ~ev'[r].fi,
         \A q \in Requests \ {r} : ev'[q].fi <=> ev[q].fi,
         afi_disassociate(Request[r].name, Recording(r))
  PROVE  /\ IndexMatchesSessions'
         /\ index' \in [Names -> [associations : Nat, recording : BOOLEAN]]
<1> DEFINE m == Request[r].name
<1>1. /\ index \in [Names -> [associations : Nat, recording : BOOLEAN]]
      /\ IndexMatchesSessions /\ m \in Names
  BY DEF IInv, TypeInv, Names
<1>2. index[m] \in [associations : Nat, recording : BOOLEAN] /\ Recording(r) \in BOOLEAN
  BY <1>1 DEF Recording
<1>u. ASSUME NEW n \in Names
      PROVE  /\ IsFiniteSet(Users(n)) /\ IsFiniteSet(Users(n) \cap Recorders)
             /\ index[n].associations = Cardinality(Users(n))
             /\ Cardinality(Users(n) \cap Recorders) = IF index[n].recording THEN 1 ELSE 0
  <2>1. IsFiniteSet(Users(n)) /\ IsFiniteSet(Users(n) \cap Recorders)
    BY DaemonAssumption, FS_Subset DEF Users
  <2> QED
    BY <1>1, <2>1 DEF IndexMatchesSessions, Users, Recorders
<1>3. r \in Users(m)
  BY DEF Users
<1> DEFINE c == Cardinality(Users(m))
<1>4. c \in Nat /\ c >= 1
  <2>1. IsFiniteSet(Users(m)) /\ Users(m) # {}
    BY <1>1, <1>u, <1>3
  <2>2. c \in Nat /\ c # 0
    BY <2>1, FS_EmptySet, FS_CardinalityType
  <2> HIDE DEF c
  <2> QED
    BY <2>2
<1>5. /\ index' = [index EXCEPT ![m].associations = index[m].associations - 1,
                               ![m].recording = /\ index[m].recording /\ ~Recording(r)
                                                /\ index[m].associations > 1]
  BY <1>1, <1>2 DEF afi_disassociate
<1>6. index[m].associations - 1 \in Nat
  <2>1. index[m].associations = c
    BY <1>1, <1>u
  <2> HIDE DEF c
  <2> QED
    BY <1>4, <2>1
<1> HIDE DEF m
<1>7. /\ index' \in [Names -> [associations : Nat, recording : BOOLEAN]]
      /\ index'[m].associations = index[m].associations - 1
      /\ index'[m].recording <=> /\ index[m].recording /\ ~Recording(r)
                                 /\ index[m].associations > 1
      /\ \A n \in Names \ {m} : index'[n] = index[n]
  BY <1>1, <1>2, <1>5, <1>6
<1>8. ASSUME NEW n \in Names
      PROVE  /\ index'[n].associations = Cardinality(Users(n)')
             /\ Cardinality(Users(n)' \cap Recorders) = IF index'[n].recording THEN 1 ELSE 0
  <2>3. CASE n # m
    <3>1. Users(n)' = Users(n)
      BY <2>3 DEF Users, m
    <3> QED
      BY <1>7, <1>u, <2>3, <3>1
  <2>4. CASE n = m
    <3>1. Users(n)' = Users(n) \ {r}
      BY <2>4 DEF Users
    <3>2. Cardinality(Users(n)') = Cardinality(Users(n)) - 1
      BY <1>u, <1>3, <2>4, <3>1, FS_RemoveElement
    <3>3. CASE Recording(r)
      <4>1. /\ Users(n)' \cap Recorders = (Users(n) \cap Recorders) \ {r}
            /\ r \in Users(n) \cap Recorders
        BY <1>3, <2>4, <3>1, <3>3 DEF Recorders
      <4>2. Cardinality(Users(n)' \cap Recorders) = Cardinality(Users(n) \cap Recorders) - 1
        BY <1>u, <4>1, FS_RemoveElement
      <4>3. Cardinality(Users(n) \cap Recorders) = 1
        <5>1. Cardinality(Users(n) \cap Recorders) # 0
          BY <1>u, <4>1, FS_EmptySet
        <5> QED
          BY <1>u, <5>1
      <4>4. Cardinality(Users(n)' \cap Recorders) = 0
        BY <4>2, <4>3
      <4>5. ~index'[n].recording /\ index'[n].associations = index[n].associations - 1
        BY <1>7, <2>4, <3>3
      <4> QED
        BY <1>u, <3>2, <4>4, <4>5
    <3>4. CASE ~Recording(r)
      <4>1. Users(n)' \cap Recorders = Users(n) \cap Recorders
        BY <3>1, <3>4 DEF Recorders
      <4>2. index[n].recording => index[n].associations > 1
        <5>1. SUFFICES ASSUME Cardinality(Users(n) \cap Recorders) = 1
                       PROVE  Cardinality(Users(n)) > 1
          BY <1>u
        <5>2. /\ IsFiniteSet(Users(n)')
              /\ Users(n) \cap Recorders \in SUBSET (Users(n)')
          BY <1>u, <3>1, <3>4, FS_Subset DEF Recorders
        <5>3. Cardinality(Users(n)') >= 1 /\ Cardinality(Users(n)') \in Nat
          BY <5>1, <5>2, FS_Subset, FS_CardinalityType
        <5> QED
          BY <1>4, <2>4, <3>2, <5>3
      <4>3. index'[n].recording <=> index[n].recording
        BY <1>7, <2>4, <3>4, <4>2
      <4> QED
        BY <1>7, <1>u, <2>4, <3>2, <4>1, <4>3
    <3> QED
      BY <3>3, <3>4
  <2> QED
    BY <2>3, <2>4
<1>9. Recorders' = Recorders
  BY DEF Recorders, Recording
<1> QED
  BY <1>7, <1>8, <1>9 DEF IndexMatchesSessions, Users, Recorders

\* start_event moves an event to the busy branch and gives it its file index.
LEMMA StartEventStep ==
  ASSUME IInv, NEW r \in Range(freelist), pc = "start", pc' = pc,
         init_cfg(r), start_event(r),
         UNCHANGED <<file, notify, lock, victim, back, then, cfg, i, queued, editor, withdrawn, copy>>
  PROVE  IInv'
<1>1. TypeInv /\ FilesInv /\ ListsInv /\ EventsInv /\ KnownInv /\ CheckInv /\ StepInv
  BY DEF IInv
<1>2. ~Closing /\ ~Checking /\ ~Closing' /\ ~Checking'
  BY DEF Closing, Checking
<1>3. r \in Requests /\ r \in Scheduled /\ r \notin Range(busylist)
  BY <1>1, RangeOf DEF TypeInv, ListsInv, Scheduled
<1>4. ~ev[r].fi
  BY <1>1, <1>2, <1>3 DEF EventsInv
<1>5. /\ ev' \in [Requests -> Events] /\ ev'[r].fi /\ ev'[r].thread = "prep"
      /\ ev'[r].found = ev[r].found /\ \A q \in Requests \ {r} : ev'[q] = ev[q]
  <2>1. ev \in [Requests -> Events] /\ ev[r] \in Events
    BY <1>1, <1>3 DEF TypeInv
  <2>2. ev' = [ev EXCEPT ![r].status = "RUNNING", ![r].thread = "prep", ![r].fi = TRUE]
    BY DEF start_event
  <2>3. ev'[r].fi /\ ev'[r].thread = "prep" /\ ev'[r].found = ev[r].found
    BY <1>3, <2>1, <2>2 DEF Events
  <2>4. ev' \in [Requests -> Events]
    BY <1>3, <2>1, <2>2 DEF Events
  <2>5. \A q \in Requests \ {r} : ev'[q] = ev[q]
    BY <2>1, <2>2
  <2> QED
    BY <2>3, <2>4, <2>5
<1>6. /\ IndexMatchesSessions'
      /\ index' \in [Names -> [associations : Nat, recording : BOOLEAN]]
  <2>1. Recording(r) => ~index[Request[r].name].recording
    BY DEF init_cfg, afi_add_refuses
  <2> QED
    BY <1>3, <1>4, <1>5, <2>1, UserJoins DEF start_event
<1>7. /\ freelist' \in Seq(Requests) /\ busylist' \in Seq(Requests)
      /\ Range(freelist') = Range(freelist) \ {r} /\ Range(busylist') = Range(busylist) \cup {r}
      /\ Once(freelist') /\ Once(busylist')
  BY <1>1, <1>3, WithoutOne, AppendTo DEF start_event, TypeInv, ListsInv
<1>8. Scheduled' = Scheduled
  BY <1>7 DEF Scheduled
<1>9. TypeInv'
  BY <1>1, <1>2, <1>5, <1>6, <1>7 DEF TypeInv
<1>10. FilesInv'
  BY <1>1 DEF FilesInv, WellFormed, Once
<1>11. ListsInv'
  <2>1. Range(freelist') \cap Range(busylist') = {}
    BY <1>1, <1>7 DEF ListsInv
  <2>2. Once(freelist)' /\ Once(busylist)'
    BY <1>7 DEF Once
  <2> QED
    BY <1>2, <2>1, <2>2 DEF ListsInv
<1>12. EventsInv'
  <2>1. \A q \in Requests : ev'[q].fi <=> ev'[q].thread # "none"
    BY <1>1, <1>5 DEF EventsInv
  <2>2. \A q \in Requests : ev'[q].fi => q \in Range(busylist')
    BY <1>1, <1>2, <1>5, <1>7 DEF EventsInv
  <2> QED
    BY <2>1, <2>2 DEF EventsInv
<1>13. KnownInv'
  <2>1. \A q \in Requests : Active(q)' => q = r \/ Active(q)
    BY <1>5 DEF Active
  <2> QED
    BY <1>1, <1>3, <1>8, <2>1 DEF KnownInv, KnownIn
<1>14. CheckInv'
  BY <1>1, <1>2, <1>3, <1>5 DEF CheckInv
<1>15. StepInv'
  BY <1>1, <1>2, <1>8 DEF StepInv
<1> QED
  BY <1>6, <1>9, <1>10, <1>11, <1>12, <1>13, <1>14, <1>15 DEF IInv

\* start_event fails after it got a file index: the event is closed with it.
LEMMA StartFailsStep ==
  ASSUME IInv, NEW r \in Range(freelist), pc = "start", init_cfg(r), start_event_fails(r),
         UNCHANGED <<file, notify, lock, then, cfg, i, queued, editor, withdrawn, copy>>
  PROVE  IInv'
<1>1. TypeInv /\ FilesInv /\ ListsInv /\ EventsInv /\ KnownInv /\ CheckInv /\ StepInv
  BY DEF IInv
<1>2. /\ pc' = "stop" /\ victim' = r /\ back' = "start"
      /\ ~Closing /\ ~Checking /\ Closing' /\ ~Checking'
  BY DEF start_event_fails, Close, Closing, Checking
<1>3. r \in Requests /\ r \in Scheduled
  BY <1>1, RangeOf DEF TypeInv, Scheduled
<1>4. ~ev[r].fi
  BY <1>1, <1>2, <1>3 DEF EventsInv, ListsInv
<1>5. /\ ev' \in [Requests -> Events] /\ ev'[r].fi /\ ev'[r].thread = "exited"
      /\ ev'[r].found = ev[r].found /\ \A q \in Requests \ {r} : ev'[q] = ev[q]
  <2>1. ev \in [Requests -> Events] /\ ev[r] \in Events
    BY <1>1, <1>3 DEF TypeInv
  <2>2. ev' = [ev EXCEPT ![r].status = "RUNNING", ![r].thread = "exited", ![r].fi = TRUE]
    BY DEF start_event_fails
  <2>3. ev'[r].fi /\ ev'[r].thread = "exited" /\ ev'[r].found = ev[r].found
    BY <1>3, <2>1, <2>2 DEF Events
  <2>4. ev' \in [Requests -> Events]
    BY <1>3, <2>1, <2>2 DEF Events
  <2>5. \A q \in Requests \ {r} : ev'[q] = ev[q]
    BY <2>1, <2>2
  <2> QED
    BY <2>3, <2>4, <2>5
<1>6. /\ IndexMatchesSessions'
      /\ index' \in [Names -> [associations : Nat, recording : BOOLEAN]]
  <2>1. Recording(r) => ~index[Request[r].name].recording
    BY DEF init_cfg, afi_add_refuses
  <2> QED
    BY <1>3, <1>4, <1>5, <2>1, UserJoins DEF start_event_fails
<1>7. /\ freelist' \in Seq(Requests) /\ busylist' \in Seq(Requests)
      /\ Range(freelist') = Range(freelist) \ {r} /\ Range(busylist') = Range(busylist) \ {r}
      /\ Once(freelist') /\ Once(busylist')
  BY <1>1, <1>3, WithoutOne DEF start_event_fails, Unlink, TypeInv, ListsInv
<1>8. Scheduled' = Scheduled \ {r}
  BY <1>7 DEF Scheduled
<1>9. TypeInv'
  BY <1>1, <1>2, <1>3, <1>5, <1>6, <1>7 DEF TypeInv, MainPlaces
<1>10. FilesInv'
  BY <1>1 DEF FilesInv, WellFormed, Once
<1>11. ListsInv'
  <2>1. Range(freelist') \cap Range(busylist') = {}
    BY <1>1, <1>7 DEF ListsInv
  <2>2. Once(freelist)' /\ Once(busylist)'
    BY <1>7 DEF Once
  <2> QED
    BY <1>2, <1>8, <2>1, <2>2 DEF ListsInv
<1>12. EventsInv'
  <2>1. \A q \in Requests : ev'[q].fi <=> ev'[q].thread # "none"
    BY <1>1, <1>5 DEF EventsInv
  <2>2. \A q \in Requests : ev'[q].fi => q \in Range(busylist') \/ q = r
    BY <1>1, <1>2, <1>5, <1>7 DEF EventsInv
  <2> QED
    BY <1>2, <2>1, <2>2 DEF EventsInv
<1>13. KnownInv'
  <2>1. \A q \in Requests : Active(q)' => Active(q)
    BY <1>5 DEF Active
  <2> QED
    BY <1>1, <1>2, <1>8, <2>1 DEF KnownInv, KnownIn
<1>14. CheckInv'
  BY <1>1, <1>2, <1>3, <1>5 DEF CheckInv
<1>15. StepInv'
  BY <1>1, <1>2, <1>3 DEF StepInv, Scheduled
<1> QED
  BY <1>6, <1>9, <1>10, <1>11, <1>12, <1>13, <1>14, <1>15 DEF IInv

LEMMA StartScheduledStep ==
  ASSUME IInv, StartScheduled
  PROVE  IInv'
<1>1. /\ pc = "start"
      /\ UNCHANGED <<file, notify, lock, then, cfg, i, queued, editor, withdrawn, copy>>
  BY DEF StartScheduled, client
<1>2. \/ pc' = "poll" /\ UNCHANGED <<freelist, busylist, ev, index, victim, back>>
      \/ \E r \in Range(freelist) :
           \/ init_cfg(r) /\ start_event(r) /\ UNCHANGED <<pc, victim, back>>
           \/ init_cfg(r) /\ start_event_fails(r)
           \/ Unlink(r) /\ Close(r, "start") /\ UNCHANGED <<ev, index>>
  <2>1. CASE {r \in Range(freelist) : Due(r)} = {}
    BY <2>1 DEF StartScheduled, branch
  <2>2. CASE {r \in Range(freelist) : Due(r)} # {}
    <3>1. PICK r \in {q \in Range(freelist) : Due(q)} :
            \/ init_cfg(r) /\ start_event(r) /\ UNCHANGED <<pc, victim, back>>
            \/ init_cfg(r) /\ start_event_fails(r)
            \/ Unlink(r) /\ Close(r, "start") /\ UNCHANGED <<ev, index>>
      BY <2>2 DEF StartScheduled
    <3> QED
      BY <3>1
  <2> QED
    BY <2>1, <2>2
<1>3. ASSUME NEW r \in Range(freelist), init_cfg(r), start_event(r), UNCHANGED <<pc, victim, back>>
      PROVE  IInv'
  BY <1>1, <1>3, StartEventStep
<1>4. ASSUME NEW r \in Range(freelist), Unlink(r), Close(r, "start"), UNCHANGED <<ev, index>>
      PROVE  IInv'
  BY <1>1, <1>4, ClosesElsewhere DEF Scheduled
<1>5. ASSUME NEW r \in Range(freelist), init_cfg(r), start_event_fails(r)
      PROVE  IInv'
  BY <1>1, <1>5, StartFailsStep
<1> QED
  BY <1>1, <1>2, <1>3, <1>4, <1>5, GoesOn

\* free_and_close ends: a request refused at once ends the daemon instead, and the file
\* has been written since check_schedule read it last, so it will be read again.
LEMMA LeaveStep ==
  ASSUME IInv, Leave, ~Crash
  PROVE  IInv'
<1>1. /\ TypeInv /\ FilesInv /\ ListsInv /\ EventsInv /\ KnownInv /\ CheckInv /\ StepInv
  BY DEF IInv
<1>2. /\ pc = "leave" /\ ev[victim].fi
      /\ afi_disassociate(Request[victim].name, Recording(victim))
      /\ ev' = [ev EXCEPT ![victim] = NoEvent]
      /\ pc' = back /\ victim' = NULL /\ back' = NULL
      /\ UNCHANGED <<file, notify, lock, then, cfg, i, copy, freelist, busylist, queued, editor,
                     withdrawn>>
  BY DEF Leave, close_opts, branch, client
<1>3. /\ Closing /\ victim \in Requests /\ victim \notin Scheduled
      /\ pc' \in {"look", "start", "finish", "closing"} /\ ~Closing'
      /\ (Checking' <=> Checking) /\ (Checking' <=> pc' = "look")
  BY <1>1, <1>2 DEF Closing, Checking, TypeInv, ListsInv
<1>4. /\ ev' \in [Requests -> Events] /\ ev'[victim] = NoEvent
      /\ \A q \in Requests \ {victim} : ev'[q] = ev[q]
  BY <1>1, <1>2, <1>3, NoEventIs DEF TypeInv
<1>5. ~ev'[victim].fi /\ ~ev'[victim].found /\ ev'[victim].thread = "none"
  BY <1>4, NoEventIs
<1>6. /\ IndexMatchesSessions'
      /\ index' \in [Names -> [associations : Nat, recording : BOOLEAN]]
  BY <1>2, <1>3, <1>4, <1>5, UserLeaves
<1>7. Scheduled' = Scheduled /\ Scheduled \subseteq Requests
  BY <1>1, <1>2, RangeOf DEF Scheduled, TypeInv
<1>8. TypeInv'
  BY <1>1, <1>2, <1>3, <1>4, <1>6 DEF TypeInv, MainPlaces
<1>9. FilesInv'
  BY <1>1, <1>2 DEF FilesInv, WellFormed, Once
<1>10. ListsInv'
  BY <1>1, <1>2, <1>3 DEF ListsInv, Once
<1>11. EventsInv'
  <2>1. \A q \in Requests : ev'[q].fi <=> ev'[q].thread # "none"
    BY <1>1, <1>4, <1>5 DEF EventsInv
  <2>2. \A q \in Requests : ev'[q].fi => q \in Range(busylist')
    BY <1>1, <1>2, <1>4, <1>5 DEF EventsInv
  <2>3. pc' \notin {"convert", "unlist", "rewrite", "leave"}
    BY <1>3
  <2> QED
    BY <2>1, <2>2, <2>3 DEF EventsInv
<1>12. KnownInv'
  <2>1. \A q \in Requests : Active(q)' => Active(q)
    BY <1>4, <1>5 DEF Active
  <2> QED
    BY <1>1, <1>2, <1>3, <1>7, <2>1 DEF KnownInv, KnownIn
<1>13. CheckInv'
  <2>1. ASSUME Checking PROVE Checked'
    <3>1. Checked
      BY <1>1, <1>2, <2>1 DEF CheckInv
    <3>2. i = Len(cfg) + 1 /\ Len(cfg) \in Nat
      BY <1>1, <1>3, <3>1, RangeOf DEF Checked, TypeInv
    <3>3. i'..Len(cfg') = {}
      BY <1>2, <3>2
    <3>4. \A q \in Scheduled : ev'[q].found <=> ev[q].found
      BY <1>3, <1>4, <1>7
    <3> QED
      BY <1>2, <1>3, <1>7, <3>1, <3>2, <3>3, <3>4 DEF Checked
  <2>2. ASSUME ~Checking PROVE \A q \in Requests : ~ev'[q].found
    BY <1>1, <1>4, <1>5, <2>2 DEF CheckInv
  <2> QED
    BY <1>3, <2>1, <2>2 DEF CheckInv
<1>14. StepInv'
  BY <1>1, <1>2, <1>3 DEF StepInv
<1> QED
  BY <1>6, <1>8, <1>9, <1>10, <1>11, <1>12, <1>13, <1>14 DEF IInv

-----------------------------------------------------------------------------
(* The results                                                               *)

LEMMA InitInv == Init => IInv
<1> SUFFICES ASSUME Init PROVE Blank
  BY BlankInv
<1>1. file = <<>> /\ cfg = <<>> /\ copy = <<>> /\ editor = <<>> /\ queued = {} /\ i = 0
  BY DEF Init
<1>2. FilesInv
  BY <1>1, EmptyList DEF FilesInv, WellFormed
<1>3. /\ file \in Seq(Entries) /\ cfg \in Seq(Entries) /\ copy \in Seq(Entries)
  BY <1>1, EmptyList
<1>4. /\ notify \in BOOLEAN /\ pc = "down"
      /\ freelist = <<>> /\ busylist = <<>> /\ ev = [r \in Requests |-> NoEvent]
      /\ index = NoIndex
  BY DEF Init
<1> QED
  BY <1>1, <1>2, <1>3, <1>4 DEF Blank

LEMMA NextInv == IInv /\ [Next]_vars => IInv'
<1> SUFFICES ASSUME IInv, [Next]_vars PROVE IInv'
  OBVIOUS
<1>1. CASE Crash \/ Boot
  BY <1>1, BlankStep
<1>2. CASE Background
  BY <1>2, BackgroundInv
<1>3. CASE Main
  <2>1. CASE Exit
    BY <2>1, BlankStep DEF Exit
  <2>2. CASE Stop
    BY <1>1, <2>2, StopStep
  <2>3. CASE Leave
    BY <1>1, <2>3, LeaveStep
  <2> QED
    BY <1>3, <2>1, <2>2, <2>3, LockStep, LookStep, ShutdownStep, ShutdownTakenStep,
       RemoveMissingStep, UnlockStep, StartScheduledStep, PollStep, CheckFinishedStep,
       CloseSessionsStep, JoinStep, ConvertStep, UnlistStep, RewriteStep
    DEF Main
<1>4. CASE Boot \/ Kill
  BY <1>1, <1>4 DEF Kill
<1>5. ASSUME NEW r \in Requests, Session(r) \/ StreamerEnds(r) PROVE IInv'
  BY <1>1, <1>2, <1>5, SessionStep
<1>6. CASE \/ \E r \in Requests : Queue(r) \/ Tick(r)
           \/ ClearSchedule \/ RequestShutdown \/ EditEnds \/ MemtreeDies
           \/ \E e \in Requests \cup {"shutdown"} : EditBegins(e)
           \/ UNCHANGED vars
  BY <1>2, <1>6, ClientStep DEF Entries
<1> QED
  BY <1>3, <1>4, <1>5, <1>6 DEF Next

\* The invariant holds in every state of the daemon, its sessions and its clients.
THEOREM Invariance == Spec => []IInv
<1>1. Init => IInv
  BY InitInv
<1>2. IInv /\ [Next]_vars => IInv'
  BY NextInv
<1> QED
  BY <1>1, <1>2, PTL DEF Spec

\* When the daemon goes to sleep in poll with nothing to read from its watch, its events
\* are the entries of the file and its lock is given up, however the daemon, the clients
\* and vbs_schedulerm have written the file in between (check_schedule,
\* remove_from_cfgsched, the loop of main).
THEOREM ScheduleFollowsFile == Spec => []ScheduleInStep
<1>1. IInv => ScheduleInStep
  BY DEF IInv, StepInv, ScheduleInStep
<1> QED
  BY <1>1, Invariance, PTL

\* No write of the daemon's takes the entry of a session that runs out of the file, so a
\* daemon that dies finds it again (free_and_close, remove_from_cfgsched, add_recording).
THEOREM EntryStays == Spec => []EntryOutlivesSession
<1>1. IInv => EntryOutlivesSession
  BY DEF IInv, KnownInv, KnownIn, Active, EntryOutlivesSession
<1> QED
  BY <1>1, Invariance, PTL

\* A recording's index counts its sessions and has the mark of a recorder exactly while
\* one is there, so two sessions never record under one name (init_cfg, afi_add,
\* afi_disassociate).
THEOREM IndexCorrect == Spec => []IndexMatchesSessions
<1>1. IInv => IndexMatchesSessions
  BY DEF IInv
<1> QED
  BY <1>1, Invariance, PTL

=============================================================================
