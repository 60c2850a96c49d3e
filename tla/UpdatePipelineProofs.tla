------------------------ MODULE UpdatePipelineProofs ------------------------
(***************************************************************************)
(* The invariant of UpdatePipeline for every number of archives and of     *)
(* threads, and what follows from it for the value the call returns.       *)
(***************************************************************************)
EXTENDS UpdatePipeline, SequenceTheorems, TLAPS

\* resolve_jobs and the clamp of --download-jobs give at least one thread of
\* each kind.
LEMMA ThreadCounts ==
  /\ parse_jobs \in Nat \ {0}
  /\ download_jobs \in Nat \ {0}
BY SizeAssumption, FlagAssumption, MachineAssumption
   DEF parse_jobs, download_jobs, resolve_jobs, AtMost, AtLeast

\* A function on an initial interval is a sequence.
LEMMA FunctionIsSeq ==
  ASSUME NEW n \in Nat, NEW S, NEW f \in [1 .. n -> S]
  PROVE  f \in Seq(S)
<1>1. [1 .. n -> S] \in {[1 .. m -> S] : m \in Nat}
  OBVIOUS
<1> QED BY <1>1, SeqDef, Zenon

\* Taking the front of a non-empty sequence of archives.
LEMMA TakeFront ==
  ASSUME NEW s \in Seq(Archives), s # << >>
  PROVE  /\ Head(s) \in Archives
         /\ Tail(s) \in Seq(Archives)
         /\ \A k \in DOMAIN s : \/ s[k] = Head(s)
                                \/ \E l \in DOMAIN Tail(s) : Tail(s)[l] = s[k]
         /\ \A l \in DOMAIN Tail(s) : \E k \in DOMAIN s : Tail(s)[l] = s[k]
         /\ \E k \in DOMAIN s : s[k] = Head(s)
<1>1. Len(s) \in Nat \ {0} /\ DOMAIN s = 1 .. Len(s)
  OBVIOUS
<1>2. /\ Head(s) = s[1] /\ Tail(s) \in Seq(Archives)
      /\ Len(Tail(s)) = Len(s) - 1
      /\ \A l \in 1 .. Len(s) - 1 : Tail(s)[l] = s[l + 1]
      /\ DOMAIN Tail(s) = 1 .. Len(s) - 1
  OBVIOUS
<1>3. ASSUME NEW k \in DOMAIN s
      PROVE  s[k] = Head(s) \/ \E l \in DOMAIN Tail(s) : Tail(s)[l] = s[k]
  <2>1. CASE k = 1
    BY <2>1, <1>2
  <2>2. CASE k # 1
    <3>1. k - 1 \in DOMAIN Tail(s) /\ Tail(s)[k - 1] = s[k]
      BY <2>2, <1>1, <1>2
    <3> QED BY <3>1
  <2> QED BY <2>1, <2>2
<1>4. ASSUME NEW l \in DOMAIN Tail(s)
      PROVE  \E k \in DOMAIN s : Tail(s)[l] = s[k]
  <2>1. l + 1 \in DOMAIN s /\ Tail(s)[l] = s[l + 1]
    BY <1>1, <1>2
  <2> QED BY <2>1
<1>5. 1 \in DOMAIN s /\ s[1] \in Archives
  BY <1>1
<1> QED BY <1>2, <1>3, <1>4, <1>5

\* Adding an archive at the end of a sequence.
LEMMA AddBack ==
  ASSUME NEW s \in Seq(Archives), NEW i \in Archives
  PROVE  /\ Append(s, i) \in Seq(Archives)
         /\ \A k \in DOMAIN s : k \in DOMAIN Append(s, i) /\ Append(s, i)[k] = s[k]
         /\ \E k \in DOMAIN Append(s, i) : Append(s, i)[k] = i
         /\ \A k \in DOMAIN Append(s, i) :
              Append(s, i)[k] = i \/ \E l \in DOMAIN s : Append(s, i)[k] = s[l]
<1>1. /\ Append(s, i) \in Seq(Archives) /\ Len(s) \in Nat
      /\ DOMAIN s = 1 .. Len(s)
      /\ DOMAIN Append(s, i) = 1 .. Len(s) + 1
      /\ \A k \in 1 .. Len(s) : Append(s, i)[k] = s[k]
      /\ Append(s, i)[Len(s) + 1] = i
  OBVIOUS
<1>2. ASSUME NEW k \in DOMAIN Append(s, i)
      PROVE  Append(s, i)[k] = i \/ \E l \in DOMAIN s : Append(s, i)[k] = s[l]
  <2>1. k = Len(s) + 1 \/ k \in DOMAIN s
    BY <1>1
  <2> QED BY <1>1, <2>1
<1>3. Len(s) + 1 \in DOMAIN Append(s, i)
  BY <1>1
<1> QED BY <1>1, <1>2, <1>3

\* The invariant holds when the threads start.
LEMMA InitInv == Init => Inv
<1> SUFFICES ASSUME Init PROVE Inv
  OBVIOUS
<1> USE ThreadCounts, SizeAssumption
<1>1. TypeOK
  <2>1. queue \in Seq(Archives)
    <3>1. [i \in 1 .. N |-> i] \in [1 .. N -> Archives] /\ N \in Nat
      BY DEF Archives
    <3>2. [i \in 1 .. N |-> i] \in Seq(Archives)
      BY <3>1, FunctionIsSeq
    <3> QED BY <3>2 DEF Init, Archives
  <2>2. /\ chan \in Seq(Archives) /\ rx \in 0 .. parse_jobs
        /\ cached \in SUBSET Archives
        /\ fate \in [Archives -> Fates]
        /\ slots \in [Archives -> {"none", "parsed", "empty", "err"}]
    BY DEF Init, Nobody
  <2>3. /\ dpc \in [Downloaders -> DownloadSteps] /\ dix \in [Downloaders -> 0 .. N]
        /\ ppc \in [Parsers -> ParseSteps] /\ pix \in [Parsers -> 0 .. N]
    BY DEF Init, DownloadSteps, ParseSteps, Nobody
  <2>4. cancel \in BOOLEAN /\ announced \in BOOLEAN
    BY Zenon DEF Init
  <2>5. main \in {"join", "announced", "returned"}
    BY DEF Init
  <2>6. result \in Results
    <3>1. 0 \in 0 .. N
      OBVIOUS
    <3> QED BY <3>1, Zenon DEF Init, Results
  <2> QED BY <2>1, <2>2, <2>3, <2>4, <2>5, <2>6 DEF TypeOK
<1>2. NothingLost
  <2> SUFFICES ASSUME NEW i \in Archives PROVE Queued(i)
    BY DEF NothingLost, Held
  <2>1. DOMAIN queue = Archives /\ queue[i] = i
    BY DEF Init
  <2> QED BY <2>1 DEF Queued
<1>3. HandsAgree
  BY DEF Init, HandsAgree, Nobody
<1>4. EndsAgree
  BY DEF Init, EndsAgree
<1>5. FilesAgree
  BY DEF Init, FilesAgree, Nobody
<1>6. MergeAgrees /\ OkMeansAllParsed
  BY DEF Init, MergeAgrees, OkMeansAllParsed
<1> QED BY <1>1, <1>2, <1>3, <1>4, <1>5, <1>6 DEF Inv

\* While a thread works the caller waits: nothing has been merged or returned.
LEMMA CallerWaits ==
  ASSUME Inv, \/ \E d \in Downloaders : dpc[d] # "done"
              \/ \E p \in Parsers : ppc[p] \notin {"done", "panicked"}
  PROVE  main = "join" /\ result.kind = "running"
BY DEF Inv, EndsAgree, ThreadsEnded

\* Nothing to show about the merge as long as the caller waits.
LEMMA NotMerged ==
  ASSUME main = "join", result.kind = "running", UNCHANGED <<main, result>>
  PROVE  MergeAgrees' /\ OkMeansAllParsed'
BY DEF MergeAgrees, OkMeansAllParsed

\* Taking an index from the queue preserves the invariant.
LEMMA PopFrontInv ==
  ASSUME Inv, NEW d \in Downloaders, PopFront(d) PROVE Inv'
<1> USE DEF PopFront, DownloadGoto
<1>1. TypeOK /\ main = "join" /\ result.kind = "running"
  BY CallerWaits DEF Inv
<1> DEFINE h == Head(queue)
<1>2. /\ h \in Archives /\ queue' \in Seq(Archives)
      /\ \A k \in DOMAIN queue : \/ queue[k] = h
                                 \/ \E l \in DOMAIN queue' : queue'[l] = queue[k]
  BY <1>1, TakeFront DEF TypeOK
<1>3. h # Nobody /\ h \in 0 .. N
  BY <1>2, SizeAssumption DEF Archives, Nobody
<1>4. /\ dpc' = [dpc EXCEPT ![d] = "check"] /\ dix' = [dix EXCEPT ![d] = h]
      /\ dpc \in [Downloaders -> DownloadSteps] /\ dix \in [Downloaders -> 0 .. N]
      /\ dpc[d] = "pop"
  BY <1>1 DEF TypeOK
<1>5. TypeOK'
  <2>1. dpc' \in [Downloaders -> DownloadSteps] /\ dix' \in [Downloaders -> 0 .. N]
    BY <1>3, <1>4 DEF DownloadSteps
  <2> QED BY <1>1, <1>2, <2>1 DEF TypeOK
<1>6. dix[d] = Nobody
  BY <1>4 DEF Inv, HandsAgree
<1>7. NothingLost'
  <2> SUFFICES ASSUME NEW i \in Archives, slots[i] = "none", ~cancel, Panicked = {}
               PROVE  Held(i)'
    BY DEF NothingLost, Panicked
  <2>1. Held(i)
    BY DEF Inv, NothingLost
  <2>2. CASE Queued(i)
    <3>1. i = h \/ Queued(i)'
      BY <2>2, <1>2 DEF Queued
    <3>2. dix'[d] = h
      BY <1>4
    <3> QED BY <3>1, <3>2 DEF Held
  <2>3. CASE Sent(i)
    BY <2>3 DEF Sent, Held
  <2>4. CASE \E e \in Downloaders : dix[e] = i
    <3>1. PICK e \in Downloaders : dix[e] = i
      BY <2>4
    <3>2. i # Nobody
      BY SizeAssumption DEF Archives, Nobody
    <3>3. e # d
      BY <3>1, <3>2, <1>6
    <3>4. dix'[e] = i
      BY <3>1, <3>3, <1>4
    <3> QED BY <3>4 DEF Held
  <2>5. CASE \E p \in Parsers : pix[p] = i
    BY <2>5 DEF Held
  <2> QED BY <2>1, <2>2, <2>3, <2>4, <2>5 DEF Held
<1>8. HandsAgree'
  BY <1>3, <1>4 DEF Inv, HandsAgree
<1>9. EndsAgree'
  <2>1. queue # << >> => \A e \in Downloaders : dpc[e] = "done" => cancel
    BY DEF Inv, EndsAgree
  <2>2. \A p \in Parsers : ppc[p] # "done"
    BY <1>4 DEF Inv, EndsAgree
  <2> QED BY <1>1, <1>4, <2>1, <2>2 DEF EndsAgree
<1>10. FilesAgree'
  BY <1>4 DEF Inv, FilesAgree
<1> QED BY <1>1, <1>5, <1>7, <1>8, <1>9, <1>10, NotMerged DEF Inv

\* Ending on an empty queue preserves the invariant.
LEMMA QueueEmptyInv ==
  ASSUME Inv, NEW d \in Downloaders, QueueEmpty(d) PROVE Inv'
<1> USE DEF QueueEmpty, DownloadGoto
<1>1. TypeOK /\ main = "join" /\ result.kind = "running"
  BY CallerWaits DEF Inv
<1>2. /\ dpc' = [dpc EXCEPT ![d] = "done"] /\ dix' = [dix EXCEPT ![d] = Nobody]
      /\ dpc \in [Downloaders -> DownloadSteps] /\ dix \in [Downloaders -> 0 .. N]
      /\ dpc[d] = "pop"
  BY <1>1 DEF TypeOK
<1>3. dix[d] = Nobody /\ dix' = dix
  BY <1>2 DEF Inv, HandsAgree
<1>4. TypeOK'
  <2>1. dpc' \in [Downloaders -> DownloadSteps]
    BY <1>2 DEF DownloadSteps
  <2> QED BY <1>1, <1>3, <2>1 DEF TypeOK
<1>5. NothingLost'
  BY <1>3 DEF Inv, NothingLost, Held, Queued, Sent, Panicked
<1>6. HandsAgree'
  BY <1>2, <1>3 DEF Inv, HandsAgree
<1>7. EndsAgree'
  BY <1>1, <1>2 DEF Inv, EndsAgree
<1>8. FilesAgree'
  BY <1>2, <1>3 DEF Inv, FilesAgree
<1> QED BY <1>1, <1>4, <1>5, <1>6, <1>7, <1>8, NotMerged DEF Inv

\* Looking at the flag with an index in hand preserves the invariant.
LEMMA CheckCancelInv ==
  ASSUME Inv, NEW d \in Downloaders, CheckCancel(d) PROVE Inv'
<1> USE DEF CheckCancel, DownloadGoto
<1>1. TypeOK /\ main = "join" /\ result.kind = "running"
  BY CallerWaits DEF Inv
<1>2. /\ dpc \in [Downloaders -> DownloadSteps] /\ dix \in [Downloaders -> 0 .. N]
      /\ dpc[d] = "check" /\ dix[d] # Nobody
  BY <1>1 DEF TypeOK, Inv, HandsAgree
<1>3. CASE cancel
  <2>1. dpc' = [dpc EXCEPT ![d] = "done"] /\ dix' = [dix EXCEPT ![d] = Nobody]
    BY <1>3
  <2>2. TypeOK'
    <3>1. dpc' \in [Downloaders -> DownloadSteps] /\ dix' \in [Downloaders -> 0 .. N]
      BY <1>2, <2>1, SizeAssumption DEF DownloadSteps, Nobody
    <3> QED BY <1>1, <3>1 DEF TypeOK
  <2>3. NothingLost'
    BY <1>3 DEF NothingLost
  <2>4. HandsAgree'
    BY <1>2, <2>1 DEF Inv, HandsAgree
  <2>5. EndsAgree'
    BY <1>1, <1>2, <1>3, <2>1 DEF Inv, EndsAgree
  <2>6. FilesAgree'
    BY <1>2, <2>1 DEF Inv, FilesAgree
  <2> QED BY <1>1, <2>2, <2>3, <2>4, <2>5, <2>6, NotMerged DEF Inv
<1>4. CASE ~cancel
  <2>1. dpc' = [dpc EXCEPT ![d] = "cache"] /\ dix' = dix
    BY <1>2, <1>4
  <2>2. TypeOK'
    <3>1. dpc' \in [Downloaders -> DownloadSteps]
      BY <1>2, <2>1 DEF DownloadSteps
    <3> QED BY <1>1, <2>1, <3>1 DEF TypeOK
  <2>3. NothingLost'
    BY <2>1 DEF Inv, NothingLost, Held, Queued, Sent, Panicked
  <2>4. HandsAgree'
    BY <1>2, <2>1 DEF Inv, HandsAgree
  <2>5. EndsAgree'
    BY <1>1, <1>2, <2>1 DEF Inv, EndsAgree
  <2>6. FilesAgree'
    BY <1>2, <2>1 DEF Inv, FilesAgree
  <2> QED BY <1>1, <2>2, <2>3, <2>4, <2>5, <2>6, NotMerged DEF Inv
<1> QED BY <1>3, <1>4


\* Caching an archive, or failing to preserves the invariant.
LEMMA CacheArchiveInv ==
  ASSUME Inv, NEW d \in Downloaders, CacheArchive(d) PROVE Inv'
<1> USE DEF CacheArchive, DownloadGoto
<1> DEFINE i == dix[d]
<1>1. TypeOK /\ main = "join" /\ result.kind = "running"
  BY CallerWaits DEF Inv
<1>2. /\ dpc \in [Downloaders -> DownloadSteps] /\ dix \in [Downloaders -> 0 .. N]
      /\ slots \in [Archives -> {"none", "parsed", "empty", "err"}]
      /\ dpc[d] = "cache" /\ i # Nobody
  BY <1>1 DEF TypeOK, Inv, HandsAgree
<1>3. i \in Archives
  BY <1>2, SizeAssumption DEF Archives, Nobody
<1>4. CASE fate[i] # "unobtainable"
  <2>1. /\ dpc' = [dpc EXCEPT ![d] = "send"] /\ dix' = dix
        /\ cached' = cached \cup {i} /\ UNCHANGED slots
    BY <1>2, <1>4
  <2>2. TypeOK'
    <3>1. dpc' \in [Downloaders -> DownloadSteps]
      BY <1>2, <2>1 DEF DownloadSteps
    <3>2. cached' \in SUBSET Archives
      BY <1>1, <1>3, <2>1 DEF TypeOK
    <3> QED BY <1>1, <2>1, <3>1, <3>2 DEF TypeOK
  <2>3. NothingLost'
    BY <2>1 DEF Inv, NothingLost, Held, Queued, Sent, Panicked
  <2>4. HandsAgree'
    BY <1>2, <2>1 DEF Inv, HandsAgree
  <2>5. EndsAgree'
    BY <1>1, <1>2, <2>1 DEF Inv, EndsAgree
  <2>6. FilesAgree'
    BY <1>2, <1>4, <2>1 DEF Inv, FilesAgree
  <2> QED BY <1>1, <2>2, <2>3, <2>4, <2>5, <2>6, NotMerged DEF Inv
<1>5. CASE fate[i] = "unobtainable"
  <2>1. /\ dpc' = [dpc EXCEPT ![d] = "pop"] /\ dix' = [dix EXCEPT ![d] = Nobody]
        /\ slots' = [slots EXCEPT ![i] = "err"] /\ UNCHANGED cached
    BY <1>5
  <2>2. TypeOK'
    <3>1. dpc' \in [Downloaders -> DownloadSteps] /\ dix' \in [Downloaders -> 0 .. N]
      BY <1>2, <2>1, SizeAssumption DEF DownloadSteps, Nobody
    <3>2. slots' \in [Archives -> {"none", "parsed", "empty", "err"}]
      BY <1>2, <2>1
    <3> QED BY <1>1, <2>1, <3>1, <3>2 DEF TypeOK
  <2>3. NothingLost'
    <3> SUFFICES ASSUME NEW k \in Archives, slots'[k] = "none", ~cancel, Panicked = {}
                 PROVE  Held(k)'
      BY DEF NothingLost, Panicked
    <3>1. k # i /\ slots[k] = "none"
      BY <1>2, <1>3, <2>1
    <3>2. Held(k)
      BY <3>1 DEF Inv, NothingLost
    <3>3. \A e \in Downloaders : dix[e] = k => dix'[e] = k
      BY <1>2, <2>1, <3>1
    <3> QED BY <3>2, <3>3 DEF Held, Queued, Sent
  <2>4. HandsAgree'
    BY <1>2, <2>1 DEF Inv, HandsAgree
  <2>5. EndsAgree'
    BY <1>1, <1>2, <2>1 DEF Inv, EndsAgree
  <2>6. FilesAgree'
    <3>1. \A e \in Downloaders : dpc'[e] = "send" => dpc[e] = "send" /\ dix'[e] = dix[e]
      BY <1>2, <2>1
    <3>2. \A k \in Archives : k # i => slots'[k] = slots[k]
      BY <1>2, <2>1
    <3>3. slots'[i] = "err"
      BY <1>2, <1>3, <2>1
    <3> QED BY <1>5, <2>1, <3>1, <3>2, <3>3 DEF Inv, FilesAgree
  <2> QED BY <1>1, <2>2, <2>3, <2>4, <2>5, <2>6, NotMerged DEF Inv
<1> QED BY <1>4, <1>5

\* Sending an index preserves the invariant.
LEMMA SendInv ==
  ASSUME Inv, NEW d \in Downloaders, Send(d) PROVE Inv'
<1> USE DEF Send, DownloadGoto
<1> DEFINE i == dix[d]
<1>1. TypeOK /\ main = "join" /\ result.kind = "running"
  BY CallerWaits DEF Inv
<1>2. /\ dpc \in [Downloaders -> DownloadSteps] /\ dix \in [Downloaders -> 0 .. N]
      /\ chan \in Seq(Archives) /\ dpc[d] = "send" /\ i # Nobody /\ i \in cached
  BY <1>1 DEF TypeOK, Inv, HandsAgree, FilesAgree
<1>3. i \in Archives
  BY <1>2, SizeAssumption DEF Archives, Nobody
<1>4. /\ dpc' = [dpc EXCEPT ![d] = "pop"] /\ dix' = [dix EXCEPT ![d] = Nobody]
      /\ chan' = Append(chan, i)
  OBVIOUS
<1>5. /\ chan' \in Seq(Archives)
      /\ \A k \in DOMAIN chan : k \in DOMAIN chan' /\ chan'[k] = chan[k]
      /\ \E k \in DOMAIN chan' : chan'[k] = i
      /\ \A k \in DOMAIN chan' : chan'[k] = i \/ \E l \in DOMAIN chan : chan'[k] = chan[l]
  BY <1>2, <1>3, <1>4, AddBack
<1>6. TypeOK'
  <2>1. dpc' \in [Downloaders -> DownloadSteps] /\ dix' \in [Downloaders -> 0 .. N]
    BY <1>2, <1>4, SizeAssumption DEF DownloadSteps, Nobody
  <2> QED BY <1>1, <1>5, <2>1 DEF TypeOK
<1>7. NothingLost'
  <2> SUFFICES ASSUME NEW k \in Archives, slots[k] = "none", ~cancel, Panicked = {}
               PROVE  Held(k)'
    BY DEF NothingLost, Panicked
  <2>1. CASE k = i
    BY <2>1, <1>5 DEF Held, Sent
  <2>2. CASE k # i
    <3>1. Held(k)
      BY DEF Inv, NothingLost
    <3>2. \A e \in Downloaders : dix[e] = k => dix'[e] = k
      BY <1>2, <1>4, <2>2
    <3>3. Sent(k) => Sent(k)'
      BY <1>5 DEF Sent
    <3> QED BY <3>1, <3>2, <3>3 DEF Held, Queued
  <2> QED BY <2>1, <2>2
<1>8. HandsAgree'
  BY <1>2, <1>4 DEF Inv, HandsAgree
<1>9. EndsAgree'
  <2>1. \A p \in Parsers : ppc[p] # "done"
    BY <1>2 DEF Inv, EndsAgree
  <2> QED BY <1>1, <1>2, <1>4, <2>1 DEF Inv, EndsAgree
<1>10. FilesAgree'
  <2>1. \A e \in Downloaders : dpc'[e] = "send" => dpc[e] = "send" /\ dix'[e] = dix[e]
    BY <1>2, <1>4
  <2>2. \A k \in DOMAIN chan' : chan'[k] \in cached
    BY <1>2, <1>5 DEF Inv, FilesAgree
  <2> QED BY <2>1, <2>2 DEF Inv, FilesAgree
<1> QED BY <1>1, <1>6, <1>7, <1>8, <1>9, <1>10, NotMerged DEF Inv

\* Locking the receiver preserves the invariant.
LEMMA LockReceiverInv ==
  ASSUME Inv, NEW p \in Parsers, LockReceiver(p) PROVE Inv'
<1> USE DEF LockReceiver, ParseGoto
<1>1. TypeOK /\ main = "join" /\ result.kind = "running"
  BY CallerWaits DEF Inv
<1>2. /\ ppc \in [Parsers -> ParseSteps] /\ pix \in [Parsers -> 0 .. N]
      /\ ppc[p] = "lock" /\ pix[p] = Nobody
  BY <1>1 DEF TypeOK, Inv, HandsAgree
<1>3. ppc' = [ppc EXCEPT ![p] = "recv"] /\ pix' = pix
  BY <1>2
<1>4. TypeOK'
  <2>1. ppc' \in [Parsers -> ParseSteps]
    BY <1>2, <1>3 DEF ParseSteps
  <2>2. rx' \in 0 .. parse_jobs
    BY ThreadCounts DEF Parsers
  <2> QED BY <1>1, <1>3, <2>1, <2>2 DEF TypeOK
<1>5. Panicked' = Panicked
  BY <1>2, <1>3 DEF Panicked
<1>6. NothingLost'
  BY <1>3, <1>5 DEF Inv, NothingLost, Held, Queued, Sent
<1>7. HandsAgree'
  BY <1>2, <1>3 DEF Inv, HandsAgree
<1>8. EndsAgree'
  BY <1>1, <1>2, <1>3 DEF Inv, EndsAgree
<1>9. FilesAgree'
  BY <1>3 DEF Inv, FilesAgree
<1> QED BY <1>1, <1>4, <1>6, <1>7, <1>8, <1>9, NotMerged DEF Inv

\* Receiving an index preserves the invariant.
LEMMA ReceiveInv ==
  ASSUME Inv, NEW p \in Parsers, Receive(p) PROVE Inv'
<1> USE DEF Receive, ParseGoto
<1> DEFINE i == Head(chan)
<1>1. TypeOK /\ main = "join" /\ result.kind = "running"
  BY CallerWaits DEF Inv
<1>2. /\ ppc \in [Parsers -> ParseSteps] /\ pix \in [Parsers -> 0 .. N]
      /\ chan \in Seq(Archives) /\ chan # << >>
      /\ ppc[p] = "recv" /\ pix[p] = Nobody
  BY <1>1 DEF TypeOK, Inv, HandsAgree
<1>3. /\ ppc' = [ppc EXCEPT ![p] = "parse"] /\ pix' = [pix EXCEPT ![p] = i]
      /\ chan' = Tail(chan)
  OBVIOUS
<1>4. /\ i \in Archives /\ chan' \in Seq(Archives)
      /\ \A k \in DOMAIN chan : \/ chan[k] = i
                                \/ \E l \in DOMAIN chan' : chan'[l] = chan[k]
      /\ \A l \in DOMAIN chan' : \E k \in DOMAIN chan : chan'[l] = chan[k]
      /\ \E k \in DOMAIN chan : chan[k] = i
  BY <1>2, <1>3, TakeFront
<1>5. i # Nobody /\ i \in 0 .. N
  BY <1>4, SizeAssumption DEF Archives, Nobody
<1>6. TypeOK'
  <2>1. ppc' \in [Parsers -> ParseSteps] /\ pix' \in [Parsers -> 0 .. N]
    BY <1>2, <1>3, <1>5 DEF ParseSteps
  <2>2. rx' \in 0 .. parse_jobs
    BY ThreadCounts DEF Nobody
  <2> QED BY <1>1, <1>4, <2>1, <2>2 DEF TypeOK
<1>7. Panicked' = Panicked
  BY <1>2, <1>3 DEF Panicked
<1>8. NothingLost'
  <2> SUFFICES ASSUME NEW k \in Archives, slots[k] = "none", ~cancel, Panicked = {}
               PROVE  Held(k)'
    BY <1>7 DEF NothingLost
  <2>1. Held(k) /\ k # Nobody
    BY SizeAssumption DEF Inv, NothingLost, Archives, Nobody
  <2>2. pix'[p] = i
    BY <1>2, <1>3
  <2>3. Sent(k) => k = i \/ Sent(k)'
    BY <1>4 DEF Sent
  <2>4. \A q \in Parsers : pix[q] = k => pix'[q] = k
    BY <1>2, <1>3, <2>1
  <2> QED BY <2>1, <2>2, <2>3, <2>4 DEF Held, Queued
<1>9. HandsAgree'
  BY <1>2, <1>3, <1>5 DEF Inv, HandsAgree
<1>10. EndsAgree'
  <2>1. \A q \in Parsers : ppc[q] # "done"
    BY <1>2 DEF Inv, EndsAgree
  <2> QED BY <1>1, <1>2, <1>3, <2>1 DEF Inv, EndsAgree
<1>11. FilesAgree'
  <2>1. i \in cached /\ \A k \in DOMAIN chan' : chan'[k] \in cached
    BY <1>4 DEF Inv, FilesAgree
  <2> QED BY <1>2, <1>3, <2>1 DEF Inv, FilesAgree
<1> QED BY <1>1, <1>6, <1>8, <1>9, <1>10, <1>11, NotMerged DEF Inv


\* Ending when no sender is left preserves the invariant.
LEMMA DisconnectedInv ==
  ASSUME Inv, NEW p \in Parsers, Disconnected(p) PROVE Inv'
<1> USE DEF Disconnected, ParseGoto
<1>1. TypeOK /\ main = "join" /\ result.kind = "running"
  BY CallerWaits DEF Inv
<1>2. /\ ppc \in [Parsers -> ParseSteps] /\ pix \in [Parsers -> 0 .. N]
      /\ ppc[p] = "recv" /\ pix[p] = Nobody
  BY <1>1 DEF TypeOK, Inv, HandsAgree
<1>3. ppc' = [ppc EXCEPT ![p] = "done"] /\ pix' = pix
  BY <1>2
<1>4. TypeOK'
  <2>1. ppc' \in [Parsers -> ParseSteps]
    BY <1>2, <1>3 DEF ParseSteps
  <2>2. rx' \in 0 .. parse_jobs
    BY ThreadCounts DEF Nobody
  <2> QED BY <1>1, <1>3, <2>1, <2>2 DEF TypeOK
<1>5. Panicked' = Panicked
  BY <1>2, <1>3 DEF Panicked
<1>6. NothingLost'
  BY <1>3, <1>5 DEF Inv, NothingLost, Held, Queued, Sent
<1>7. HandsAgree'
  BY <1>2, <1>3 DEF Inv, HandsAgree
<1>8. EndsAgree'
  BY <1>1, <1>2, <1>3 DEF Inv, EndsAgree
<1>9. FilesAgree'
  BY <1>3 DEF Inv, FilesAgree
<1> QED BY <1>1, <1>4, <1>6, <1>7, <1>8, <1>9, NotMerged DEF Inv

\* Writing a slot preserves the invariant.
LEMMA ProcessFileInv ==
  ASSUME Inv, NEW p \in Parsers, ProcessFile(p) PROVE Inv'
<1> USE DEF ProcessFile, ParseGoto
<1> DEFINE i == pix[p]
           r == IF fate[i] = "good" THEN "parsed" ELSE "empty"
<1>1. TypeOK /\ main = "join" /\ result.kind = "running"
  BY CallerWaits DEF Inv
<1>2. /\ ppc \in [Parsers -> ParseSteps] /\ pix \in [Parsers -> 0 .. N]
      /\ slots \in [Archives -> {"none", "parsed", "empty", "err"}]
      /\ ppc[p] = "parse" /\ i # Nobody /\ i \in cached /\ i \in Archives
  BY <1>1, SizeAssumption DEF TypeOK, Inv, HandsAgree, FilesAgree
<1>3. /\ ppc' = [ppc EXCEPT ![p] = "lock"] /\ pix' = [pix EXCEPT ![p] = Nobody]
      /\ slots' = [slots EXCEPT ![i] = r] /\ r \in {"parsed", "empty"}
  OBVIOUS
<1>4. TypeOK'
  <2>1. ppc' \in [Parsers -> ParseSteps] /\ pix' \in [Parsers -> 0 .. N]
    BY <1>2, <1>3, SizeAssumption DEF ParseSteps, Nobody
  <2>2. slots' \in [Archives -> {"none", "parsed", "empty", "err"}]
    BY <1>2, <1>3
  <2> QED BY <1>1, <2>1, <2>2 DEF TypeOK
<1>5. Panicked' = Panicked
  BY <1>2, <1>3 DEF Panicked
<1>6. NothingLost'
  <2> SUFFICES ASSUME NEW k \in Archives, slots'[k] = "none", ~cancel, Panicked = {}
               PROVE  Held(k)'
    BY <1>5 DEF NothingLost
  <2>1. k # i /\ slots[k] = "none"
    BY <1>2, <1>3
  <2>2. Held(k)
    BY <2>1 DEF Inv, NothingLost
  <2>3. \A q \in Parsers : pix[q] = k => pix'[q] = k
    BY <1>2, <1>3, <2>1
  <2> QED BY <2>2, <2>3 DEF Held, Queued, Sent
<1>7. HandsAgree'
  BY <1>2, <1>3 DEF Inv, HandsAgree
<1>8. EndsAgree'
  BY <1>1, <1>2, <1>3 DEF Inv, EndsAgree
<1>9. FilesAgree'
  <2>1. \A q \in Parsers : pix'[q] # Nobody => pix'[q] = pix[q]
    BY <1>2, <1>3
  <2>2. \A k \in Archives : k # i => slots'[k] = slots[k]
    BY <1>2, <1>3
  <2>3. slots'[i] \in {"parsed", "empty"}
    BY <1>2, <1>3
  <2> QED BY <1>2, <2>1, <2>2, <2>3 DEF Inv, FilesAgree
<1> QED BY <1>1, <1>4, <1>6, <1>7, <1>8, <1>9, NotMerged DEF Inv

\* A panic preserves the invariant.
LEMMA PanicInv ==
  ASSUME Inv, NEW p \in Parsers, Panic(p) PROVE Inv'
<1> USE DEF Panic, ParseGoto
<1>1. TypeOK /\ main = "join" /\ result.kind = "running"
  BY CallerWaits DEF Inv
<1>2. /\ ppc \in [Parsers -> ParseSteps] /\ pix \in [Parsers -> 0 .. N]
      /\ ppc[p] = "parse"
  BY <1>1 DEF TypeOK
<1>3. ppc' = [ppc EXCEPT ![p] = "panicked"] /\ pix' = [pix EXCEPT ![p] = Nobody]
  OBVIOUS
<1>4. TypeOK'
  <2>1. ppc' \in [Parsers -> ParseSteps] /\ pix' \in [Parsers -> 0 .. N]
    BY <1>2, <1>3, SizeAssumption DEF ParseSteps, Nobody
  <2> QED BY <1>1, <2>1 DEF TypeOK
<1>5. p \in Panicked'
  BY <1>2, <1>3 DEF Panicked
<1>6. NothingLost'
  BY <1>5 DEF NothingLost
<1>7. HandsAgree'
  BY <1>2, <1>3 DEF Inv, HandsAgree
<1>8. EndsAgree'
  BY <1>1, <1>2, <1>3 DEF Inv, EndsAgree
<1>9. FilesAgree'
  <2>1. \A q \in Parsers : pix'[q] # Nobody => pix'[q] = pix[q]
    BY <1>2, <1>3
  <2> QED BY <2>1 DEF Inv, FilesAgree
<1> QED BY <1>1, <1>4, <1>6, <1>7, <1>8, <1>9, NotMerged DEF Inv

\* Setting the flag preserves the invariant.
LEMMA SetCancelInv ==
  ASSUME Inv, SetCancel PROVE Inv'
<1> USE DEF SetCancel, threadVars
<1>1. TypeOK'
  BY DEF Inv, TypeOK
<1>2. NothingLost'
  BY DEF NothingLost
<1>3. HandsAgree' /\ FilesAgree'
  BY DEF Inv, HandsAgree, FilesAgree
<1>4. EndsAgree'
  BY DEF Inv, EndsAgree, ThreadsEnded
<1>5. MergeAgrees'
  BY DEF Inv, MergeAgrees, Panicked, Failed
<1>6. OkMeansAllParsed'
  BY DEF Inv, OkMeansAllParsed
<1> QED BY <1>1, <1>2, <1>3, <1>4, <1>5, <1>6 DEF Inv

\* All threads ended without a panic and nobody asked to stop: every archive
\* has a result.
LEMMA AllSettled ==
  ASSUME Inv, ThreadsEnded, Panicked = {}, ~cancel
  PROVE  \A i \in Archives : slots[i] # "none"
<1>1. \A p \in Parsers : ppc[p] = "done" /\ pix[p] = Nobody
  BY DEF ThreadsEnded, Panicked, Inv, HandsAgree
<1>2. \A d \in Downloaders : dpc[d] = "done" /\ dix[d] = Nobody
  BY DEF ThreadsEnded, Inv, HandsAgree
<1>3. 1 \in Parsers /\ 1 \in Downloaders
  BY ThreadCounts DEF Parsers, Downloaders
<1>4. chan = << >> /\ queue = << >>
  BY <1>1, <1>2, <1>3 DEF Inv, EndsAgree
<1>5. ASSUME NEW i \in Archives PROVE ~Held(i)
  <2>1. i # Nobody
    BY SizeAssumption DEF Archives, Nobody
  <2>2. ~Queued(i) /\ ~Sent(i)
    BY <1>4 DEF Queued, Sent
  <2> QED BY <1>1, <1>2, <2>1, <2>2 DEF Held
<1> QED BY <1>5 DEF Inv, NothingLost

\* The end of the scope and the merge preserves the invariant.
LEMMA JoinInv ==
  ASSUME Inv, Join PROVE Inv'
<1> USE DEF Join, threadVars, Return
<1>1. main = "join" /\ result.kind = "running" /\ TypeOK
  BY DEF Inv, EndsAgree
<1>2. NothingLost'
  BY DEF Inv, NothingLost, Held, Queued, Sent, Panicked
<1>3. HandsAgree' /\ FilesAgree'
  BY DEF Inv, HandsAgree, FilesAgree
<1>4. CASE Panicked # {}
  <2>1. main' = "returned" /\ result' = [kind |-> "panic", at |-> 0] /\ UNCHANGED announced
    BY <1>4
  <2>2. result' \in Results
    <3>1. 0 \in 0 .. N
      BY SizeAssumption
    <3> QED BY <2>1, <3>1, Zenon DEF Results
  <2>3. TypeOK'
    BY <1>1, <2>1, <2>2 DEF TypeOK
  <2>4. EndsAgree'
    BY <2>1 DEF Inv, EndsAgree, ThreadsEnded
  <2>5. MergeAgrees' /\ OkMeansAllParsed'
    BY <1>4, <2>1 DEF MergeAgrees, OkMeansAllParsed, Panicked
  <2> QED BY <1>2, <1>3, <2>3, <2>4, <2>5 DEF Inv
<1>5. CASE Panicked = {} /\ Failed # {}
  <2>1. PICK i \in Failed : /\ \A k \in Failed : i <= k
                            /\ main' = "returned"
                            /\ result' = [kind |-> "err", at |-> i]
    BY <1>5
  <2>2. i \in 0 .. N /\ UNCHANGED announced
    BY <1>5, SizeAssumption DEF Failed, Archives
  <2>3. result' \in Results
    BY <2>1, <2>2, Zenon DEF Results
  <2>4. TypeOK'
    BY <1>1, <2>1, <2>2, <2>3 DEF TypeOK
  <2>5. EndsAgree'
    BY <2>1 DEF Inv, EndsAgree, ThreadsEnded
  <2>6. MergeAgrees' /\ OkMeansAllParsed'
    BY <2>1 DEF MergeAgrees, OkMeansAllParsed, Failed
  <2> QED BY <1>2, <1>3, <2>4, <2>5, <2>6 DEF Inv
<1>6. CASE Panicked = {} /\ Failed = {}
  <2>1. main' = "announced" /\ announced' = TRUE /\ UNCHANGED result
    BY <1>6
  <2>2. TypeOK'
    BY <1>1, <2>1 DEF TypeOK
  <2>3. EndsAgree'
    BY <1>1, <2>1 DEF Inv, EndsAgree, ThreadsEnded
  <2>4. MergeAgrees' /\ OkMeansAllParsed'
    BY <1>1, <1>6, <2>1 DEF MergeAgrees, OkMeansAllParsed, Panicked, Failed
  <2> QED BY <1>2, <1>3, <2>2, <2>3, <2>4 DEF Inv
<1> QED BY <1>4, <1>5, <1>6

\* The last look at the flag preserves the invariant.
LEMMA FinishInv ==
  ASSUME Inv, Finish PROVE Inv'
<1> USE DEF Finish, threadVars, Return
<1>1. TypeOK /\ ThreadsEnded /\ Panicked = {} /\ Failed = {}
  BY DEF Inv, EndsAgree, MergeAgrees
<1>2. NothingLost'
  BY DEF Inv, NothingLost, Held, Queued, Sent, Panicked
<1>3. HandsAgree' /\ FilesAgree'
  BY DEF Inv, HandsAgree, FilesAgree
<1>4. main' = "returned" /\ result' = [kind |-> IF cancel THEN "cancelled" ELSE "ok", at |-> 0]
  OBVIOUS
<1>5. result' \in Results
  <2>1. 0 \in 0 .. N
    BY SizeAssumption
  <2> QED BY <1>4, <2>1, Zenon DEF Results
<1>6. TypeOK'
  BY <1>1, <1>4, <1>5 DEF TypeOK
<1>7. EndsAgree'
  BY <1>4 DEF Inv, EndsAgree, ThreadsEnded
<1>8. MergeAgrees'
  BY <1>1, <1>4 DEF MergeAgrees, Failed
<1>9. OkMeansAllParsed'
  <2> SUFFICES ASSUME ~cancel
               PROVE  /\ \A i \in Archives : slots[i] \in {"parsed", "empty"}
                      /\ cached = Archives
    BY <1>4 DEF OkMeansAllParsed
  <2>1. \A i \in Archives : slots[i] \in {"parsed", "empty"}
    BY <1>1, AllSettled DEF TypeOK, Failed
  <2>2. cached = Archives
    BY <1>1, <2>1 DEF TypeOK, Inv, FilesAgree
  <2> QED BY <2>1, <2>2
<1> QED BY <1>2, <1>3, <1>6, <1>7, <1>8, <1>9 DEF Inv

\* Every step preserves the invariant.
LEMMA StepInv == Inv /\ [Next]_vars => Inv'
<1> SUFFICES ASSUME Inv, [Next]_vars PROVE Inv'
  OBVIOUS
<1>1. ASSUME NEW d \in Downloaders, Download(d) PROVE Inv'
  BY <1>1, PopFrontInv, QueueEmptyInv, CheckCancelInv, CacheArchiveInv, SendInv
     DEF Download
<1>2. ASSUME NEW p \in Parsers, Parse(p) PROVE Inv'
  BY <1>2, LockReceiverInv, ReceiveInv, DisconnectedInv, ProcessFileInv DEF Parse
<1>3. CASE UNCHANGED vars
  <2> USE <1>3 DEF vars, threadVars
  <2>1. TypeOK'
    BY DEF Inv, TypeOK
  <2>2. NothingLost'
    BY DEF Inv, NothingLost, Held, Queued, Sent, Panicked
  <2>3. HandsAgree' /\ FilesAgree'
    BY DEF Inv, HandsAgree, FilesAgree
  <2>4. EndsAgree'
    BY DEF Inv, EndsAgree, ThreadsEnded
  <2>5. MergeAgrees' /\ OkMeansAllParsed'
    BY DEF Inv, MergeAgrees, OkMeansAllParsed, Panicked, Failed
  <2> QED BY <2>1, <2>2, <2>3, <2>4, <2>5 DEF Inv
<1> QED BY <1>1, <1>2, <1>3, PanicInv, SetCancelInv, JoinInv, FinishInv
        DEF Next, Returned

\* The invariant holds for every number of archives, threads and panics: what
\* each thread of process_updates_pipeline relies on at each step.
THEOREM PipelineInvariant == Spec => []Inv
BY InitInv, StepInv, PTL DEF Spec

\* process_updates_pipeline returns Ok only with a result for every archive,
\* whatever the threads' order and whenever the flag is set.
THEOREM ResultsAreComplete == Spec => []OkMeansAllParsed
<1>1. Inv => OkMeansAllParsed
  BY DEF Inv
<1> QED BY <1>1, PipelineInvariant, PTL

\* The merge does not depend on the schedule: without cancellation or panic the
\* returned value is a function of the archives.
THEOREM OutcomeIsScheduleFree == Spec => []OutcomeIsDeterministic
<1>1. Inv => OutcomeIsDeterministic
  <2> SUFFICES ASSUME Inv, main = "returned", ~cancel, Panicked = {}
               PROVE  IF Unobtainable = {}
                      THEN result.kind = "ok"
                      ELSE /\ result.kind = "err"
                           /\ result.at \in Unobtainable
                           /\ \A i \in Unobtainable : result.at <= i
    BY DEF OutcomeIsDeterministic
  <2>1. \A i \in Archives : slots[i] # "none"
    BY AllSettled DEF Inv, EndsAgree
  <2>2. Failed = Unobtainable
    BY <2>1 DEF Failed, Unobtainable, Inv, FilesAgree, TypeOK
  <2> QED BY <2>2 DEF Inv, MergeAgrees
<1> QED BY <1>1, PipelineInvariant, PTL

=============================================================================
