--------------------------- MODULE UpdatePipeline ---------------------------
(***************************************************************************)
(* The bounded download -> parse pipeline for UPDATE archives              *)
(* (process_updates_pipeline in src/src/orchestrate.rs).                   *)
(*                                                                         *)
(* Download threads take archive indices from a shared queue, cache the    *)
(* archive and send the index over a bounded channel; parse threads share  *)
(* the receiver under a mutex, parse, and write the result into the        *)
(* archive's slot.  The calling thread waits for all of them and merges    *)
(* the slots.  The cancel flag belongs to the worker: its heartbeat thread *)
(* may set it at any moment and nothing resets it.  A parse thread may     *)
(* panic inside the MRT parser.  An empty list of archives returns at once *)
(* and is left out.                                                        *)
(***************************************************************************)
EXTENDS Integers, Sequences, FiniteSets

CONSTANTS N,              \* number of pending archives
          JobsFlag,       \* --jobs
          ParseFlag,      \* --parse-jobs, 0 when absent
          DownloadFlag,   \* --download-jobs
          Parallelism,    \* available_parallelism()
          MaxFaults,      \* bound on archives that are not good
          MaxPanics       \* bound on panics

ASSUME SizeAssumption == N \in Nat \ {0}
ASSUME FlagAssumption ==
  JobsFlag \in Nat /\ ParseFlag \in Nat /\ DownloadFlag \in Nat
ASSUME MachineAssumption == Parallelism \in Nat \ {0}
ASSUME BoundsAssumption == MaxPanics \in Nat /\ MaxFaults \in Nat

AtMost(a, b) == IF a < b THEN a ELSE b
AtLeast(a, b) == IF a > b THEN a ELSE b

resolve_jobs(jobs, parseJobs, tasks) ==
  LET requested == IF parseJobs > 0 THEN parseJobs ELSE jobs
  IN  IF requested = 0
      THEN AtLeast(AtMost(AtMost(Parallelism, 4), tasks), 1)
      ELSE AtLeast(AtMost(requested, tasks), 1)

parse_jobs == resolve_jobs(JobsFlag, ParseFlag, N)
download_jobs == AtMost(AtLeast(DownloadFlag, 1), N)

Archives == 1 .. N
Downloaders == 1 .. download_jobs
Parsers == 1 .. parse_jobs
Nobody == 0     \* no index in hand; no thread holds the receiver

\* What becomes of an archive: cached and parsed; cached but it cannot be
\* opened by the parser; not obtainable (download error, or offline and not in
\* the cache).
Fates == {"good", "unreadable", "unobtainable"}

VARIABLES
  fate,      \* [Archives -> Fates]
  queue,     \* indices not yet taken
  chan,      \* the sync_channel of capacity parse_jobs
  rx,        \* the parse thread that holds the receiver's mutex
  slots,     \* one result per archive
  cached,    \* archives recorded in `cached`
  dpc, dix,  \* download threads: next step, index in hand
  ppc, pix,  \* parse threads
  cancel,    \* the worker's AtomicBool
  announced, \* the progress event "Parsed all n" has been emitted
  main,      \* the calling thread
  result     \* what it returns

threadVars == <<dpc, dix, ppc, pix>>
vars == <<fate, queue, chan, rx, slots, cached, threadVars, cancel, announced,
          main, result>>

Results == [kind : {"running", "ok", "err", "cancelled", "panic"}, at : 0 .. N]

Init ==
  /\ fate \in [Archives -> Fates]
  /\ Cardinality({i \in Archives : fate[i] # "good"}) <= MaxFaults
  /\ queue = [i \in Archives |-> i]
  /\ chan = << >>
  /\ rx = Nobody
  /\ slots = [i \in Archives |-> "none"]
  /\ cached = {}
  /\ dpc = [d \in Downloaders |-> "pop"]
  /\ dix = [d \in Downloaders |-> Nobody]
  /\ ppc = [p \in Parsers |-> "lock"]
  /\ pix = [p \in Parsers |-> Nobody]
  /\ cancel = FALSE
  /\ announced = FALSE
  /\ main = "join"
  /\ result = [kind |-> "running", at |-> 0]

-----------------------------------------------------------------------------
(* A download thread                                                       *)

DownloadGoto(d, l, i) ==
  /\ dpc' = [dpc EXCEPT ![d] = l]
  /\ dix' = [dix EXCEPT ![d] = i]
  /\ UNCHANGED <<ppc, pix>>

PopFront(d) ==
  /\ dpc[d] = "pop"
  /\ queue # << >>
  /\ queue' = Tail(queue)
  /\ DownloadGoto(d, "check", Head(queue))
  /\ UNCHANGED <<fate, chan, rx, slots, cached, cancel, announced, main, result>>

QueueEmpty(d) ==
  /\ dpc[d] = "pop"
  /\ queue = << >>
  /\ DownloadGoto(d, "done", Nobody)
  /\ UNCHANGED <<fate, queue, chan, rx, slots, cached, cancel, announced, main, result>>

\* The flag is read after the index has been taken: the index of a thread
\* that stops here is in no queue, channel or slot.
CheckCancel(d) ==
  /\ dpc[d] = "check"
  /\ IF cancel THEN DownloadGoto(d, "done", Nobody)
               ELSE DownloadGoto(d, "cache", dix[d])
  /\ UNCHANGED <<fate, queue, chan, rx, slots, cached, cancel, announced, main, result>>

CacheArchive(d) ==
  LET i == dix[d] IN
  /\ dpc[d] = "cache"
  /\ \/ /\ fate[i] # "unobtainable"
        /\ cached' = cached \cup {i}
        /\ DownloadGoto(d, "send", i)
        /\ UNCHANGED slots
     \/ /\ fate[i] = "unobtainable"
        /\ slots' = [slots EXCEPT ![i] = "err"]
        /\ DownloadGoto(d, "pop", Nobody)
        /\ UNCHANGED cached
  /\ UNCHANGED <<fate, queue, chan, rx, cancel, announced, main, result>>

\* send blocks while the channel is full.  It cannot fail: the receiver lives
\* in the calling function until after the scope.
Send(d) ==
  /\ dpc[d] = "send"
  /\ Len(chan) < parse_jobs
  /\ chan' = Append(chan, dix[d])
  /\ DownloadGoto(d, "pop", Nobody)
  /\ UNCHANGED <<fate, queue, rx, slots, cached, cancel, announced, main, result>>

Download(d) ==
  PopFront(d) \/ QueueEmpty(d) \/ CheckCancel(d) \/ CacheArchive(d) \/ Send(d)

-----------------------------------------------------------------------------
(* A parse thread                                                          *)

ParseGoto(p, l, i) ==
  /\ ppc' = [ppc EXCEPT ![p] = l]
  /\ pix' = [pix EXCEPT ![p] = i]
  /\ UNCHANGED <<dpc, dix>>

LockReceiver(p) ==
  /\ ppc[p] = "lock"
  /\ rx = Nobody
  /\ rx' = p
  /\ ParseGoto(p, "recv", Nobody)
  /\ UNCHANGED <<fate, queue, chan, slots, cached, cancel, announced, main, result>>

\* recv blocks with the mutex held; the guard is dropped before parsing.
Receive(p) ==
  /\ ppc[p] = "recv"
  /\ chan # << >>
  /\ chan' = Tail(chan)
  /\ rx' = Nobody
  /\ ParseGoto(p, "parse", Head(chan))
  /\ UNCHANGED <<fate, queue, slots, cached, cancel, announced, main, result>>

\* Mutant: the caller keeps its own sender while it waits in the scope.
Disconnected_sender_kept(p) ==
  /\ ppc[p] = "recv"
  /\ chan = << >>
  /\ \A d \in Downloaders : dpc[d] = "done"
  /\ main # "join"
  /\ rx' = Nobody
  /\ ParseGoto(p, "done", Nobody)
  /\ UNCHANGED <<fate, queue, chan, slots, cached, cancel, announced, main, result>>

\* Every sender is gone (the caller dropped its own) and nothing is buffered.
Disconnected(p) ==
  /\ ppc[p] = "recv"
  /\ chan = << >>
  /\ \A d \in Downloaders : dpc[d] = "done"
  /\ rx' = Nobody
  /\ ParseGoto(p, "done", Nobody)
  /\ UNCHANGED <<fate, queue, chan, slots, cached, cancel, announced, main, result>>

\* process_one_update_file: an archive that cannot be opened gives a result
\* with no observations, not an error.
ProcessFile(p) ==
  LET i == pix[p] IN
  /\ ppc[p] = "parse"
  /\ slots' = [slots EXCEPT ![i] = IF fate[i] = "good" THEN "parsed" ELSE "empty"]
  /\ ParseGoto(p, "lock", Nobody)
  /\ UNCHANGED <<fate, queue, chan, rx, cached, cancel, announced, main, result>>

Panicked == {p \in Parsers : ppc[p] = "panicked"}

Panic(p) ==
  /\ ppc[p] = "parse"
  /\ Cardinality(Panicked) < MaxPanics
  /\ ParseGoto(p, "panicked", Nobody)
  /\ UNCHANGED <<fate, queue, chan, rx, slots, cached, cancel, announced, main, result>>

Parse(p) ==
  LockReceiver(p) \/ Receive(p) \/ Disconnected(p) \/ ProcessFile(p)

-----------------------------------------------------------------------------
(* The calling thread and the heartbeat                                    *)

SetCancel ==
  /\ ~cancel
  /\ main # "returned"
  /\ cancel' = TRUE
  /\ UNCHANGED <<fate, queue, chan, rx, slots, cached, threadVars, announced, main, result>>

ThreadsEnded ==
  /\ \A d \in Downloaders : dpc[d] = "done"
  /\ \A p \in Parsers : ppc[p] \in {"done", "panicked"}

Failed == {i \in Archives : slots[i] = "err"}

Return(kind, at) ==
  /\ main' = "returned"
  /\ result' = [kind |-> kind, at |-> at]

\* Mutant: whichever error was met is returned.
Join_any_error ==
  /\ main = "join"
  /\ ThreadsEnded
  /\ \/ Panicked # {} /\ Return("panic", 0) /\ UNCHANGED announced
     \/ /\ Panicked = {}
        /\ \E i \in Failed : Return("err", i)
        /\ UNCHANGED announced
     \/ /\ Panicked = {} /\ Failed = {}
        /\ announced' = TRUE
        /\ main' = "announced"
        /\ UNCHANGED result
  /\ UNCHANGED <<fate, queue, chan, rx, slots, cached, threadVars, cancel>>

\* The end of thread::scope (which panics when a thread did) and the merge in
\* archive order: the first error is returned, an archive without a result is
\* merged as an empty one; without an error "Parsed all n" is announced.
Join ==
  /\ main = "join"
  /\ ThreadsEnded
  /\ \/ /\ Panicked # {}
        /\ Return("panic", 0)
        /\ UNCHANGED announced
     \/ /\ Panicked = {} /\ Failed # {}
        /\ \E i \in Failed :
             /\ \A k \in Failed : i <= k
             /\ Return("err", i)
        /\ UNCHANGED announced
     \/ /\ Panicked = {} /\ Failed = {}
        /\ announced' = TRUE
        /\ main' = "announced"
        /\ UNCHANGED result
  /\ UNCHANGED <<fate, queue, chan, rx, slots, cached, threadVars, cancel>>

\* Mutant: the flag is not looked at again after the merge.
Finish_unchecked ==
  /\ main = "announced"
  /\ Return("ok", 0)
  /\ UNCHANGED <<fate, queue, chan, rx, slots, cached, threadVars, cancel, announced>>

\* The last look at the flag.
Finish ==
  /\ main = "announced"
  /\ IF cancel THEN Return("cancelled", 0) ELSE Return("ok", 0)
  /\ UNCHANGED <<fate, queue, chan, rx, slots, cached, threadVars, cancel, announced>>

\* The function has returned.
Returned == main = "returned" /\ UNCHANGED vars

Next ==
  \/ \E d \in Downloaders : Download(d)
  \/ \E p \in Parsers : Parse(p) \/ Panic(p)
  \/ SetCancel
  \/ Join
  \/ Finish
  \/ Returned

Spec == Init /\ [][Next]_vars

\* Some thread that can go on does: the machine runs, and no more is asked of its
\* scheduler.  Nothing makes the flag be set or a parser panic.
Threads ==
  \/ \E d \in Downloaders : Download(d)
  \/ \E p \in Parsers : Parse(p)
  \/ Join \/ Finish

FairSpec == Spec /\ WF_vars(Threads)

-----------------------------------------------------------------------------
(* Properties                                                              *)

DownloadSteps == {"pop", "check", "cache", "send", "done"}
ParseSteps == {"lock", "recv", "parse", "done", "panicked"}

\* Every variable keeps its type: slots are written in range, the channel
\* carries archive indices, a thread in hand of an index names an archive.
TypeOK ==
  /\ fate \in [Archives -> Fates]
  /\ queue \in Seq(Archives)
  /\ chan \in Seq(Archives)
  /\ rx \in 0 .. parse_jobs
  /\ slots \in [Archives -> {"none", "parsed", "empty", "err"}]
  /\ cached \in SUBSET Archives
  /\ dpc \in [Downloaders -> DownloadSteps]
  /\ dix \in [Downloaders -> 0 .. N]
  /\ ppc \in [Parsers -> ParseSteps]
  /\ pix \in [Parsers -> 0 .. N]
  /\ cancel \in BOOLEAN
  /\ announced \in BOOLEAN
  /\ main \in {"join", "announced", "returned"}
  /\ result \in Results

Queued(i) == \E k \in DOMAIN queue : queue[k] = i
Sent(i) == \E k \in DOMAIN chan : chan[k] = i
Held(i) ==
  \/ Queued(i)
  \/ Sent(i)
  \/ \E d \in Downloaders : dix[d] = i
  \/ \E p \in Parsers : pix[p] = i

\* An archive without a result is still in somebody's hands, unless the run
\* was cancelled or a parser panicked: no index falls between queue, threads
\* and channel (process_updates_pipeline hands it on by value).
NothingLost ==
  \A i \in Archives :
    slots[i] = "none" => Held(i) \/ cancel \/ Panicked # {}

\* Results that are complete: Ok is returned only when every archive was
\* cached and has a result, although an archive without a result would be
\* merged as an empty one and the flag may be set at any moment between the
\* checks.
OkMeansAllParsed ==
  result.kind = "ok" =>
    /\ \A i \in Archives : slots[i] \in {"parsed", "empty"}
    /\ cached = Archives

Unobtainable == {i \in Archives : fate[i] = "unobtainable"}

\* "Parallel completion cannot reorder archives": without cancellation or
\* panic the value returned depends on the archives alone, never on which
\* thread was faster; of several failing archives the first in archive order
\* is reported.
OutcomeIsDeterministic ==
  main = "returned" /\ ~cancel /\ Panicked = {} =>
    IF Unobtainable = {}
    THEN result.kind = "ok"
    ELSE /\ result.kind = "err"
         /\ result.at \in Unobtainable
         /\ \A i \in Unobtainable : result.at <= i

\* The inductive invariant behind the properties above.
HandsAgree ==
  /\ \A d \in Downloaders : dpc[d] \in {"check", "cache", "send"} <=> dix[d] # Nobody
  /\ \A p \in Parsers : ppc[p] = "parse" <=> pix[p] # Nobody

\* A download thread ends only on an empty queue or a set flag, a parse
\* thread only when no sender is left, the caller goes on only when all ended.
EndsAgree ==
  /\ \A d \in Downloaders : dpc[d] = "done" => queue = << >> \/ cancel
  /\ \A p \in Parsers :
       ppc[p] = "done" => chan = << >> /\ \A d \in Downloaders : dpc[d] = "done"
  /\ main # "join" => ThreadsEnded
  /\ result.kind = "running" <=> main # "returned"

\* What has been obtained, and what has failed.
FilesAgree ==
  /\ \A d \in Downloaders : dpc[d] = "send" => dix[d] \in cached
  /\ \A k \in DOMAIN chan : chan[k] \in cached
  /\ \A p \in Parsers : pix[p] # Nobody => pix[p] \in cached
  /\ \A i \in Archives : slots[i] \in {"parsed", "empty"} => i \in cached
  /\ \A i \in cached : fate[i] # "unobtainable"
  /\ \A i \in Archives : slots[i] = "err" => fate[i] = "unobtainable"

\* What the merge has seen.
MergeAgrees ==
  /\ main = "announced" => Panicked = {} /\ Failed = {}
  /\ main = "returned" /\ Panicked = {} /\ ~cancel =>
       \/ result.kind = "ok" /\ Failed = {}
       \/ /\ result.kind = "err"
          /\ result.at \in Failed
          /\ \A k \in Failed : result.at <= k

\* What each thread relies on at each step of process_updates_pipeline.
Inv ==
  /\ TypeOK
  /\ NothingLost
  /\ HandsAgree
  /\ EndsAgree
  /\ FilesAgree
  /\ MergeAgrees
  /\ OkMeansAllParsed

\* The one way the threads wait for ever: every parse thread is gone, the
\* receiver is not, and a download thread is in send on the full channel.
Hung ==
  /\ Panicked = Parsers
  /\ Len(chan) = parse_jobs
  /\ \E d \in Downloaders : dpc[d] = "send"

\* The call ends, with a value or with the panic, unless it is hung: no other
\* arrangement of blocked senders, the shared receiver, early stops and panics
\* keeps the threads waiting for each other.
Terminates == <>(main = "returned" \/ Hung)

\* "parse stage gone": a download thread whose parse threads are gone leaves its
\* loop, so that the call ends whatever the parse threads do.  Not so when it is hung.
CallReturns == <>(main = "returned")

=============================================================================
