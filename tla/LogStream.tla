----------------------------- MODULE LogStream -----------------------------
(***************************************************************************)
(* The log collector of a session pod (session_pod/log_stream): a thread   *)
(* that takes the engine's lines from a bounded channel and from the log   *)
(* files it tails, copies the health reports, appends all of it to a tree  *)
(* on disk, and at every flush uploads the tree as one bundle, to the      *)
(* session's latest object and to the object of this run, keeps the index  *)
(* of the session's runs and publishes the health reports with an index of *)
(* their own.  Every storage call may fail, the container may be killed    *)
(* between any two calls, and a restarted one meets what its predecessor   *)
(* left on the pod's volume and in the store.                              *)
(*                                                                         *)
(* A line is the pair of where it came from and its number: source 0 is    *)
(* the tee of the engine's output, a source above 0 is a generation of the *)
(* tailed file, which is truncated in place between two generations.  The  *)
(* file is measured in half lines, so that a poll may meet an unterminated *)
(* one.  Redaction maps lines to lines and is left out, as are names.      *)
(***************************************************************************)
EXTENDS Integers, Sequences, FiniteSets

CONSTANTS
    Reports,      \* the health reports, numbered in the order of their stamps
    Malformed,    \* those whose name or content does not parse
    MaxTee,       \* lines the engine prints, over all runs
    MaxHalves,    \* half lines in one generation of the tailed file
    MaxGens,      \* generations of the tailed file
    MaxWrites,    \* writes of health reports, over all runs
    ChannelCapacity,
    MaxIndexEntries,  \* MAX_INDEX_ENTRIES, which is MAX_PENDING as well
    MaxTotal,     \* reports the capture budget of one run admits
    MaxRuns,      \* runs (container incarnations)
    MaxFaults,    \* failing calls and reads
    None          \* no object under a key

VARIABLES
    run,     \* number of the current run
    pc,      \* where the collector thread is
    storage, \* the session has storage credentials
    engine,  \* the engine runs (and holds the channel's senders)
    tee,     \* lines the engine has printed
    chan,    \* the channel
    file,    \* the tailed file: [gen, len]
    reports, \* health directory: version of every report, 0 is absent
    disk,    \* the tree: copies of every line
    copies,  \* the tree: version of every copied report
    mem,     \* the collector's memory
    store,   \* the object store
    lost,    \* reports this run skipped or dropped (a warning names them)
    faults   \* failures so far

vars == <<run, pc, storage, engine, tee, chan, file, reports, disk, copies, mem,
          store, lost, faults>>

Lines == ({0} \X (1..MaxTee)) \union ((1..MaxGens) \X (1..((MaxHalves + 1) \div 2)))
Classes == {"Supervise", "Misc"}
Class(l) == IF l[1] = 0 THEN "Supervise" ELSE "Misc"
Versions == 0..MaxWrites
NoLine == [l \in Lines |-> 0]

\* What the collector knows when its thread starts.
FreshMem == [final |-> FALSE, ticked |-> FALSE, offset |-> 0, buf |-> NoLine, ext |-> 0,
             seen |-> [r \in Reports |-> 0], total |-> 0, pending |-> <<>>,
             left |-> 0, once |-> FALSE,
             latestOk |-> FALSE, sent |-> FALSE]

Init ==
    /\ run = 1 /\ pc = "loop" /\ storage \in BOOLEAN /\ engine = TRUE
    /\ tee = 0 /\ chan = <<>> /\ file = [gen |-> 1, len |-> 0]
    /\ reports = [r \in Reports |-> 0]
    /\ disk = NoLine /\ copies = [r \in Reports |-> 0]
    /\ mem = FreshMem
    /\ store = [latest |-> None, runs |-> [n \in 1..MaxRuns |-> None],
                index |-> [n \in 1..MaxRuns |-> "absent"],
                objects |-> [r \in Reports |-> 0], health |-> {}]
    /\ lost = {} /\ faults = 0

-----------------------------------------------------------------------------
\* The engine and the health reporter.

World == <<engine, tee, chan, file, reports>>
Rest == <<run, storage, lost>>

\* The tee forwards a line without blocking: a full channel drops it.
Tee ==
    /\ engine /\ tee < MaxTee
    /\ tee' = tee + 1
    /\ chan' = IF Len(chan) < ChannelCapacity THEN Append(chan, <<0, tee + 1>>) ELSE chan
    /\ UNCHANGED <<run, pc, storage, engine, file, reports, disk, copies, mem, store,
                   lost, faults>>

\* Half a line is appended to the tailed file.
WriteLog ==
    /\ engine /\ file.len < MaxHalves
    /\ file' = [file EXCEPT !.len = @ + 1]
    /\ UNCHANGED <<run, pc, storage, engine, tee, chan, reports, disk, copies, mem,
                   store, lost, faults>>

TruncateLog ==
    /\ engine /\ file.len > 0 /\ file.gen < MaxGens
    /\ file' = [gen |-> file.gen + 1, len |-> 0]
    /\ UNCHANGED <<run, pc, storage, engine, tee, chan, reports, disk, copies, mem,
                   store, lost, faults>>

WrittenReports == {r \in Reports : reports[r] > 0}
Writes == Cardinality({w \in Reports \X (1..MaxWrites) : w[2] <= reports[w[1]]})

\* A report is written, or rewritten under its name.
WriteReport(r) ==
    /\ engine /\ Writes < MaxWrites
    /\ reports' = [reports EXCEPT ![r] = @ + 1]
    /\ UNCHANGED <<run, pc, storage, engine, tee, chan, file, disk, copies, mem, store,
                   lost, faults>>

\* The engine exits; the tees have drained, the senders are dropped.
EngineExits ==
    /\ engine /\ engine' = FALSE
    /\ UNCHANGED <<run, pc, storage, tee, chan, file, reports, disk, copies, mem, store,
                   lost, faults>>

-----------------------------------------------------------------------------
\* Capture.

\* append_line: redacted, then buffered under its class.
AppendAll(m, S) == [m EXCEPT !.buf = [l \in Lines |-> IF l \in S THEN @[l] + 1 ELSE @[l]]]

\* The cursor a poll reads from: back to the start when the file has shrunk.
PollFrom(m) == IF file.len < m.offset THEN 0 ELSE m.offset

\* TailTracker::poll: the lines completed after the cursor; the half line
\* behind the last of them stays in the carry (the cursor is odd then).
Poll(m) ==
    LET from == PollFrom(m)
        done == {l \in Lines : l[1] = file.gen /\ from < 2 * l[2] /\ 2 * l[2] <= file.len}
    IN  [AppendAll(m, done) EXCEPT !.offset = file.len]

\* finish_tails: an unterminated line is a line after all.
Finish(m) ==
    IF m.offset % 2 = 1 THEN AppendAll(m, {<<file.gen, (m.offset + 1) \div 2>>} \cap Lines)
    ELSE m

\* HealthPublishQueue::enqueue: over the cap the front is dropped.
Overflow(q) == IF Len(q) > MaxIndexEntries THEN Len(q) - MaxIndexEntries ELSE 0
Enqueue(q) == SubSeq(q, Overflow(q) + 1, Len(q))
Dropped(q) == {q[i] : i \in 1..Overflow(q)}

\* The reports a sweep judges: new, or changed since the last look.
Fresh(m) == {r \in WrittenReports : m.seen[r] # reports[r]}

\* A set of reports in the order a sweep meets them (by name).
InOrder(S) ==
    LET nth(i) == CHOOSE r \in S : Cardinality({q \in S : q <= r}) = i
    IN  [i \in 1..Cardinality(S) |-> <<nth(i), reports[nth(i)]>>]

\* What the capture budget leaves of them.
WithinBudget(m, S) ==
    {r \in S : m.total + Cardinality({q \in S : q < r}) < MaxTotal}

\* CopiedFileTracker::sweep, then the queue: every fresh report is judged
\* once, whether or not reading it (those of bad fail) succeeds.
Sweep(m, bad) ==
    LET got == WithinBudget(m, Fresh(m) \ bad)
    IN  [m EXCEPT !.seen = reports,
                  !.total = @ + Cardinality(got),
                  !.ext = @ + Cardinality(got),
                  !.pending = Enqueue(@ \o InOrder(got))]

CopiesAfter(m, bad) ==
    [r \in Reports |-> IF r \in WithinBudget(m, Fresh(m) \ bad) THEN reports[r] ELSE copies[r]]
LostAfter(m, bad) ==
    LET got == WithinBudget(m, Fresh(m) \ bad)
    IN  lost \union Dropped(m.pending \o InOrder(got))
             \union {<<r, reports[r]>> : r \in Fresh(m) \ got}

Looping == pc = "loop" /\ (engine \/ chan # <<>>)

\* A record is taken from the channel.
Recv ==
    /\ pc = "loop" /\ chan # <<>>
    /\ mem' = AppendAll(mem, {Head(chan)})
    /\ chan' = Tail(chan)
    /\ UNCHANGED <<run, pc, storage, engine, tee, file, reports, disk, copies, store,
                   lost, faults>>

\* The poll: tails, then reports.
Tick(bad) ==
    /\ Looping
    /\ faults + Cardinality(bad) <= MaxFaults
    /\ mem' = [Sweep(Poll(mem), bad) EXCEPT !.ticked = TRUE]
    /\ copies' = CopiesAfter(mem, bad) /\ lost' = LostAfter(mem, bad)
    /\ faults' = faults + Cardinality(bad)
    /\ UNCHANGED <<run, pc, storage, disk, store>> /\ UNCHANGED World

\* The channel is closed and empty: a last poll, and the unterminated tails.
Disconnected(bad) ==
    /\ pc = "loop" /\ ~engine /\ chan = <<>>
    /\ faults + Cardinality(bad) <= MaxFaults
    /\ mem' = [Finish(Sweep(Poll(mem), bad)) EXCEPT !.final = TRUE]
    /\ pc' = "flush"
    /\ copies' = CopiesAfter(mem, bad) /\ lost' = LostAfter(mem, bad)
    /\ faults' = faults + Cardinality(bad)
    /\ UNCHANGED <<run, storage, disk, store>> /\ UNCHANGED World

-----------------------------------------------------------------------------
\* The flush.

Pending(m) == m.ext > 0 \/ m.buf # NoLine
Publishing(m) == [m EXCEPT !.left = IF storage THEN Len(m.pending) ELSE 0,
                           !.pending = IF storage THEN @ ELSE <<>>]

\* What a flush of the classes in done leaves of the buffers, and the tree.
Unwritten(m, done) == [l \in Lines |-> IF Class(l) \in done THEN 0 ELSE m.buf[l]]
Written(m, done) == [l \in Lines |-> disk[l] + IF Class(l) \in done THEN m.buf[l] ELSE 0]

\* Where the loop, or the final drain, enters a flush cycle: by size, or by
\* the interval, which is longer than that of the poll.
FlushDue == (Looping /\ (mem.ticked \/ Pending(mem))) \/ pc = "flush"

\* Writing a file fails: what the other classes wrote stays written, the
\* pending count stays, and there is no upload in this cycle.
FlushFails(done) ==
    /\ FlushDue /\ faults < MaxFaults
    /\ \E c \in Classes \ done : \E l \in Lines : Class(l) = c /\ mem.buf[l] > 0
    /\ disk' = Written(mem, done)
    /\ mem' = Publishing([mem EXCEPT !.buf = Unwritten(mem, done), !.ext = 1,
                                    !.ticked = FALSE, !.sent = FALSE])
    /\ pc' = "publish"
    /\ faults' = faults + 1
    /\ UNCHANGED <<copies, store>> /\ UNCHANGED World /\ UNCHANGED Rest

\* A flush with nothing to upload: no storage, or an unchanged tree.
NothingToUpload(m) == ~storage \/ (~Pending(m) /\ m.once)

\* The files are written and the pending count is zero; then the bundle is
\* assembled (which may fail) and its upload begins.
Flush(tar) ==
    /\ FlushDue
    /\ tar \/ (faults < MaxFaults /\ ~NothingToUpload(mem))
    /\ disk' = Written(mem, Classes)
    /\ LET m == [mem EXCEPT !.buf = NoLine, !.ext = 0, !.ticked = FALSE]
       IN  IF NothingToUpload(mem) \/ ~tar
           THEN /\ pc' = "publish"
                /\ mem' = Publishing([m EXCEPT !.sent = @ /\ tar])
           ELSE pc' = "latest" /\ mem' = m
    /\ faults' = IF tar THEN faults ELSE faults + 1
    /\ UNCHANGED <<copies, store>> /\ UNCHANGED World /\ UNCHANGED Rest

\* The tree as one object.
Bundle == [lines |-> {l \in Lines : disk[l] > 0}, copies |-> copies]

Call(ok) == /\ ok \/ faults < MaxFaults
            /\ faults' = IF ok THEN faults ELSE faults + 1

\* Uploader::upload puts the session's latest bundle ...
PutLatest(ok) ==
    /\ pc = "latest" /\ Call(ok)
    /\ store' = IF ok THEN [store EXCEPT !.latest = Bundle] ELSE store
    /\ mem' = [mem EXCEPT !.latestOk = ok]
    /\ pc' = "run"
    /\ UNCHANGED <<disk, copies>> /\ UNCHANGED World /\ UNCHANGED Rest

PutRunByLatest(ok) ==
    /\ pc = "run" /\ Call(ok)
    /\ store' = IF ok THEN [store EXCEPT !.runs[run] = Bundle] ELSE store
    /\ LET done == mem.latestOk
           m    == [mem EXCEPT !.once = @ \/ done, !.sent = done, !.latestOk = FALSE]
       IN  IF done /\ ~mem.once
           THEN pc' = "index" /\ mem' = m
           ELSE pc' = "publish" /\ mem' = Publishing(m)
    /\ UNCHANGED <<disk, copies>> /\ UNCHANGED World /\ UNCHANGED Rest

\* ... and the bundle of this run, whatever became of the first; only both
\* together are an upload.
PutRun(ok) ==
    /\ pc = "run" /\ Call(ok)
    /\ store' = IF ok THEN [store EXCEPT !.runs[run] = Bundle] ELSE store
    /\ LET done == ok /\ mem.latestOk
           m    == [mem EXCEPT !.once = @ \/ done, !.sent = done, !.latestOk = FALSE]
       IN  IF done /\ ~mem.once
           THEN pc' = "index" /\ mem' = m
           ELSE pc' = "publish" /\ mem' = Publishing(m)
    /\ UNCHANGED <<disk, copies>> /\ UNCHANGED World /\ UNCHANGED Rest

\* add_run_to_index, after the first upload of the run; not retried.
AddRunToIndex(ok) ==
    /\ pc = "index" /\ Call(ok)
    /\ store' = IF ok /\ store.index[run] = "absent"
                THEN [store EXCEPT !.index[run] = "open"] ELSE store
    /\ pc' = "publish" /\ mem' = Publishing(mem)
    /\ UNCHANGED <<disk, copies>> /\ UNCHANGED World /\ UNCHANGED Rest

-----------------------------------------------------------------------------
\* The health reports.

\* The head of the queue is done with, or goes behind the others.
Done(m) == [m EXCEPT !.pending = Tail(@), !.left = @ - 1]
Retry(m) == [m EXCEPT !.pending = Append(Tail(@), Head(@)), !.left = @ - 1]

\* publish_one: what does not parse is not published; the object goes first.
PublishObject(ok) ==
    /\ pc = "publish" /\ mem.left > 0
    /\ LET f == Head(mem.pending)
       IN  \/ /\ f[1] \in Malformed /\ ok
              /\ mem' = Done(mem)
              /\ UNCHANGED <<pc, store, faults>>
           \/ /\ f[1] \notin Malformed /\ Call(ok)
              /\ store' = IF ok THEN [store EXCEPT !.objects[f[1]] = f[2]] ELSE store
              /\ pc' = IF ok THEN "entry" ELSE pc
              /\ mem' = IF ok THEN mem ELSE Retry(mem)
    /\ UNCHANGED <<disk, copies>> /\ UNCHANGED World /\ UNCHANGED Rest

\* upsert_report: the entry replaces the one of its report; the newest
\* MAX_INDEX_ENTRIES stay.
Upsert(index, f) ==
    LET all == {g \in index : g[1] # f[1]} \union {f}
    IN  {g \in all : Cardinality({h \in all : h[1] > g[1]}) < MaxIndexEntries}

PublishEntry(ok) ==
    /\ pc = "entry" /\ Call(ok)
    /\ store' = IF ok THEN [store EXCEPT !.health = Upsert(@, Head(mem.pending))] ELSE store
    /\ mem' = IF ok THEN Done(mem) ELSE Retry(mem)
    /\ pc' = "publish"
    /\ UNCHANGED <<disk, copies>> /\ UNCHANGED World /\ UNCHANGED Rest

\* Every pending report has been tried once: back to the loop, or to the end.
PublishEnd ==
    /\ pc = "publish" /\ mem.left = 0
    /\ pc' = IF ~mem.final THEN "loop" ELSE IF mem.once THEN "finalize" ELSE "done"
    /\ UNCHANGED <<disk, copies, mem, store, faults>> /\ UNCHANGED World /\ UNCHANGED Rest

\* finalize_run_in_index also adds a run the index has missed.
FinalizeRun(ok) ==
    /\ pc = "finalize" /\ Call(ok)
    /\ store' = IF ok THEN [store EXCEPT !.index[run] = "ended"] ELSE store
    /\ pc' = "done"
    /\ UNCHANGED <<disk, copies, mem>> /\ UNCHANGED World /\ UNCHANGED Rest

-----------------------------------------------------------------------------
\* The container is killed, or the driver stops waiting for the collector
\* (LogStreamHandle::shutdown waits SHUTDOWN_SECS and no longer).
Kill ==
    /\ pc \notin {"dead", "done"} /\ run < MaxRuns
    /\ pc' = "dead" /\ engine' = FALSE /\ chan' = <<>> /\ mem' = FreshMem /\ lost' = {}
    /\ UNCHANGED <<run, storage, tee, file, reports, disk, copies, store, faults>>

\* The next run: in the same pod, whose volume keeps the tree, the log and
\* the reports, or in a new one.
Restart(keep) ==
    /\ pc \in {"dead", "done"} /\ run < MaxRuns
    /\ run' = run + 1 /\ pc' = "loop" /\ engine' = TRUE
    /\ mem' = FreshMem
    /\ IF keep THEN UNCHANGED <<file, reports, disk, copies>>
       ELSE /\ file' = [gen |-> file.gen, len |-> 0]
            /\ reports' = [r \in Reports |-> 0]
            /\ disk' = NoLine /\ copies' = [r \in Reports |-> 0]
    /\ lost' = {}
    /\ UNCHANGED <<storage, tee, chan, store, faults>>

Collector ==
    \/ Recv
    \/ \E bad \in SUBSET Reports : Tick(bad \cap Fresh(mem)) \/ Disconnected(bad \cap Fresh(mem))
    \/ \E done \in SUBSET Classes : FlushFails(done)
    \/ \E ok \in BOOLEAN :
          \/ Flush(ok)
          \/ PutLatest(ok)
          \/ PutRun(ok)
          \/ AddRunToIndex(ok)
          \/ PublishObject(ok)
          \/ PublishEntry(ok)
          \/ FinalizeRun(ok)
    \/ PublishEnd

Next ==
    \/ Tee
    \/ WriteLog
    \/ TruncateLog
    \/ \E r \in Reports : WriteReport(r)
    \/ EngineExits
    \/ Collector
    \/ Kill
    \/ \E keep \in BOOLEAN : Restart(keep)

Spec == Init /\ [][Next]_vars

\* The collector is a thread of its own, and its loop never waits longer
\* than the poll interval.
FairSpec == Spec /\ WF_vars(Collector)

-----------------------------------------------------------------------------
\* Types: in particular the queue of unpublished reports and the health
\* index stay within their common cap, and the budget of a run holds.
TypeOK ==
    /\ run \in 1..MaxRuns /\ storage \in BOOLEAN /\ engine \in BOOLEAN
    /\ pc \in {"loop", "flush", "latest", "run", "index", "publish", "entry",
               "finalize", "done", "dead"}
    /\ tee \in 0..MaxTee /\ Len(chan) <= ChannelCapacity
    /\ file \in [gen : 1..MaxGens, len : 0..MaxHalves]
    /\ reports \in [Reports -> Versions] /\ copies \in [Reports -> Versions]
    /\ Len(mem.pending) <= MaxIndexEntries /\ mem.left <= Len(mem.pending)
    /\ mem.total <= MaxTotal
    /\ Cardinality(store.health) <= MaxIndexEntries
    /\ faults \in 0..MaxFaults

\* A reader that follows an index finds an object: every run the run index
\* lists has its bundle, and every report the health index lists has its
\* object, wherever a run was killed and whichever calls failed (the
\* promise of publish_health_report's "object-before-index").
ListedExists ==
    /\ \A n \in 1..MaxRuns : store.index[n] # "absent" => store.runs[n] # None
    /\ \A g \in store.health : store.objects[g[1]] # 0

\* A run adds a line to the tree at most once, however polls meet half lines,
\* truncations and failed writes: a tree that outlives a restart holds at
\* most one copy for each run.
OncePerRun == \A l \in Lines : disk[l] + mem.buf[l] <= run

\* Between two flushes an acknowledged upload with nothing pending means
\* that both objects hold the tree, health reports included.
SentIsWhole ==
    pc = "loop" /\ mem.sent /\ ~Pending(mem) =>
        store.latest = Bundle /\ store.runs[run] = Bundle

\* A collector that ended with an acknowledged upload has delivered
\* everything: each line of a log that was not truncated, the unterminated
\* one too, is in the bundle (the order of the final drain: poll, sweep,
\* finish, flush).
EndDelivers ==
    pc = "done" /\ mem.sent =>
        /\ store.latest = Bundle /\ ~Pending(mem)
        /\ file.gen = 1 => {l \in Lines : l[1] = 1 /\ 2 * l[2] - 1 <= file.len}
                              \subseteq store.latest.lines

\* A copied report is listed, unless it does not parse, a warning says that
\* this run skipped or dropped it, or it is older than a full index.
Listed(r) ==
    \/ copies[r] = 0 \/ r \in Malformed
    \/ \E g \in store.health \union lost : g[1] = r
    \/ Cardinality({g \in store.health : g[1] > r}) = MaxIndexEntries

\* While a run with storage goes on, every copied report ends up listed:
\* neither a failed call nor a kill loses one for good.
Published == pc \in {"dead", "done"} \/ ~storage \/ \A r \in Reports : Listed(r)

\* What holds of the collector and of what it has uploaded at every state.
LogSafe == TypeOK /\ ListedExists /\ OncePerRun /\ SentIsWhole /\ EndDelivers
=============================================================================
