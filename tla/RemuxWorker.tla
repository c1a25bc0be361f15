---------------------------- MODULE RemuxWorker ----------------------------
(***************************************************************************)
(* A remux worker's jobs: each serves what the cache has of its segments,  *)
(* then runs the pipeline from where the cached chain ended, caching as it *)
(* goes.  Several jobs share the cache, and a job of one entry evicts      *)
(* others.  The pipeline is its boundary rule alone (RemuxPipeline).       *)
(***************************************************************************)
EXTENDS RemuxCache

CONSTANTS RemuxJobs, EntryOf, SkipOf,   \* the jobs, their entry and first segment
          Keyframes, Eof, Dur,          \* the input: its keyframes and its end
          Cached                        \* [from, n] of the runs an earlier worker cached, per entry

ASSUME InputAssumption ==
  /\ Keyframes \subseteq Nat /\ Eof \in Nat /\ Dur \in Nat \ {0}
  /\ \A k \in Keyframes : k < Eof
  /\ SkipOf \in [RemuxJobs -> Nat \ {0}] /\ EntryOf \in [RemuxJobs -> Entries]

VARIABLES sess,   \* each job's session
          wire,   \* the event its stream carries, if any
          link    \* its stream: "none", "up", "down"

workerVars == <<cacheVars, sess, wire, link>>

Nothing == "nothing"
NoSeg == [n |-> 0, start |-> 0, end |-> 0, grid |-> FALSE]

\* An event of a job's stream: its files, a manifest or its end.
Event(kind, s) == [kind |-> kind, seg |-> s]
NoEvent == Event("none", NoSeg)
Key(t) == {k \in Keyframes : k >= t}
MinOf(s) == CHOOSE x \in s : \A y \in s : x <= y

\* The boundary rule, from the segment that starts at a: where it ends, and
\* whether the one after it starts where a seek to it would.
EndOf(n, a) == LET next == {k \in Key(n * Dur) : k > a}
               IN IF next = {} THEN Eof ELSE MinOf(next)
Seg(n, a, g) == [n |-> n, start |-> a, end |-> EndOf(n, a), grid |-> g]

Session(place) == [at |-> place, mode |-> "cache", n |-> 0, startAt |-> -1,
                   sentInit |-> FALSE, uncached |-> FALSE, seg |-> NoSeg,
                   total |-> 0, left |-> [k \in {} |-> 0], victim |-> Nothing]

\* What an interrupted run from segment f left on this disk: n segments.
Before(f, n) ==
  LET starts[i \in f .. f + n - 1] ==
        IF i = f THEN MinOf(Key((f - 1) * Dur)) ELSE EndOf(i - 1, starts[i - 1])
      segs == [i \in f .. f + n - 1 |->
                 Seg(i, starts[i], i = f \/ starts[i - 1] < (i - 1) * Dur)]
  IN [dir |-> TRUE, file |-> [i \in 1 .. n + 1 |-> IF i = 1 THEN 0 ELSE f + i - 2],
      idx |-> [init |-> 1, last |-> 0,
               segs |-> [i \in f .. f + n - 1 |->
                           [at |-> i - f + 2, start |-> segs[i].start,
                            end |-> segs[i].end, grid |-> segs[i].grid]]]]

WorkerInit ==
  /\ \E c \in Cached : disk = [k \in Entries |-> IF c[k].n = 0 THEN NoEntry ELSE Before(c[k].from, c[k].n)]
  /\ mem = [k \in Entries |-> NotHeld]
  /\ sess = [j \in RemuxJobs |-> Session("idle")]
  /\ wire = [j \in RemuxJobs |-> NoEvent]
  /\ link = [j \in RemuxJobs |-> "none"]

at(j, s) == sess[j].at = s
K(j) == EntryOf[j]
Goes(j, to) == sess' = [sess EXCEPT ![j].at = to]

\* Put holds the entry's lock while it evicts.
Unlocked(j) ==
  \A i \in RemuxJobs : i # j /\ K(i) = K(j) => ~at(i, "evict")

\* A send needs a stream; the mailbox stands for gRPC's flow control.
CanSend(j) == link[j] = "up" /\ wire[j] = NoEvent
Send(j, ev) == wire' = [wire EXCEPT ![j] = ev] /\ UNCHANGED link
Silent == UNCHANGED <<wire, link>>

\* Remux receives the job: the input is there, or the job is refused.
Begin(j) ==
  /\ at(j, "called")
  /\ \/ Acquire(K(j)) /\ sess' = [sess EXCEPT ![j].at = "open", ![j].n = SkipOf[j]]
     \/ Goes(j, "refused") /\ UNCHANGED cacheVars
  /\ Silent

OpenEntry(j) ==
  /\ at(j, "open") /\ Unlocked(j)
  /\ Open(K(j))
  /\ Goes(j, "init")
  /\ Silent

ReadInit(j) ==
  /\ at(j, "init") /\ Unlocked(j)
  /\ Goes(j, IF HasInit(K(j)) THEN "first" ELSE "run")
  /\ UNCHANGED cacheVars /\ Silent

Unreadable(k, n) == Found(k, n) /\ ~Readable(k, mem[k].idx.segs[n].at)

\* The first segment from the cache must be on the grid; the inits go out
\* before it.
ReadFirst(j) ==
  LET k == K(j)
      n == sess[j].n
      serve == Found(k, n) /\ mem[k].idx.segs[n].grid
  IN /\ at(j, "first") /\ Unlocked(j)
     /\ \/ Unreadable(k, n) /\ Goes(j, "fail") /\ Silent
        \/ ~Unreadable(k, n) /\ ~serve /\ Goes(j, "run") /\ Silent
        \/ /\ ~Unreadable(k, n) /\ serve /\ CanSend(j)
           /\ Send(j, Event("inits", NoSeg))
           /\ sess' = [sess EXCEPT ![j].at = "put", ![j].sentInit = TRUE,
                                   ![j].seg = Segment(k, n)]
     /\ UNCHANGED cacheVars

\* Evict is called: it has something to do when the entries it finds do not
\* fit.
Evicts(j, evict, after) ==
  LET over == MaxBytes > 0 /\ Total(EvictScan') > MaxBytes
  IN sess' = [sess EXCEPT ![j].at = IF over THEN evict ELSE after,
                          ![j].left = IF over THEN EvictScan' ELSE @,
                          ![j].total = IF over THEN Total(EvictScan') ELSE @]

\* session.Segment: into the cache, unless it has refused one, then out.
PutSegment(j) ==
  LET k == K(j)
      s == sess[j].seg
  IN /\ at(j, "put") /\ Unlocked(j)
     /\ \/ /\ sess[j].uncached \/ PutFails(k, s)
           /\ sess' = [sess EXCEPT ![j].at = "send", ![j].uncached = TRUE]
           /\ UNCHANGED cacheVars
        \/ /\ ~sess[j].uncached /\ ~PutFails(k, s) /\ Found(k, s.n)
           /\ Goes(j, "send") /\ UNCHANGED cacheVars
        \/ /\ ~sess[j].uncached /\ ~PutFails(k, s) /\ ~Found(k, s.n)
           /\ Put(k, s)
           /\ Evicts(j, "evict", "send")
     /\ Silent

\* Evict: entry by entry, one that a job holds is passed over, another is
\* removed a moment later.
Evicting(j) == sess[j].at \in {"evict", "evictLast"} /\ sess[j].victim = Nothing

EvictCheck(j) ==
  /\ Evicting(j) /\ sess[j].total > MaxBytes
  /\ \E k \in DOMAIN sess[j].left :
       sess' = [sess EXCEPT ![j].left = IF open(k) THEN Restrict(@, DOMAIN @ \ {k}) ELSE @,
                            ![j].victim = IF open(k) THEN Nothing ELSE k]
  /\ UNCHANGED cacheVars /\ Silent

EvictRemove(j) ==
  LET k == sess[j].victim
  IN /\ k # Nothing
     /\ Remove(k)
     /\ sess' = [sess EXCEPT ![j].victim = Nothing, ![j].total = @ - sess[j].left[k],
                             ![j].left = Restrict(@, DOMAIN @ \ {k})]
     /\ Silent

EvictEnds(j) ==
  /\ Evicting(j)
  /\ sess[j].total <= MaxBytes \/ DOMAIN sess[j].left = {}
  /\ sess' = [sess EXCEPT ![j].at = IF @ = "evict" THEN "send" ELSE "finish",
                          ![j].left = [k \in {} |-> 0], ![j].total = 0]
  /\ UNCHANGED cacheVars /\ Silent

SendSegment(j) ==
  /\ at(j, "send") /\ CanSend(j)
  /\ Send(j, Event("segment", sess[j].seg))
  /\ Goes(j, "sent")
  /\ UNCHANGED cacheVars

\* The mutant serves the next number, wherever it starts.
ChainedByNumber(k, n, end) == Found(k, n)

\* The cached chain goes on while each segment starts where the last ended;
\* past the last segment of all the job is done.
Chained(k, n, end) == Found(k, n) /\ mem[k].idx.segs[n].start = end

ReadNext(j) ==
  LET k == K(j)
      n == sess[j].n + 1
      end == sess[j].seg.end
      on == ~Unreadable(k, n) /\ Chained(k, n, end)
  IN /\ at(j, "sent") /\ sess[j].mode = "cache" /\ Unlocked(j)
     /\ sess' = [sess EXCEPT
          ![j].n = n, ![j].startAt = end,
          ![j].seg = IF on THEN Segment(k, n) ELSE @,
          ![j].at = IF Unreadable(k, n) THEN "fail" ELSE IF on THEN "put"
                    ELSE IF mem[k].idx.last > 0 /\ n > mem[k].idx.last THEN "finish" ELSE "run"]
     /\ UNCHANGED cacheVars /\ Silent

\* pipeline.Run begins: the cache takes the inits or is given up, and the
\* client gets them unless it has them.
RunBegins(j) ==
  LET from == IF sess[j].startAt < 0 THEN (sess[j].n - 1) * Dur ELSE sess[j].startAt
      first == Key(from)
  IN /\ at(j, "run") /\ Unlocked(j)
     /\ SetInit(K(j))
     /\ IF sess[j].sentInit THEN Silent ELSE CanSend(j) /\ Send(j, Event("inits", NoSeg))
     /\ sess' = [sess EXCEPT
          ![j].mode = "run", ![j].sentInit = TRUE,
          ![j].uncached = @ \/ ~disk[K(j)].dir,
          ![j].at = IF first = {} THEN "last" ELSE "put",
          ![j].seg = IF first = {} THEN @
                     ELSE Seg(sess[j].n, MinOf(first), sess[j].startAt < 0)]

\* The pipeline delivers its next segment, or has come to the input's end.
RunGoesOn(j) ==
  LET s == sess[j].seg
  IN /\ at(j, "sent") /\ sess[j].mode = "run"
     /\ sess' = IF s.end = Eof THEN [sess EXCEPT ![j].at = "last"]
                ELSE [sess EXCEPT ![j].at = "put", ![j].n = @ + 1,
                                  ![j].seg = Seg(s.n + 1, s.end, s.start < s.n * Dur)]
     /\ UNCHANGED cacheVars /\ Silent

\* The pipeline fails: the input cannot be read or decoded.
RunFails(j) ==
  /\ at(j, "run") \/ (at(j, "sent") /\ sess[j].mode = "run")
  /\ Goes(j, "fail")
  /\ UNCHANGED cacheVars /\ Silent

RecordLast(j) ==
  /\ at(j, "last") /\ Unlocked(j)
  /\ IF disk[K(j)].dir
       THEN /\ SetLast(K(j), sess[j].n)
            /\ Evicts(j, "evictLast", "finish")
       ELSE /\ mem' = [mem EXCEPT ![K(j)].idx.last = sess[j].n]
            /\ Goes(j, "fail") /\ UNCHANGED disk
  /\ Silent

\* The final manifest, then Done; the entry is closed between the two.
Finish(j) ==
  /\ at(j, "finish") /\ CanSend(j)
  /\ Send(j, Event("final", NoSeg))
  /\ mem' = release(mem, K(j)) /\ UNCHANGED disk
  /\ Goes(j, "done")

SendDone(j) ==
  /\ sess[j].at \in {"done", "fail", "refused"} /\ CanSend(j)
  /\ Send(j, Event(IF at(j, "done") THEN "ok" ELSE "error", NoSeg))
  /\ mem' = IF at(j, "fail") THEN release(mem, K(j)) ELSE mem
  /\ sess' = [sess EXCEPT ![j] = Session("ended")]
  /\ UNCHANGED disk

\* A send on a broken stream ends the job, which closes its entry.
Aborts(j) ==
  /\ link[j] = "down" /\ sess[j].at \notin {"idle", "open", "evict", "evictLast", "ended"}
  /\ mem' = IF sess[j].at \in {"called", "done", "refused"} THEN mem ELSE release(mem, K(j))
  /\ sess' = [sess EXCEPT ![j] = Session("ended")]
  /\ UNCHANGED disk /\ Silent

WorkerJob(j) ==
  \/ Begin(j) \/ OpenEntry(j) \/ ReadInit(j) \/ ReadFirst(j) \/ PutSegment(j)
  \/ EvictCheck(j) \/ EvictRemove(j) \/ EvictEnds(j) \/ SendSegment(j) \/ ReadNext(j)
  \/ RunBegins(j) \/ RunGoesOn(j) \/ RunFails(j) \/ RecordLast(j) \/ Finish(j)
  \/ SendDone(j) \/ Aborts(j)

\* The worker's process ends: its memory and its streams are gone, its disk
\* stays for the next one.
WorkerCrash ==
  /\ mem' = [k \in Entries |-> NotHeld]
  /\ sess' = [j \in RemuxJobs |-> IF at(j, "idle") THEN sess[j] ELSE Session("ended")]
  /\ link' = [j \in RemuxJobs |-> IF link[j] = "up" THEN "down" ELSE link[j]]
  /\ UNCHANGED <<disk, wire>>
=============================================================================
