----------------------------- MODULE ClientProxy -----------------------------
(***************************************************************************)
(* The TCP proxy beside a pod's Plex (pkg/proxy) and its drain: the head   *)
(* of a plain request is looked at, a library scan may be answered in      *)
(* Plex's place, everything else is piped; a stop waits for the streams.   *)
(*                                                                         *)
(* Time is a tick, bytes are units.  The proxy's own polls are far shorter *)
(* than a tick, so a tick waits for them.                                  *)
(***************************************************************************)
EXTENDS Naturals, FiniteSets

CONSTANTS
  Conns,         \* connections a client may hold
  Idle,          \* streamIdle, in ticks
  StreamBytes,   \* streamBytes, in units
  SendBuffer,    \* what the kernel takes for a client that does not read
  MaxStall,      \* maxDeliveryStall, in ticks
  MaxDelivery,   \* maxDeliveryWait, in ticks
  DrainTicks     \* the drain's timeout, in ticks

ASSUME ProxyAssumption ==
  /\ Idle \in Nat \ {0} /\ StreamBytes \in Nat \ {0}
  /\ SendBuffer >= StreamBytes

VARIABLES
  conn,          \* per connection: the proxy's state, the kernel's and a history
  drainer        \* [at, left, looked]: the supervisor's stop

proxyVars == <<conn, drainer>>

Age == 2 * Idle                  \* older than this is all the same
Least(a, b) == IF a < b THEN a ELSE b

(* A connection: where it is; whether more requests may follow the first;  *)
(* the kernel's queue towards the client; activity's window;               *)
(* awaitDelivery's loop; the bytes of the last ticks.                      *)
Closed == [at |-> "closed", first |-> "none", queue |-> 0, gone |-> FALSE,
           age |-> Age, win |-> 0, prev |-> 0,
           last |-> 0, still |-> 0, waited |-> 0, polled |-> FALSE,
           recent |-> [i \in 0..(Idle - 1) |-> 0], took |-> FALSE]

Serving == [at |-> "serve", left |-> 0, looked |-> FALSE]

ProxyInit == conn = [c \in Conns |-> Closed] /\ drainer = Serving

Is(c, at) == conn[c].at = at
Set(c, r) == conn' = [conn EXCEPT ![c] = r] /\ UNCHANGED drainer

-----------------------------------------------------------------------------
(* activity.add and activity.streaming.                                    *)

Seen(r, n) == [r EXCEPT !.recent[0] = Least(@ + n, StreamBytes)]
add(r, n) ==
  LET rolled == IF r.age >= Idle THEN [r EXCEPT !.prev = r.win, !.win = 0, !.age = 0] ELSE r
  IN Seen([rolled EXCEPT !.win = Least(@ + n, StreamBytes)], n)

(* Mutant: the window before the present one is forgotten.                 *)
thisWindow(r) == r.age < Age /\ r.win >= StreamBytes

streaming(r) ==
  \/ r.age < Idle /\ r.win + r.prev >= StreamBytes
  \/ r.age >= Idle /\ r.age < Age /\ r.win >= StreamBytes

Streams == {c \in Conns : ~Is(c, "closed") /\ streaming(conn[c])}

-----------------------------------------------------------------------------
(* handle.                                                                 *)

(* The first bytes: TLS or too few to say; a head too long or never ended; *)
(* a request; an upgrade; a library scan.                                  *)
Firsts == {"tls", "endless", "request", "upgrade", "scan"}

Accept(c, first) ==
  /\ Is(c, "closed") /\ drainer.at # "stopped"
  /\ Set(c, [Closed EXCEPT !.at = "divert", !.first = first])

(* divert declines, or has nothing to look at: a request's head goes to    *)
(* Plex with Connection: close, anything else as it came.                  *)
Declines(c) ==
  /\ Is(c, "divert")
  /\ Set(c, [conn[c] EXCEPT !.at = "dial",
                            !.first = IF @ \in {"request", "scan"} THEN "only" ELSE "more"])

(* divert claims the scan: answer writes the response and closes.          *)
ClaimsConn(c) ==
  /\ Is(c, "divert") /\ conn[c].first = "scan"
  /\ Set(c, Closed)

Dial(c) == Is(c, "dial") /\ Set(c, [conn[c] EXCEPT !.at = "pipe"])
DialFails(c) == Is(c, "dial") /\ Set(c, Closed)

(* pipe towards the client: what Plex sends goes into the kernel's queue.  *)
Copies(c, n) ==
  /\ Is(c, "pipe") /\ ~conn[c].gone /\ conn[c].queue + n <= SendBuffer
  /\ Set(c, add([conn[c] EXCEPT !.queue = @ + n], n))

(* Plex ends its side, when it likes or after the only answer it was asked *)
(* for; or the client is gone.  awaitDelivery takes its first sample.      *)
CopyEnds(c) ==
  /\ Is(c, "pipe")
  /\ Set(c, [conn[c] EXCEPT !.at = "deliver", !.last = conn[c].queue, !.polled = FALSE])

(* awaitDelivery: all of it taken, a reset, a queue that does not move, or *)
(* a wait that is long enough.                                             *)
DeliveryEnds(c) ==
  /\ Is(c, "deliver")
  /\ \/ conn[c].queue = 0
     \/ conn[c].gone
     \/ conn[c].queue = conn[c].last /\ conn[c].still > MaxStall
     \/ conn[c].waited >= MaxDelivery
  /\ Set(c, [conn[c] EXCEPT !.at = "half", !.queue = 0, !.last = 0,
                             !.still = 0, !.waited = 0, !.polled = FALSE, !.gone = FALSE])

(* A poll: bytes that left the queue are activity.                         *)
DeliveryPolls(c) ==
  /\ Is(c, "deliver") /\ ~conn[c].polled
  /\ conn[c].queue > 0 /\ ~conn[c].gone
  /\ LET left == conn[c].last - conn[c].queue
         r == [conn[c] EXCEPT !.last = conn[c].queue, !.polled = TRUE,
                              !.still = IF left > 0 THEN 0 ELSE @]
     IN Set(c, IF left > 0 THEN add(r, left) ELSE r)

(* The other direction ends too: handle returns.                           *)
HandleReturns(c) == Is(c, "half") /\ Set(c, Closed)

-----------------------------------------------------------------------------
(* The client, external.                                                   *)

Takes(c, n) ==
  /\ conn[c].at \in {"pipe", "deliver"} /\ conn[c].queue >= n /\ ~conn[c].gone
  /\ Set(c, [conn[c] EXCEPT !.queue = @ - n, !.took = (n >= StreamBytes) \/ @])

Vanishes(c) ==
  /\ conn[c].at \in {"pipe", "deliver"} /\ ~conn[c].gone
  /\ Set(c, [conn[c] EXCEPT !.gone = TRUE])

-----------------------------------------------------------------------------
(* Supervisor.drain, TCP.Drain and the stop.                               *)

DrainBegins ==
  /\ drainer.at = "serve"
  /\ drainer' = [at |-> "drain", left |-> DrainTicks, looked |-> FALSE]
  /\ UNCHANGED conn

DrainLooks ==
  /\ drainer.at = "drain"
  /\ \/ Streams = {} /\ drainer' = [drainer EXCEPT !.at = "drained"]
     \/ /\ Streams # {} /\ drainer.left = 0
        /\ drainer' = [drainer EXCEPT !.at = "gaveup"]
     \/ /\ Streams # {} /\ drainer.left > 0 /\ ~drainer.looked
        /\ drainer' = [drainer EXCEPT !.looked = TRUE]
  /\ UNCHANGED conn

(* The proxy's context ends: the listener and every connection close.      *)
Stops ==
  /\ drainer.at \in {"drained", "gaveup"}
  /\ drainer' = [Serving EXCEPT !.at = "stopped"]
  /\ conn' = [c \in Conns |-> Closed]

(* Plex is started again, and its proxy with it.                           *)
ProxyStart == drainer.at = "stopped" /\ drainer' = Serving /\ UNCHANGED conn

Older(r) ==
  [r EXCEPT !.age = Least(@ + 1, Age), !.took = FALSE, !.polled = FALSE,
            !.recent = [i \in 0..(Idle - 1) |-> IF i = 0 THEN 0 ELSE r.recent[i - 1]],
            !.still = IF r.at = "deliver" THEN @ + 1 ELSE 0,
            !.waited = IF r.at = "deliver" THEN @ + 1 ELSE 0]

ProxyTick ==
  /\ \A c \in Conns : Is(c, "deliver") => conn[c].polled /\ conn[c].waited < MaxDelivery
                                          /\ conn[c].still <= MaxStall
  /\ drainer.at = "drain" => drainer.looked /\ drainer.left > 0
  /\ conn' = [c \in Conns |-> IF Is(c, "closed") THEN Closed ELSE Older(conn[c])]
  /\ drainer' = IF drainer.at = "drain"
                THEN [drainer EXCEPT !.left = @ - 1, !.looked = FALSE] ELSE drainer

ProxyNext ==
  \/ \E c \in Conns :
       \/ \E first \in Firsts : Accept(c, first)
       \/ Declines(c) \/ ClaimsConn(c) \/ Dial(c) \/ DialFails(c)
       \/ \E n \in {1, StreamBytes} : Copies(c, n) \/ Takes(c, n)
       \/ CopyEnds(c) \/ DeliveryPolls(c) \/ DeliveryEnds(c) \/ HandleReturns(c)
       \/ Vanishes(c)
  \/ DrainBegins \/ DrainLooks \/ Stops \/ ProxyStart \/ ProxyTick

ProxySpec == ProxyInit /\ [][ProxyNext]_proxyVars

-----------------------------------------------------------------------------
Total(r) == IF Idle = 1 THEN r.recent[0]
            ELSE IF \E i \in 0..(Idle - 1) : r.recent[i] >= StreamBytes THEN StreamBytes
            ELSE Cardinality({i \in 0..(Idle - 1) : r.recent[i] > 0})

(* A drain that ends by itself leaves no stream: no connection the proxy   *)
(* saw move streamBytes in the last streamIdle, wherever its windows began *)
(* (activity.add, activity.streaming, Drain).                              *)
WaitsForStreams ==
  [][ (drainer.at = "drain" /\ drainer'.at = "drained")
        => \A c \in Conns : Is(c, "closed") \/ Total(conn[c]) < StreamBytes ]_proxyVars

(* "a stream part way through a file ... for as long as the connection     *)
(* carrying it keeps moving": none that the client is still taking from    *)
(* the kernel's buffer either.  A connection Plex keeps open has no end of *)
(* copy, so no awaitDelivery.                                              *)
(* The code does not keep it: see the README.                              *)
KeepsMoving ==
  [][ (drainer.at = "drain" /\ drainer'.at = "drained")
        => \A c \in Conns : ~(Is(c, "pipe") /\ conn[c].first = "more" /\ conn[c].took
                               /\ conn[c].queue > 0) ]_proxyVars
=============================================================================
