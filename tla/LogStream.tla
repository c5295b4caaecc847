----------------------------- MODULE LogStream ------------------------------
(***************************************************************************)
(* LogStreamService (src/src/streaming/log-stream.service.ts) of the API   *)
(* process: the listener of NOTIFY job_logs, its restarts when connections *)
(* are lost, and the SSE streams it feeds (sse.controller.ts).             *)
(*                                                                         *)
(* The service has a pool of its own.  A connection taken from it gets     *)
(* handlers for notifications, "error" and "end"; every handler of the two *)
(* last ones gives the current connection back and sets a timer of a       *)
(* second.  Handlers and LISTEN stay with a connection that goes back to   *)
(* the pool in good health, and the next taker adds its own.               *)
(*                                                                         *)
(* node-postgres: a connection that is lost emits "error", then "end".  The*)
(* pool drops a lost connection that is given back; one that is not given  *)
(* back keeps its place in the pool.  A lost connection that lies idle in  *)
(* the pool, and a rejected startListening in a timer, end the process.    *)
(***************************************************************************)
EXTENDS Integers, Sequences, FiniteSets

CONSTANTS
  Conns,      \* the places of the pool (10 by default)
  None,       \* listenClient = null
  Lines,      \* lines of log that jobs append
  Clients,    \* SSE streams
  Wants,      \* lines of the job(s) a stream is of
  Chars,      \* characters of a line
  Width,      \* bytes a character of the line takes in the payload
  Envelope,   \* bytes of the rest of the payload
  MaxLosses   \* bound: connections lost, or not obtained

ASSUME NoneAssumption == None \notin Conns
ASSUME LinesAssumption ==
  /\ Conns # {} /\ IsFiniteSet(Conns)
  /\ Wants \in [Clients -> SUBSET Lines]
  /\ Chars \in [Lines -> Nat] /\ Width \in [Lines -> Nat \ {0}] /\ Envelope \in Nat
  /\ MaxLosses \in Nat

VARIABLES
  up,      \* the API process runs
  conn,    \* the connections of the pool
  current, \* listenClient
  timers,  \* setTimeouts of restart that have not fired
  waiting, \* calls of pool.connect() that wait for a place
  log,     \* table job_logs, in the order of commits
  open,    \* SSE streams that are connected
  got,     \* what each stream has received
  since,   \* history: lines of log before the first one a stream can receive
  calm,    \* history: the stream opened on one listener and none was lost since
  losses   \* counts towards MaxLosses

listener == <<up, conn, current, timers, waiting, losses>>
streams == <<open, got, since, calm>>
vars == <<listener, log, streams>>

\* at: "opening" while pool.connect() is in progress, "used" when taken,
\* "ending" when lost and given back, "broken" when lost and not given back,
\* "dead" when "end" was emitted and it still has its place.  pending: LISTENs
\* without an answer.  sent: notifications on their way.
Connection == [at : {"closed", "opening", "used", "idle", "ending", "broken", "dead"},
               handlers : Nat, listens : BOOLEAN, pending : Nat, sent : Seq(Lines)]

Closed == [at |-> "closed", handlers |-> 0, listens |-> FALSE, pending |-> 0, sent |-> <<>>]

In(states) == {c \in Conns : conn[c].at \in states}

Init ==
  /\ up = FALSE
  /\ conn = [c \in Conns |-> Closed]
  /\ current = None
  /\ timers = 0 /\ waiting = 0 /\ losses = 0
  /\ log = <<>>
  /\ open = {}
  /\ got = [k \in Clients |-> <<>>]
  /\ since = [k \in Clients |-> 0]
  /\ calm = [k \in Clients |-> FALSE]

-----------------------------------------------------------------------------
(* The listener *)

\* onModuleInit: the process serves streams once this has succeeded.
Start(c) ==
  /\ ~up
  /\ up' = TRUE
  /\ conn' = [conn EXCEPT ![c] = [Closed EXCEPT !.at = "used", !.handlers = 1, !.listens = TRUE]]
  /\ current' = c
  /\ UNCHANGED <<timers, waiting, losses, log, streams>>

\* The end of the process, of its connections and of its streams.
Dies ==
  /\ up' = FALSE
  /\ conn' = [c \in Conns |-> Closed]
  /\ current' = None
  /\ timers' = 0 /\ waiting' = 0
  /\ open' = {}
  /\ got' = [k \in Clients |-> <<>>]
  /\ since' = [k \in Clients |-> 0]
  /\ calm' = [k \in Clients |-> FALSE]

\* Mutant: LISTEN is left to the first connection.
TakenDeaf(r) == [r EXCEPT !.at = "used", !.handlers = @ + 1]

\* The process is stopped.  No shutdown hooks are enabled: onModuleDestroy,
\* which would close the pool, is not called.
Stop == up /\ Dies /\ UNCHANGED <<losses, log>>

\* What startListening does with a connection it has got, LISTEN not yet answered.
Taken(r) == [r EXCEPT !.at = "used", !.handlers = @ + 1, !.pending = @ + 1]

\* Mutant: the lost connection is not given back.
RestartsKeeping(n, c, r, waiters) ==
  /\ conn' = [conn EXCEPT ![c] = [r EXCEPT !.at = IF @ = "ending" THEN "broken" ELSE @]]
  /\ current' = None
  /\ timers' = timers + n
  /\ waiting' = waiters

\* Mutant: no timer is set when there is no current connection.
RestartsOnlyCurrent(n, c, r, waiters) ==
  /\ conn' = [d \in Conns |-> IF d = c THEN r
                              ELSE IF d = current THEN [conn[d] EXCEPT !.at = "idle"]
                              ELSE conn[d]]
  /\ current' = None
  /\ timers' = timers
  /\ waiting' = waiters

\* n calls of restart, around a change of the lost connection c to r: the first
\* gives back the current connection, which one of the waiting calls, if there
\* are any, takes at once.
Restarts(n, c, r, waiters) ==
  LET healthy == current \notin {None, c}
      handed == healthy /\ waiters > 0
      back(d) == IF handed THEN Taken(conn[d]) ELSE [conn[d] EXCEPT !.at = "idle"]
  IN /\ conn' = [d \in Conns |-> IF d = c THEN r
                                 ELSE IF d = current THEN back(d)
                                 ELSE conn[d]]
     /\ current' = IF handed THEN current ELSE None
     /\ timers' = timers + n
     /\ waiting' = IF handed THEN waiters - 1 ELSE waiters

Lose ==
  /\ losses < MaxLosses
  /\ losses' = losses + 1

\* "error".  A LISTEN that is rejected, or an idle connection, ends the process.
ConnectionLost(c) ==
  /\ conn[c].at \in {"used", "idle"}
  /\ Lose
  /\ \/ /\ conn[c].at = "idle" \/ conn[c].pending > 0
        /\ Dies
     \/ /\ conn[c].at = "used" /\ conn[c].pending = 0
        /\ Restarts(conn[c].handlers, c,
                    [Closed EXCEPT !.at = IF c = current THEN "ending" ELSE "broken",
                                   !.handlers = conn[c].handlers],
                    waiting)
        /\ calm' = [k \in Clients |-> FALSE]
        /\ UNCHANGED <<up, open, got, since>>
  /\ UNCHANGED log

\* "end" of a connection the pool has dropped: its place goes to a waiting call.
ConnectionEnds(c) ==
  /\ conn[c].at = "ending"
  /\ IF waiting > 0
     THEN Restarts(conn[c].handlers, c, [Closed EXCEPT !.at = "opening"], waiting - 1)
     ELSE Restarts(conn[c].handlers, c, Closed, 0)
  /\ UNCHANGED <<up, losses, log, streams>>

\* "end" of one that was not given back, after a second "error" or without it.
BrokenEnds(c) ==
  /\ conn[c].at = "broken"
  /\ \E times \in 1..2 :
       Restarts(times * conn[c].handlers, c, [Closed EXCEPT !.at = "dead"], waiting)
  /\ UNCHANGED <<up, losses, log, streams>>

\* Mutant: a new connection is opened whether or not one is idle.
TimerFiresOpening ==
  /\ timers > 0
  /\ timers' = timers - 1
  /\ \/ \E c \in In({"closed"}) : conn' = [conn EXCEPT ![c].at = "opening"] /\ UNCHANGED waiting
     \/ In({"closed"}) = {} /\ waiting' = waiting + 1 /\ UNCHANGED conn
  /\ UNCHANGED <<up, current, losses, log, streams>>

\* startListening calls pool.connect(): an idle connection, else a new one,
\* else the call waits.
TimerFires ==
  /\ timers > 0
  /\ timers' = timers - 1
  /\ \/ \E c \in In({"idle"}) :
          /\ conn' = [conn EXCEPT ![c] = Taken(@)]
          /\ current' = c
          /\ UNCHANGED waiting
     \/ /\ In({"idle"}) = {}
        /\ \E c \in In({"closed"}) : conn' = [conn EXCEPT ![c].at = "opening"]
        /\ UNCHANGED <<current, waiting>>
     \/ /\ In({"idle", "closed"}) = {}
        /\ waiting' = waiting + 1
        /\ UNCHANGED <<conn, current>>
  /\ UNCHANGED <<up, losses, log, streams>>

Connected(c) ==
  /\ conn[c].at = "opening"
  /\ conn' = [conn EXCEPT ![c] = Taken(@)]
  /\ current' = c
  /\ UNCHANGED <<up, timers, waiting, losses, log, streams>>

\* The rejection of startListening is not handled.
ConnectFails(c) ==
  /\ conn[c].at = "opening"
  /\ Lose
  /\ Dies
  /\ UNCHANGED log

\* Mutant: more answers than LISTENs.
ListenedUnasked(c) ==
  /\ conn[c].at = "used"
  /\ conn' = [conn EXCEPT ![c].pending = @ - 1, ![c].listens = TRUE]
  /\ UNCHANGED <<up, current, timers, waiting, losses, log, streams>>

\* The database answers LISTEN.
Listened(c) ==
  /\ conn[c].pending > 0
  /\ conn' = [conn EXCEPT ![c].pending = @ - 1, ![c].listens = TRUE]
  /\ UNCHANGED <<up, current, timers, waiting, losses, log, streams>>

-----------------------------------------------------------------------------
(* The lines *)

\* left(log_line, 7000) counts characters; the mark of a cut takes 3 bytes.
PayloadSize(l) ==
  Envelope + IF Chars[l] > 7000 THEN 7000 * Width[l] + 3 ELSE Chars[l] * Width[l]

\* appendLog, in this process or another: the INSERT with its trigger, which
\* fails when the payload is of 8000 bytes or more.  The executor does not
\* wait for the INSERT of one line before the next, so they commit in any order.
AppendLog(l) ==
  /\ l \notin {log[i] : i \in 1..Len(log)}
  /\ PayloadSize(l) < 8000
  /\ log' = Append(log, l)
  /\ conn' = [c \in Conns |-> IF conn[c].listens THEN [conn[c] EXCEPT !.sent = Append(@, l)]
                              ELSE conn[c]]
  /\ UNCHANGED <<up, current, timers, waiting, losses, streams>>

\* Mutant: streamJobLogs without the filter.
ReceivesUnfiltered(k, line) == k \in open

\* The stream of k is open, and the filter of getLogStreamForJob, if it has one,
\* lets the line through.
Receives(k, line) == k \in open /\ line \in Wants[k]

\* A notification: each of the handlers calls logSubject.next.
Deliver(c) ==
  /\ conn[c].sent # <<>>
  /\ conn' = [conn EXCEPT ![c].sent = Tail(@)]
  /\ LET line == Head(conn[c].sent)
         copies == [i \in 1..conn[c].handlers |-> line]
     IN got' = [k \in Clients |-> IF Receives(k, line) THEN got[k] \o copies ELSE got[k]]
  /\ UNCHANGED <<up, current, timers, waiting, losses, log, open, since, calm>>

\* One connection listens, and nothing is about to add another.
OneListener ==
  /\ timers = 0
  /\ \E c \in In({"used"}) :
       /\ conn[c].handlers = 1 /\ conn[c].listens
       /\ \A d \in Conns \ {c} : conn[d].at \in {"closed", "dead"}

\* streamJobLogs, streamAllLogs: a subscription to logSubject, from now on.
Subscribe(k) ==
  /\ up /\ k \notin open
  /\ open' = open \cup {k}
  /\ calm' = [calm EXCEPT ![k] = OneListener]
  /\ since' = [since EXCEPT ![k] =
       IF OneListener THEN Len(log) - Len(conn[CHOOSE c \in In({"used"}) : TRUE].sent) ELSE 0]
  /\ UNCHANGED <<listener, log, got>>

Disconnect(k) ==
  /\ k \in open
  /\ open' = open \ {k}
  /\ got' = [got EXCEPT ![k] = <<>>]
  /\ since' = [since EXCEPT ![k] = 0]
  /\ calm' = [calm EXCEPT ![k] = FALSE]
  /\ UNCHANGED <<listener, log>>

-----------------------------------------------------------------------------
ListenerStep(c) ==
  \/ ConnectionEnds(c) \/ BrokenEnds(c) \/ Connected(c) \/ Listened(c)

Next ==
  \/ TimerFires \/ Stop
  \/ \E c \in Conns : \/ Start(c) \/ ConnectionLost(c) \/ ConnectFails(c)
                      \/ ListenerStep(c) \/ Deliver(c)
  \/ \E l \in Lines : AppendLog(l)
  \/ \E k \in Clients : Subscribe(k) \/ Disconnect(k)

Spec == Init /\ [][Next]_vars

\* Timers fire, and a connection or LISTEN is answered or given up.
FairSpec ==
  /\ Spec
  /\ WF_vars(TimerFires)
  /\ \A c \in Conns : WF_vars(ListenerStep(c) \/ ConnectFails(c))

-----------------------------------------------------------------------------
(* Properties *)

TypeOK ==
  /\ up \in BOOLEAN
  /\ conn \in [Conns -> Connection]
  /\ current \in Conns \cup {None}
  /\ timers \in Nat /\ waiting \in Nat /\ losses \in 0..MaxLosses
  /\ log \in Seq(Lines)
  /\ open \subseteq Clients
  /\ got \in [Clients -> Seq(Lines)]
  /\ since \in [Clients -> Nat]
  /\ calm \in [Clients -> BOOLEAN]

\* The lines of a sequence that stream k is to receive.
Wanted(k, lines) ==
  LET first[n \in 0..Len(lines)] ==
        IF n = 0 THEN <<>>
        ELSE IF lines[n] \in Wants[k] THEN Append(first[n - 1], lines[n])
        ELSE first[n - 1]
  IN first[Len(lines)]

\* A stream that opened on one listener receives, until a connection is lost,
\* each line of its job(s) that is committed, once and in the order of the
\* commits: what it has received and what is on its way to it is the log.
StreamFaithful ==
  \A k \in Clients : calm[k] =>
    \A c \in In({"used"}) :
      got[k] \o Wanted(k, conn[c].sent) = Wanted(k, SubSeq(log, since[k] + 1, Len(log)))

\* Lost connections that are not given back keep their places in the pool, but
\* they never take the last one: without a current connection there is a place
\* that is free or about to be.
PlaceLeft ==
  /\ current = None => In({"closed", "idle", "opening", "ending"}) # {}
  /\ current # None => conn[current].at = "used"

\* While the process is up, the service is listening or about to: it has a
\* connection or a timer, however many were lost and in whatever order.
NeverDeaf == up => timers > 0 \/ In({"opening", "used", "idle", "ending"}) # {}

\* A connection that was given back in good health is taken again before the
\* pool closes it for idleness: a timer is running for each.
IdleRetaken == Cardinality(In({"idle"})) <= timers

\* Whatever is lost, the process ends or some connection LISTENs again.
ListenerReturns == []<>(~up \/ \E c \in In({"used", "idle"}) : conn[c].listens)

\* A stream receives a line once.
ForwardedOnce ==
  \A k \in Clients : \A i, j \in 1..Len(got[k]) : got[k][i] = got[k][j] => i = j
=============================================================================
