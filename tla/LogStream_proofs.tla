--------------------------- MODULE LogStream_proofs -------------------------
(***************************************************************************)
(* Theorems about the listener of LogStream, for a pool of any size and    *)
(* any number of lost connections.                                         *)
(***************************************************************************)
EXTENDS LogStream, Selection, FiniteSetTheorems, TLAPS

ListenerTypes ==
  /\ up \in BOOLEAN
  /\ conn \in [Conns -> Connection]
  /\ current \in Conns \cup {None}
  /\ timers \in Nat /\ waiting \in Nat

\* A process that is down has no connection and no timer.
DownInv == ~up => /\ \A c \in Conns : conn[c] = Closed
                  /\ current = None /\ timers = 0 /\ waiting = 0

\* A connection that was taken has the handlers of its takers.
HandlersInv ==
  \A c \in Conns : conn[c].at \in {"used", "idle", "ending", "broken"} => conn[c].handlers > 0

ListenerInv == ListenerTypes /\ DownInv /\ HandlersInv /\ PlaceLeft /\ NeverDeaf

LEMMA ClosedIs == Closed \in Connection /\ Closed.at = "closed" /\ Closed.handlers = 0
<1>1. FALSE \in BOOLEAN /\ <<>> \in Seq(Lines)
  OBVIOUS
<1> QED
  BY <1>1 DEF Closed, Connection

LEMMA TakenIs ==
  ASSUME NEW r \in Connection
  PROVE  Taken(r) \in Connection /\ Taken(r).at = "used" /\ Taken(r).handlers > 0
<1>1. r.handlers + 1 \in Nat /\ r.handlers + 1 > 0 /\ r.pending + 1 \in Nat
  BY DEF Connection
<1>2. ASSUME NEW h \in Nat, NEW p \in Nat
      PROVE  LET t == [r EXCEPT !.at = "used", !.handlers = h, !.pending = p]
             IN t \in Connection /\ t.at = "used" /\ t.handlers = h
  BY DEF Connection
<1> QED
  BY <1>1, <1>2 DEF Taken

LEMMA PlacedIs ==
  ASSUME NEW r \in Connection,
         NEW s \in {"closed", "opening", "used", "idle", "ending", "broken", "dead"}
  PROVE  /\ [r EXCEPT !.at = s] \in Connection
         /\ [r EXCEPT !.at = s].at = s
         /\ [r EXCEPT !.at = s].handlers = r.handlers
  BY DEF Connection

\* A connection with h handlers that is at s.
Bare(s, h) == [Closed EXCEPT !.at = s, !.handlers = h]

LEMMA BareIs ==
  ASSUME NEW h \in Nat,
         NEW s \in {"closed", "opening", "used", "idle", "ending", "broken", "dead"}
  PROVE  Bare(s, h) \in Connection /\ Bare(s, h).at = s /\ Bare(s, h).handlers = h
  BY ClosedIs DEF Bare, Connection

LEMMA PendingIs ==
  ASSUME NEW r \in Connection, NEW p \in Nat
  PROVE  LET t == [r EXCEPT !.pending = p]
         IN t \in Connection /\ t.at = r.at /\ t.handlers = r.handlers
  BY DEF Connection

\* A connection that LISTENs.
LEMMA ListeningIs ==
  ASSUME NEW r \in Connection
  PROVE  LET t == [r EXCEPT !.listens = TRUE]
         IN t \in Connection /\ t.at = r.at /\ t.handlers = r.handlers
<1>1. TRUE \in BOOLEAN
  OBVIOUS
<1>2. ASSUME NEW b \in BOOLEAN
      PROVE  LET t == [r EXCEPT !.listens = b]
             IN t \in Connection /\ t.at = r.at /\ t.handlers = r.handlers
  BY DEF Connection
<1> QED
  BY <1>1, <1>2

LEMMA ListenerInit == Init => ListenerInv
<1> SUFFICES ASSUME Init PROVE ListenerInv
  OBVIOUS
<1>1. \A c \in Conns : conn[c] = Closed
  BY DEF Init
<1>2. ListenerTypes /\ DownInv /\ NeverDeaf
  BY <1>1, ClosedIs DEF Init, ListenerTypes, DownInv, NeverDeaf
<1>3. HandlersInv
  BY <1>1, ClosedIs DEF HandlersInv
<1>4. PlaceLeft
  BY <1>1, ClosedIs, LinesAssumption DEF Init, PlaceLeft, In
<1> QED
  BY <1>2, <1>3, <1>4 DEF ListenerInv

\* What restart leaves, when a connection c that was taken is changed to r.
LEMMA RestartsAre ==
  ASSUME ListenerInv, NEW n \in Nat, n > 0, NEW c \in Conns, NEW r \in Connection,
         NEW w \in Nat, Restarts(n, c, r, w), up, UNCHANGED up,
         r.at \in {"used", "idle", "ending", "broken"} => r.handlers > 0,
         \/ current \notin {None, c}
         \/ r.at \in {"closed", "idle", "opening", "ending"}
         \/ current = None /\ conn[c].at \in {"used", "broken"}
  PROVE  ListenerInv'
<1> USE DEF ListenerInv, ListenerTypes
<1>1. \A d \in Conns : conn[d] \in Connection
  OBVIOUS
<1>2. \A d \in Conns : conn'[d] = IF d = c THEN r
                                  ELSE IF d # current THEN conn[d]
                                  ELSE IF w > 0 THEN Taken(conn[d])
                                  ELSE [conn[d] EXCEPT !.at = "idle"]
  BY NoneAssumption DEF Restarts
<1>3. ListenerTypes'
  <2>1. conn' \in [Conns -> Connection]
    <3>1. \A d \in Conns : conn'[d] \in Connection
      <4> SUFFICES ASSUME NEW d \in Conns PROVE conn'[d] \in Connection
        OBVIOUS
      <4>1. Taken(conn[d]) \in Connection
        BY <1>1, TakenIs
      <4>2. [conn[d] EXCEPT !.at = "idle"] \in Connection
        BY <1>1, PlacedIs
      <4> QED
        BY <1>1, <1>2, <4>1, <4>2
    <3>2. conn' = [d \in Conns |-> conn'[d]]
      BY DEF Restarts
    <3> QED
      BY <3>1, <3>2
  <2> QED
    BY <2>1 DEF Restarts
<1>4. DownInv' /\ NeverDeaf'
  BY DEF Restarts, DownInv, NeverDeaf
<1>5. HandlersInv'
  <2> SUFFICES ASSUME NEW d \in Conns, conn'[d].at \in {"used", "idle", "ending", "broken"}
               PROVE  conn'[d].handlers > 0
    BY DEF HandlersInv
  <2>1. current \in Conns => conn[current].handlers > 0
    BY NoneAssumption DEF PlaceLeft, HandlersInv
  <2> QED
    <3>1. Taken(conn[d]).handlers > 0
      BY <1>1, TakenIs
    <3>2. [conn[d] EXCEPT !.at = "idle"].handlers = conn[d].handlers
      BY <1>1, PlacedIs
    <3>3. CASE d = c
      BY <1>2, <3>3
    <3>4. CASE d # c /\ d = current
      BY <1>2, <2>1, <3>1, <3>2, <3>4
    <3>5. CASE d # c /\ d # current
      BY <1>2, <3>5 DEF HandlersInv
    <3> QED
      BY <3>3, <3>4, <3>5
<1>6. PlaceLeft'
  <2>1. CASE current \notin {None, c} /\ w > 0
    BY <1>1, <1>2, <2>1, TakenIs, NoneAssumption DEF Restarts, PlaceLeft
  <2>2. CASE current \notin {None, c} /\ ~(w > 0)
    <3>1. current \in Conns /\ conn'[current].at = "idle" /\ current' = None
      BY <1>1, <1>2, <2>2, PlacedIs DEF Restarts
    <3> QED
      BY <3>1 DEF PlaceLeft, In
  <2>3. CASE current \in {None, c} /\ r.at \in {"closed", "idle", "opening", "ending"}
    <3>1. conn'[c].at = r.at /\ current' = None
      BY <1>2, <2>3 DEF Restarts
    <3> QED
      BY <2>3, <3>1 DEF PlaceLeft, In
  <2>4. CASE current = None /\ conn[c].at \in {"used", "broken"}
    <3>1. PICK d \in Conns : conn[d].at \in {"closed", "idle", "opening", "ending"}
      BY <2>4 DEF PlaceLeft, In
    <3>2. d # c /\ conn'[d] = conn[d] /\ current' = None
      BY <1>2, <2>4, <3>1, NoneAssumption DEF Restarts
    <3> QED
      BY <3>1, <3>2 DEF PlaceLeft, In
  <2> QED
    BY <2>1, <2>2, <2>3, <2>4
<1> QED
  BY <1>3, <1>4, <1>5, <1>6

\* A connection c is taken: it becomes the current one.
LEMMA TakingKeeps ==
  ASSUME ListenerInv, NEW c \in Conns, UNCHANGED up, up,
         conn' = [conn EXCEPT ![c] = Taken(@)], current' = c,
         timers' \in Nat, waiting' \in Nat
  PROVE  ListenerInv'
<1> USE DEF ListenerInv, ListenerTypes
<1>1. /\ Taken(conn[c]) \in Connection
      /\ Taken(conn[c]).at = "used"
      /\ Taken(conn[c]).handlers > 0
  BY TakenIs
<1>2. conn' \in [Conns -> Connection] /\ conn'[c] = Taken(conn[c])
  BY <1>1
<1>3. ListenerTypes'
  BY <1>2
<1>4. DownInv' /\ PlaceLeft' /\ NeverDeaf'
  BY <1>1, <1>2, NoneAssumption DEF DownInv, PlaceLeft, NeverDeaf, In
<1>5. HandlersInv'
  BY <1>1, <1>2 DEF HandlersInv
<1> QED
  BY <1>3, <1>4, <1>5

\* The listener looks at neither LISTENs nor notifications on their way.
LEMMA PlacesKeep ==
  ASSUME ListenerInv, conn' \in [Conns -> Connection],
         \A c \in Conns : conn'[c].at = conn[c].at /\ conn'[c].handlers = conn[c].handlers,
         UNCHANGED <<current, timers, waiting>>,
         up' \in BOOLEAN, up' => up, ~up' => DownInv'
  PROVE  ListenerInv'
  BY DEF ListenerInv, ListenerTypes, DownInv, HandlersInv, PlaceLeft, NeverDeaf, In

LEMMA DiesIs == ASSUME Dies PROVE ListenerInv'
<1>1. \A c \in Conns : conn'[c] = Closed
  BY DEF Dies
<1>2. conn' \in [Conns -> Connection]
  BY ClosedIs DEF Dies
<1>3. ListenerTypes' /\ DownInv' /\ NeverDeaf'
  BY <1>1, <1>2 DEF Dies, ListenerTypes, DownInv, NeverDeaf
<1>4. HandlersInv' /\ PlaceLeft'
  BY <1>1, ClosedIs, LinesAssumption DEF Dies, HandlersInv, PlaceLeft, In
<1> QED
  BY <1>3, <1>4 DEF ListenerInv

LEMMA ListenerStepKeeps == ListenerInv /\ [Next]_vars => ListenerInv'
<1> SUFFICES ASSUME ListenerInv, [Next]_vars PROVE ListenerInv'
  OBVIOUS
<1> USE DEF ListenerInv, ListenerTypes
<1>0. \A c \in Conns : conn[c] \in Connection /\ conn[c].handlers \in Nat
  BY DEF Connection
<1>d. \A c \in Conns : conn[c].at # "closed" \/ conn[c].pending > 0 \/ conn[c].sent # <<>> => up
  BY ClosedIs DEF DownInv, Closed
<1>1. ASSUME TimerFires PROVE ListenerInv'
  <2>0. up /\ UNCHANGED up /\ timers' \in Nat
    BY <1>1 DEF TimerFires, DownInv
  <2>1. ASSUME NEW c \in In({"idle"}), conn' = [conn EXCEPT ![c] = Taken(@)],
               current' = c, UNCHANGED waiting
        PROVE  ListenerInv'
    BY <2>0, <2>1, TakingKeeps DEF In
  <2>2. ASSUME In({"idle"}) = {}, NEW c \in In({"closed"}),
               conn' = [conn EXCEPT ![c].at = "opening"], UNCHANGED <<current, waiting>>
        PROVE  ListenerInv'
    <3>1. c \in Conns /\ conn[c].at = "closed" /\ current # c
      BY <2>2, NoneAssumption DEF In, PlaceLeft
    <3>2. /\ conn' \in [Conns -> Connection]
          /\ conn'[c].at = "opening"
          /\ \A d \in Conns \ {c} : conn'[d] = conn[d]
      BY <1>0, <2>2, <3>1, PlacedIs
    <3>3. ListenerTypes' /\ DownInv' /\ NeverDeaf'
      BY <2>0, <2>2, <3>1, <3>2 DEF DownInv, NeverDeaf, In
    <3>4. HandlersInv'
      BY <3>1, <3>2 DEF HandlersInv
    <3>5. PlaceLeft'
      BY <2>2, <3>1, <3>2, NoneAssumption DEF PlaceLeft, In
    <3> QED
      BY <3>3, <3>4, <3>5
  <2>3. ASSUME In({"idle", "closed"}) = {}, waiting' = waiting + 1, UNCHANGED <<conn, current>>
        PROVE  ListenerInv'
    <3>1. In({"opening", "used", "ending"}) # {}
      BY <2>3, NoneAssumption DEF PlaceLeft, In
    <3> QED
      BY <2>0, <2>3, <3>1 DEF DownInv, HandlersInv, PlaceLeft, NeverDeaf, In
  <2> QED
    BY <1>1, <2>1, <2>2, <2>3 DEF TimerFires
<1>2. ASSUME NEW c \in Conns, Start(c) PROVE ListenerInv'
  <2>1. \A d \in Conns : conn[d] = Closed
    BY <1>2 DEF Start, DownInv
  <2> DEFINE t == Bare("used", 1)
  <2>3. t \in Connection /\ t.at = "used" /\ t.handlers = 1
    BY BareIs
  <2>4. /\ [t EXCEPT !.listens = TRUE] \in Connection
        /\ [t EXCEPT !.listens = TRUE].at = "used" /\ [t EXCEPT !.listens = TRUE].handlers = 1
    BY <2>3, ListeningIs
  <2>0. conn'[c] = [t EXCEPT !.listens = TRUE]
    BY <1>2 DEF Start, ListenerTypes, Bare
  <2> HIDE DEF t
  <2>5. /\ conn' \in [Conns -> Connection]
        /\ conn'[c].at = "used" /\ conn'[c].handlers = 1
        /\ \A d \in Conns \ {c} : conn'[d] = Closed
    BY <1>2, <2>0, <2>1, <2>4 DEF Start
  <2>6. ListenerTypes' /\ DownInv' /\ NeverDeaf' /\ PlaceLeft'
    BY <1>2, <2>5, NoneAssumption DEF Start, DownInv, NeverDeaf, PlaceLeft, In
  <2>7. HandlersInv'
    BY <2>5, ClosedIs DEF HandlersInv
  <2> QED
    BY <2>6, <2>7
<1>3. ASSUME NEW c \in Conns, ConnectionLost(c) PROVE ListenerInv'
  <2>1. CASE Dies
    BY <2>1, DiesIs
  <2>2. CASE ~Dies
    <3> DEFINE s == IF c = current THEN "ending" ELSE "broken"
               r == Bare(s, conn[c].handlers)
    <3>1. /\ conn[c].at = "used" /\ UNCHANGED up
          /\ Restarts(conn[c].handlers, c, r, waiting)
      BY <1>3, <2>2 DEF ConnectionLost, Bare
    <3>2. up /\ conn[c].handlers > 0
      BY <1>d, <3>1 DEF HandlersInv
    <3>3. s \in {"ending", "broken"} /\ (c = current => s = "ending")
      OBVIOUS
    <3> HIDE DEF s
    <3>4. r \in Connection /\ r.handlers = conn[c].handlers /\ r.at = s
      BY <1>0, <3>3, BareIs
    <3>5. r.handlers > 0 /\ (c = current => r.at = "ending")
      BY <3>2, <3>3, <3>4
    <3> HIDE DEF r
    <3> QED
      BY <1>0, <3>1, <3>2, <3>4, <3>5, RestartsAre
  <2> QED
    BY <2>1, <2>2
<1>4. ASSUME Stop \/ \E c \in Conns : ConnectFails(c) PROVE ListenerInv'
  BY <1>4, DiesIs DEF Stop, ConnectFails
<1>5. ASSUME NEW c \in Conns, ConnectionEnds(c) PROVE ListenerInv'
  <2>1. up /\ conn[c].handlers > 0 /\ UNCHANGED up
    BY <1>5, <1>d DEF ConnectionEnds, HandlersInv
  <2>2. CASE waiting > 0
    <3> DEFINE r == [Closed EXCEPT !.at = "opening"]
    <3>1. r \in Connection /\ r.at = "opening"
      BY ClosedIs, PlacedIs
    <3>2. Restarts(conn[c].handlers, c, r, waiting - 1) /\ waiting - 1 \in Nat
      BY <1>5, <2>2 DEF ConnectionEnds
    <3> HIDE DEF r
    <3> QED
      BY <1>0, <2>1, <3>1, <3>2, RestartsAre
  <2>3. CASE ~(waiting > 0)
    <3>1. Restarts(conn[c].handlers, c, Closed, 0)
      BY <1>5, <2>3 DEF ConnectionEnds
    <3> QED
      BY <1>0, <2>1, <3>1, ClosedIs, RestartsAre
  <2> QED
    BY <2>2, <2>3
<1>6. ASSUME NEW c \in Conns, BrokenEnds(c) PROVE ListenerInv'
  <2> DEFINE r == [Closed EXCEPT !.at = "dead"]
  <2>1. up /\ conn[c].handlers > 0 /\ conn[c].at = "broken" /\ UNCHANGED up
    BY <1>6, <1>d DEF BrokenEnds, HandlersInv
  <2>2. r \in Connection /\ r.at = "dead"
    BY ClosedIs, PlacedIs
  <2>3. PICK times \in 1..2 : Restarts(times * conn[c].handlers, c, r, waiting)
    BY <1>6 DEF BrokenEnds
  <2>4. times * conn[c].handlers \in Nat /\ times * conn[c].handlers > 0
    <3>1. CASE times = 1
      BY <1>0, <2>1, <3>1
    <3>2. CASE times = 2
      BY <1>0, <2>1, <3>2
    <3> QED
      BY <3>1, <3>2
  <2>5. current # c
    BY <2>1, NoneAssumption DEF PlaceLeft
  <2> HIDE DEF r
  <2> QED
    BY <2>1, <2>2, <2>3, <2>4, <2>5, RestartsAre
<1>7. ASSUME NEW c \in Conns, Connected(c) PROVE ListenerInv'
  BY <1>d, <1>7, TakingKeeps DEF Connected
<1>8. ASSUME NEW c \in Conns, Listened(c) PROVE ListenerInv'
  <2>1. up
    BY <1>d, <1>8 DEF Listened
  <2>2. conn[c].pending - 1 \in Nat
    BY <1>0, <1>8 DEF Listened, Connection
  <2>3. PICK t : t = [conn[c] EXCEPT !.pending = @ - 1]
    OBVIOUS
  <2>4. t \in Connection /\ t.at = conn[c].at /\ t.handlers = conn[c].handlers
    BY <1>0, <2>2, <2>3, PendingIs
  <2>5. conn'[c] = [t EXCEPT !.listens = TRUE]
    BY <1>8, <2>3 DEF Listened
  <2>6. /\ conn' \in [Conns -> Connection]
        /\ \A d \in Conns : conn'[d].at = conn[d].at /\ conn'[d].handlers = conn[d].handlers
    BY <1>8, <2>4, <2>5, ListeningIs DEF Listened
  <2> QED
    BY <1>8, <2>1, <2>6, PlacesKeep DEF Listened
<1>9. ASSUME NEW c \in Conns, Deliver(c) PROVE ListenerInv'
  <2>1. up
    BY <1>d, <1>9 DEF Deliver
  <2>2. conn[c].sent \in Seq(Lines) /\ Tail(conn[c].sent) \in Seq(Lines)
    BY <1>9 DEF Deliver, Connection
  <2>3. /\ conn' \in [Conns -> Connection]
        /\ \A d \in Conns : conn'[d].at = conn[d].at /\ conn'[d].handlers = conn[d].handlers
    BY <1>9, <2>2 DEF Deliver, Connection
  <2> QED
    BY <1>9, <2>1, <2>3, PlacesKeep DEF Deliver
<1>10. ASSUME NEW l \in Lines, AppendLog(l) PROVE ListenerInv'
  <2>1. \A d \in Conns : conn[d].listens => up
    BY DEF DownInv, Closed
  <2>2. \A d \in Conns : conn[d].sent \in Seq(Lines) /\ Append(conn[d].sent, l) \in Seq(Lines)
    BY DEF Connection
  <2>3. ASSUME NEW d \in Conns
        PROVE  LET t == [conn[d] EXCEPT !.sent = Append(@, l)]
               IN t \in Connection /\ t.at = conn[d].at /\ t.handlers = conn[d].handlers
    BY <2>2 DEF Connection
  <2>4. /\ conn' \in [Conns -> Connection]
        /\ \A d \in Conns : conn'[d].at = conn[d].at /\ conn'[d].handlers = conn[d].handlers
    BY <1>10, <2>3 DEF AppendLog
  <2>5. ~up => conn' = conn
    BY <1>10, <2>1 DEF AppendLog
  <2> QED
    BY <1>10, <2>4, <2>5, PlacesKeep DEF AppendLog, DownInv
<1>11. ASSUME NEW k \in Clients, Subscribe(k) \/ Disconnect(k) PROVE ListenerInv'
  BY <1>11, PlacesKeep DEF Subscribe, Disconnect, listener, DownInv
<1>12. CASE UNCHANGED vars
  BY <1>12, PlacesKeep DEF vars, listener, DownInv
<1> QED
  BY <1>1, <1>2, <1>3, <1>4, <1>5, <1>6, <1>7, <1>8, <1>9, <1>10, <1>11, <1>12
     DEF Next, ListenerStep

\* While the process is up, the service has a connection or a timer.
THEOREM ListenerAlive == Spec => []NeverDeaf
  BY ListenerInit, ListenerStepKeeps, PTL DEF Spec, ListenerInv

\* Lost connections never take the last place of the pool.
THEOREM PoolUsable == Spec => []PlaceLeft
  BY ListenerInit, ListenerStepKeeps, PTL DEF Spec, ListenerInv

-----------------------------------------------------------------------------
(* Idle connections *)

Idle == In({"idle"})

LEMMA IdleFinite == IsFiniteSet(Idle) /\ Cardinality(Idle) \in Nat
  BY LinesAssumption, FS_Subset, FS_CardinalityType DEF Idle, In

\* No connection becomes idle, and the timers are the same.
LEMMA NoneAdded ==
  ASSUME IdleRetaken, timers \in Nat, timers' = timers, Idle' \subseteq Idle
  PROVE  IdleRetaken'
  BY IdleFinite, FS_Subset, FS_CardinalityType DEF IdleRetaken, Idle

LEMMA NoneLeft ==
  ASSUME timers' \in Nat, Idle' = {}
  PROVE  IdleRetaken'
  BY FS_EmptySet DEF IdleRetaken, Idle

\* restart gives back one connection at most and sets a timer at least.
LEMMA RestartsIdle ==
  ASSUME ListenerInv, IdleRetaken, NEW n \in Nat, n > 0, NEW c \in Conns, NEW r, NEW w,
         r.at # "idle", Restarts(n, c, r, w)
  PROVE  IdleRetaken'
<1> DEFINE S == Idle \cup {current}
<1>1. Idle' \subseteq S
  BY DEF Restarts, Idle, In
<1>2. IsFiniteSet(S) /\ Cardinality(S) \in Nat /\ Cardinality(S) <= Cardinality(Idle) + 1
  <2>1. IsFiniteSet(S) /\ (Cardinality(S) = Cardinality(Idle) \/ Cardinality(S) = Cardinality(Idle) + 1)
    BY IdleFinite, FS_AddElement
  <2> HIDE DEF S
  <2> QED
    BY <2>1, IdleFinite
<1> HIDE DEF S
<1>3. Cardinality(Idle') \in Nat /\ Cardinality(Idle') <= Cardinality(S)
  BY <1>1, <1>2, FS_Subset, FS_CardinalityType
<1>4. timers \in Nat /\ timers' = timers + n
  BY DEF Restarts, ListenerInv, ListenerTypes
<1> QED
  BY <1>2, <1>3, <1>4, IdleFinite DEF IdleRetaken, Idle

LEMMA IdleStep == ListenerInv /\ IdleRetaken /\ [Next]_vars => IdleRetaken'
<1> SUFFICES ASSUME ListenerInv, IdleRetaken, [Next]_vars PROVE IdleRetaken'
  OBVIOUS
<1>0. /\ timers \in Nat /\ conn \in [Conns -> Connection]
      /\ \A c \in Conns : conn[c] \in Connection /\ conn[c].handlers \in Nat
  BY DEF ListenerInv, ListenerTypes, Connection
<1>1. ASSUME TimerFires PROVE IdleRetaken'
  <2>1. timers' = timers - 1 /\ timers' \in Nat
    BY <1>0, <1>1 DEF TimerFires
  <2>2. ASSUME NEW c \in Idle, conn' = [conn EXCEPT ![c] = Taken(@)]
        PROVE  IdleRetaken'
    <3>1. conn'[c].at = "used"
      BY <1>0, <2>2, TakenIs DEF Idle, In
    <3>2. Idle' \subseteq Idle \ {c}
      BY <1>0, <2>2, <3>1 DEF Idle, In
    <3>3. /\ IsFiniteSet(Idle \ {c})
          /\ Cardinality(Idle \ {c}) = Cardinality(Idle) - 1
      BY IdleFinite, FS_RemoveElement
    <3>4. Cardinality(Idle') <= Cardinality(Idle) - 1 /\ Cardinality(Idle') \in Nat
      BY <3>2, <3>3, FS_Subset, FS_CardinalityType
    <3> QED
      BY <1>0, <2>1, <3>4, IdleFinite DEF IdleRetaken, Idle
  <2>3. ASSUME Idle = {}, NEW c \in In({"closed"}), conn' = [conn EXCEPT ![c].at = "opening"]
        PROVE  IdleRetaken'
    <3>1. conn'[c].at = "opening"
      BY <1>0, <2>3, PlacedIs DEF In
    <3> QED
      BY <1>0, <2>1, <2>3, <3>1, NoneLeft DEF Idle, In
  <2>4. ASSUME In({"idle", "closed"}) = {}, UNCHANGED conn PROVE IdleRetaken'
    BY <2>1, <2>4, NoneLeft DEF Idle, In
  <2> QED
    BY <1>1, <2>2, <2>3, <2>4 DEF TimerFires, Idle
<1>2. ASSUME NEW c \in Conns, Start(c) PROVE IdleRetaken'
  <2>1. conn'[c].at # "idle"
    BY <1>0, <1>2 DEF Start
  <2> QED
    BY <1>0, <1>2, <2>1, NoneAdded DEF Start, Idle, In
<1>3. ASSUME Dies PROVE IdleRetaken'
  <2>1. \A c \in Conns : conn'[c] = Closed
    BY <1>3 DEF Dies
  <2> QED
    BY <1>3, <2>1, ClosedIs, NoneLeft DEF Dies, Idle, In
<1>4. ASSUME NEW c \in Conns, ConnectionLost(c), ~Dies PROVE IdleRetaken'
  <2> DEFINE s == IF c = current THEN "ending" ELSE "broken"
             r == Bare(s, conn[c].handlers)
  <2>1. conn[c].at = "used" /\ Restarts(conn[c].handlers, c, r, waiting)
    BY <1>4 DEF ConnectionLost, Bare
  <2>2. conn[c].handlers > 0 /\ r.at # "idle"
    BY <1>0, <2>1, BareIs DEF ListenerInv, HandlersInv
  <2> HIDE DEF r
  <2> QED
    BY <1>0, <2>1, <2>2, RestartsIdle
<1>5. ASSUME NEW c \in Conns, ConnectionEnds(c) PROVE IdleRetaken'
  <2>1. conn[c].handlers > 0
    BY <1>5 DEF ConnectionEnds, ListenerInv, HandlersInv
  <2>2. PICK r, w : Restarts(conn[c].handlers, c, r, w) /\ r.at # "idle"
    BY <1>5, ClosedIs, PlacedIs DEF ConnectionEnds
  <2> QED
    BY <1>0, <2>1, <2>2, RestartsIdle
<1>6. ASSUME NEW c \in Conns, BrokenEnds(c) PROVE IdleRetaken'
  <2> DEFINE r == [Closed EXCEPT !.at = "dead"]
  <2>1. conn[c].handlers > 0
    BY <1>6 DEF BrokenEnds, ListenerInv, HandlersInv
  <2>2. PICK times \in 1..2 : Restarts(times * conn[c].handlers, c, r, waiting)
    BY <1>6 DEF BrokenEnds
  <2>3. times * conn[c].handlers \in Nat /\ times * conn[c].handlers > 0
    <3>1. CASE times = 1
      BY <1>0, <2>1, <3>1
    <3>2. CASE times = 2
      BY <1>0, <2>1, <3>2
    <3> QED
      BY <3>1, <3>2
  <2>4. r.at # "idle"
    BY ClosedIs, PlacedIs
  <2> HIDE DEF r
  <2> QED
    BY <2>2, <2>3, <2>4, RestartsIdle
<1>7. ASSUME NEW c \in Conns, Connected(c) PROVE IdleRetaken'
  <2>1. conn'[c].at = "used"
    BY <1>0, <1>7, TakenIs DEF Connected
  <2> QED
    BY <1>0, <1>7, <2>1, NoneAdded DEF Connected, Idle, In
<1>8. ASSUME NEW c \in Conns, Listened(c) \/ Deliver(c) PROVE IdleRetaken'
  <2>1. conn'[c].at = conn[c].at
    BY <1>0, <1>8 DEF Listened, Deliver, Connection
  <2> QED
    BY <1>0, <1>8, <2>1, NoneAdded DEF Listened, Deliver, Idle, In
<1>9. ASSUME NEW l \in Lines, AppendLog(l) PROVE IdleRetaken'
  <2>1. \A c \in Conns : conn'[c].at = conn[c].at
    BY <1>0, <1>9 DEF AppendLog, Connection
  <2> QED
    BY <1>0, <1>9, <2>1, NoneAdded DEF AppendLog, Idle, In
<1>10. ASSUME NEW k \in Clients, Subscribe(k) \/ Disconnect(k) PROVE IdleRetaken'
  BY <1>0, <1>10, NoneAdded DEF Subscribe, Disconnect, listener, Idle, In
<1>11. CASE UNCHANGED vars
  BY <1>0, <1>11, NoneAdded DEF vars, listener, Idle, In
<1> QED
  BY <1>1, <1>2, <1>3, <1>4, <1>5, <1>6, <1>7, <1>8, <1>9, <1>10, <1>11
     DEF Next, ListenerStep, ConnectFails, Stop

LEMMA IdleInit == Init => IdleRetaken
<1> SUFFICES ASSUME Init PROVE IdleRetaken
  OBVIOUS
<1>1. In({"idle"}) = {}
  BY ClosedIs DEF Init, In
<1>2. Cardinality(In({"idle"})) = 0 /\ timers = 0
  BY <1>1, FS_EmptySet DEF Init
<1> QED
  BY <1>2 DEF IdleRetaken

\* A timer is running for each connection that was given back in good health.
THEOREM IdleTimers == Spec => []IdleRetaken
  BY ListenerInit, ListenerStepKeeps, IdleInit, IdleStep, PTL DEF Spec

-----------------------------------------------------------------------------
(* Sequences that end alike *)

\* s is the end of l.
Ending(s, l) == Len(s) <= Len(l) /\ s = SubSeq(l, Len(l) - Len(s) + 1, Len(l))

LEMMA EndingEmpty ==
  ASSUME NEW S, NEW l \in Seq(S)
  PROVE  Ending(<<>>, l)
<1>1. SubSeq(l, Len(l) + 1, Len(l)) = <<>>
  BY SubSeqEmpty
<1>2. Len(<<>>) = 0 /\ Len(l) \in Nat /\ Len(l) - 0 + 1 = Len(l) + 1
  OBVIOUS
<1> QED
  BY <1>1, <1>2 DEF Ending

\* What follows the first n elements of l.
LEMMA RestIs ==
  ASSUME NEW S, NEW l \in Seq(S), NEW n \in Nat, NEW k \in Nat, Len(l) = n + k, NEW v,
         v = SubSeq(l, n + 1, Len(l))
  PROVE  v \in Seq(S) /\ Len(v) = k /\ \A i \in 1..k : v[i] = l[n + i]
<1>1. PICK a \in Int, b \in Int : a = n + 1 /\ b = Len(l) /\ \A i \in a..b : l[i] \in S
  OBVIOUS
<1>2. /\ v \in Seq(S)
      /\ Len(v) = IF a <= b THEN b - a + 1 ELSE 0
      /\ \A i \in 1..(b - a + 1) : v[i] = l[a + i - 1]
  BY <1>1, SubSeqProperties
<1>3. b - a + 1 = k
  BY <1>1
<1>4. Len(v) = k
  BY <1>1, <1>2, <1>3
<1>5. \A i \in 1..k : a + i - 1 = n + i
  BY <1>1
<1> QED
  BY <1>2, <1>3, <1>4, <1>5

LEMMA AppendIs ==
  ASSUME NEW S, NEW l \in Seq(S), NEW x \in S, NEW k \in Nat, Len(l) = k, NEW m, m = Append(l, x)
  PROVE  /\ m \in Seq(S) /\ Len(m) = k + 1 /\ m[k + 1] = x
         /\ \A i \in 1..k : m[i] = l[i]
  OBVIOUS

LEMMA RestAppend ==
  ASSUME NEW S, NEW l \in Seq(S), NEW x \in S, NEW n \in Nat, n <= Len(l)
  PROVE  SubSeq(Append(l, x), n + 1, Len(l) + 1) = Append(SubSeq(l, n + 1, Len(l)), x)
<1>1. PICK k \in Nat : Len(l) = n + k
  <2>1. Len(l) - n \in Nat /\ Len(l) = n + (Len(l) - n)
    OBVIOUS
  <2> QED
    BY <2>1
<1>2. PICK m : m = Append(l, x)
  OBVIOUS
<1>3. m \in Seq(S) /\ Len(m) = n + (k + 1) /\ m[n + (k + 1)] = x /\ \A i \in 1..(n + k) : m[i] = l[i]
  BY <1>1, <1>2, AppendIs
<1>4. PICK v : v = SubSeq(l, n + 1, Len(l))
  OBVIOUS
<1>5. v \in Seq(S) /\ Len(v) = k /\ \A i \in 1..k : v[i] = l[n + i]
  BY <1>1, <1>4, RestIs
<1>6. PICK w : w = SubSeq(m, n + 1, Len(m))
  OBVIOUS
<1>7. w \in Seq(S) /\ Len(w) = k + 1 /\ \A i \in 1..(k + 1) : w[i] = m[n + i]
  BY <1>3, <1>6, RestIs
<1>8. PICK u : u = Append(v, x)
  OBVIOUS
<1>9. u \in Seq(S) /\ Len(u) = k + 1 /\ u[k + 1] = x /\ \A i \in 1..k : u[i] = v[i]
  BY <1>5, <1>8, AppendIs
<1>10. ASSUME NEW i \in 1..(k + 1) PROVE w[i] = u[i]
  <2>1. CASE i = k + 1
    BY <1>3, <1>7, <1>9, <2>1
  <2>2. CASE i # k + 1
    <3>1. i \in 1..k /\ n + i \in 1..(n + k)
      BY <2>2
    <3> QED
      BY <1>3, <1>5, <1>7, <1>9, <3>1
  <2> QED
    BY <2>1, <2>2
<1>11. w = u
  BY <1>7, <1>9, <1>10, SeqEqual
<1>12. Len(m) = Len(l) + 1
  BY <1>1, <1>3
<1> QED
  BY <1>2, <1>4, <1>6, <1>8, <1>11, <1>12

LEMMA EndingAppend ==
  ASSUME NEW S, NEW s \in Seq(S), NEW l \in Seq(S), NEW x \in S, Ending(s, l)
  PROVE  Ending(Append(s, x), Append(l, x))
<1>1. PICK n \in Nat : n = Len(l) - Len(s) /\ n <= Len(l)
  <2>1. Len(l) - Len(s) \in Nat /\ Len(l) - Len(s) <= Len(l)
    BY DEF Ending
  <2> QED
    BY <2>1
<1>2. s = SubSeq(l, n + 1, Len(l))
  BY <1>1 DEF Ending
<1>3. Append(s, x) = SubSeq(Append(l, x), n + 1, Len(l) + 1)
  BY <1>1, <1>2, RestAppend
<1>4. PICK u, m : u = Append(s, x) /\ m = Append(l, x)
  OBVIOUS
<1>5. Len(u) = Len(s) + 1 /\ Len(m) = Len(l) + 1 /\ Len(s) \in Nat /\ Len(l) \in Nat
  BY <1>4
<1>6. u = SubSeq(m, n + 1, Len(m)) /\ Len(m) - Len(u) = n /\ Len(u) <= Len(m)
  BY <1>1, <1>3, <1>4, <1>5
<1>7. Ending(u, m)
  BY <1>6 DEF Ending
<1> QED
  BY <1>4, <1>7

LEMMA EndingTail ==
  ASSUME NEW S, NEW s \in Seq(S), NEW l \in Seq(S), s # <<>>, Ending(s, l)
  PROVE  Ending(Tail(s), l)
<1> DEFINE n == Len(l)
           k == n - Len(s) + 1
<1>1. Len(s) \in Nat /\ Len(s) > 0 /\ n \in Nat /\ Len(s) <= n /\ Len(Tail(s)) = Len(s) - 1
  BY EmptySeq DEF Ending
<1>2. k \in 1..n /\ n \in k..n /\ k + 1 = n - Len(Tail(s)) + 1
  BY <1>1
<1>3. Tail(SubSeq(l, k, n)) = SubSeq(l, k + 1, n)
  BY <1>2, HeadTailOfSubSeq
<1>4. s = SubSeq(l, k, n)
  BY DEF Ending
<1> QED
  BY <1>1, <1>2, <1>3, <1>4 DEF Ending

-----------------------------------------------------------------------------
(* What a stream has received and what is on its way *)

\* g and what W has of s are what W has of l after its first n elements.
Complete(W, g, s, l, n) == Joined(g, Selected(W, s)) = Selected(W, SubSeq(l, n + 1, Len(l)))

LEMMA CompleteFrom ==
  ASSUME NEW W, NEW S, NEW s \in Seq(S), NEW l \in Seq(S), Ending(s, l), NEW n, n = Len(l) - Len(s)
  PROVE  Complete(W, <<>>, s, l, n) /\ n \in Nat /\ n <= Len(l)
<1>1. n \in Nat /\ n <= Len(l)
  BY DEF Ending
<1>2. s = SubSeq(l, n + 1, Len(l))
  BY DEF Ending
<1>3. PICK a \in Seq(S) : a = Selected(W, s)
  BY SelectedType
<1>4. Joined(<<>>, a) = a
  BY DEF Joined
<1> QED
  BY <1>1, <1>2, <1>3, <1>4 DEF Complete

\* A line is committed.
LEMMA CompleteAppend ==
  ASSUME NEW W, NEW S, NEW g \in Seq(S), NEW s \in Seq(S), NEW l \in Seq(S), NEW x \in S,
         NEW n \in Nat, n <= Len(l), Complete(W, g, s, l, n)
  PROVE  Complete(W, g, Append(s, x), Append(l, x), n)
<1>1. PICK b, m, c : b = SubSeq(l, n + 1, Len(l)) /\ m = Append(l, x) /\ c = SubSeq(m, n + 1, Len(m))
  OBVIOUS
<1>2. Len(m) = Len(l) + 1 /\ Len(l) \in Nat
  BY <1>1
<1>3. b \in Seq(S)
  BY <1>1
<1>7. c = Append(b, x)
  BY <1>1, <1>2, RestAppend
<1>8. PICK t : Extends(s, x, t) /\ t = Append(s, x)
  BY DEF Extends
<1>9. Selected(W, c) = With(W, Selected(W, b), x)
  <2>1. Extends(b, x, c)
    BY <1>7 DEF Extends
  <2> QED
    BY <1>3, <2>1, SelectedAppend
<1>10. Selected(W, t) = With(W, Selected(W, s), x)
  <2>1. Extends(s, x, t)
    BY <1>8
  <2> QED
    BY <2>1, SelectedAppend
<1>11. PICK a \in Seq(S) : a = Selected(W, s)
  BY SelectedType
<1>12. With(W, Joined(g, a), x) = Joined(g, With(W, a, x))
  BY WithConcat
<1>13. Joined(g, a) = Selected(W, b)
  BY <1>1, <1>11 DEF Complete
<1>14. Joined(g, Selected(W, t)) = Selected(W, c)
  BY <1>9, <1>10, <1>11, <1>12, <1>13
<1> QED
  BY <1>1, <1>8, <1>14 DEF Complete

LEMMA JoinedAssociative ==
  ASSUME NEW S, NEW f \in Seq(S), NEW g \in Seq(S), NEW h \in Seq(S)
  PROVE  Joined(Joined(f, g), h) = Joined(f, Joined(g, h))
  BY ConcatAssociative DEF Joined

\* The first line on the way is delivered.
LEMMA CompleteDeliver ==
  ASSUME NEW W, NEW S, NEW g \in Seq(S), NEW s \in Seq(S), s # <<>>, NEW l, NEW n,
         Complete(W, g, s, l, n)
  PROVE  Complete(W, Joined(g, First(W, s)), Tail(s), l, n)
<1>1. PICK f \in Seq(S), r \in Seq(S) : f = First(W, s) /\ r = Tail(s)
  <2>1. Head(s) \in S /\ Tail(s) \in Seq(S)
    BY HeadTailProperties
  <2>2. <<Head(s)>> \in Seq(S) /\ <<>> \in Seq(S)
    BY <2>1
  <2> QED
    BY <2>1, <2>2 DEF First
<1>2. PICK a \in Seq(S) : a = Selected(W, r)
  BY SelectedType
<1>3. Selected(W, s) = Joined(f, a)
  BY <1>1, <1>2, SelectedHead
<1>4. Joined(Joined(g, f), a) = Joined(g, Joined(f, a))
  BY JoinedAssociative
<1> QED
  BY <1>1, <1>2, <1>3, <1>4 DEF Complete

LEMMA WantedIs == ASSUME NEW k, NEW s PROVE Wanted(k, s) = Selected(Wants[k], s)
  BY DEF Wanted, Selected, Selects

-----------------------------------------------------------------------------
(* The notifications on their way are the end of the log *)

Busy == {"used", "idle"}

\* A connection that was lost or not obtained hears nothing; what one that LISTENs has not been
\* handed yet is the end of the log.
Hears(r, lines) ==
  /\ r.at \notin Busy => r.sent = <<>> /\ ~r.listens /\ r.pending = 0
  /\ ~r.listens => r.sent = <<>>
  /\ Ending(r.sent, lines)

SentInv == log \in Seq(Lines) /\ \A c \in Conns : Hears(conn[c], log)

LEMMA TakenKeeps ==
  ASSUME NEW r \in Connection
  PROVE  Taken(r).sent = r.sent /\ Taken(r).listens = r.listens
  BY DEF Connection, Taken

LEMMA PlacedKeeps ==
  ASSUME NEW r \in Connection, NEW s
  PROVE  /\ [r EXCEPT !.at = s].at = s
         /\ [r EXCEPT !.at = s].sent = r.sent /\ [r EXCEPT !.at = s].listens = r.listens
         /\ [r EXCEPT !.at = s].pending = r.pending
  BY DEF Connection

LEMMA BareHears ==
  ASSUME NEW s, NEW h, log \in Seq(Lines)
  PROVE  Hears(Bare(s, h), log) /\ Hears(Closed, log) /\ Hears([Closed EXCEPT !.at = s], log)
<1>1. Ending(<<>>, log)
  BY EndingEmpty
<1>2. Closed.sent = <<>> /\ ~Closed.listens /\ Closed.pending = 0
  BY DEF Closed
<1>3. Bare(s, h).sent = <<>> /\ ~Bare(s, h).listens /\ Bare(s, h).pending = 0
  BY DEF Bare, Closed
<1>4. PICK t : t = [Closed EXCEPT !.at = s]
  OBVIOUS
<1>5. t.sent = <<>> /\ ~t.listens /\ t.pending = 0
  BY <1>4 DEF Closed
<1>6. Hears(Closed, log)
  BY <1>1, <1>2 DEF Hears
<1>7. Hears(Bare(s, h), log)
  BY <1>1, <1>3 DEF Hears
<1>8. Hears(t, log)
  BY <1>1, <1>5 DEF Hears
<1> QED
  BY <1>4, <1>6, <1>7, <1>8

\* A taken connection that hears the end of the log still does.
LEMMA TakenHears ==
  ASSUME NEW r \in Connection, Hears(r, log)
  PROVE  Hears(Taken(r), log)
<1>1. Taken(r).at = "used" /\ Taken(r).sent = r.sent /\ Taken(r).listens = r.listens
  BY TakenIs, TakenKeeps
<1> QED
  BY <1>1 DEF Hears, Busy

LEMMA RestartsHear ==
  ASSUME ListenerInv, SentInv, NEW n, NEW c \in Conns, NEW r, NEW w, Hears(r, log),
         Restarts(n, c, r, w), log' = log
  PROVE  SentInv'
<1>1. \A d \in Conns : conn[d] \in Connection /\ Hears(conn[d], log)
  BY DEF ListenerInv, ListenerTypes, SentInv
<1>2. ASSUME NEW d \in Conns PROVE Hears(conn'[d], log)
  <2>1. conn'[d] \in {r, conn[d], Taken(conn[d]), [conn[d] EXCEPT !.at = "idle"]}
    BY DEF Restarts
  <2>2. Hears(Taken(conn[d]), log)
    BY <1>1, TakenHears
  <2>3. Hears([conn[d] EXCEPT !.at = "idle"], log)
    <3>1. PICK t : t = [conn[d] EXCEPT !.at = "idle"]
      OBVIOUS
    <3>2. t.at \in Busy /\ t.sent = conn[d].sent /\ t.listens = conn[d].listens
      BY <1>1, <3>1, PlacedKeeps DEF Busy
    <3> QED
      BY <1>1, <3>1, <3>2 DEF Hears
  <2> QED
    BY <1>1, <2>1, <2>2, <2>3
<1> QED
  BY <1>2 DEF SentInv

\* One connection changes, to a record that hears the end of the log.
LEMMA OneHears ==
  ASSUME ListenerInv, SentInv, NEW c \in Conns, NEW r, Hears(r, log),
         conn' = [conn EXCEPT ![c] = r], log' = log
  PROVE  SentInv'
  BY DEF ListenerInv, ListenerTypes, SentInv

LEMMA SentInit == Init => SentInv
  BY BareHears, EmptySeq DEF Init, SentInv

LEMMA SentStep == ListenerInv /\ SentInv /\ [Next]_vars => SentInv'
<1> SUFFICES ASSUME ListenerInv, SentInv, [Next]_vars PROVE SentInv'
  OBVIOUS
<1>0. log \in Seq(Lines) /\ \A c \in Conns : conn[c] \in Connection /\ Hears(conn[c], log)
  BY DEF ListenerInv, ListenerTypes, SentInv
<1>1. CASE TimerFires
  <2>0. log' = log
    BY <1>1 DEF TimerFires, streams
  <2>1. ASSUME NEW c \in In({"idle"}), conn' = [conn EXCEPT ![c] = Taken(@)] PROVE SentInv'
    <3>1. c \in Conns /\ conn' = [conn EXCEPT ![c] = Taken(conn[c])] /\ Hears(Taken(conn[c]), log)
      BY <1>0, <2>1, TakenHears DEF In
    <3> QED
      BY <2>0, <3>1, OneHears
  <2>2. ASSUME NEW c \in In({"closed"}), conn' = [conn EXCEPT ![c].at = "opening"] PROVE SentInv'
    <3>1. PICK t : t = [conn[c] EXCEPT !.at = "opening"]
      OBVIOUS
    <3>2. c \in Conns /\ conn[c].at = "closed" /\ conn' = [conn EXCEPT ![c] = t]
      BY <2>2, <3>1 DEF In
    <3>3. /\ t.sent = conn[c].sent /\ t.listens = conn[c].listens /\ t.pending = conn[c].pending
      BY <1>0, <3>1, <3>2, PlacedKeeps
    <3>4. Hears(t, log)
      BY <1>0, <3>2, <3>3 DEF Hears, Busy
    <3> QED
      BY <2>0, <3>2, <3>4, OneHears
  <2> QED
    BY <1>1, <2>0, <2>1, <2>2 DEF TimerFires, SentInv
<1>2. ASSUME NEW c \in Conns, Start(c) PROVE SentInv'
  <2> DEFINE t == [Closed EXCEPT !.at = "used", !.handlers = 1, !.listens = TRUE]
  <2>1. t.at = "used" /\ t.listens /\ t.sent = <<>>
    BY DEF Closed
  <2>2. conn' = [conn EXCEPT ![c] = t] /\ log' = log
    BY <1>2 DEF Start
  <2> HIDE DEF t
  <2>3. Hears(t, log)
    BY <1>0, <2>1, EndingEmpty DEF Hears, Busy
  <2> QED
    BY <2>2, <2>3, OneHears
<1>3. ASSUME Dies, log' = log PROVE SentInv'
  <2>1. \A c \in Conns : conn'[c] = Closed
    BY <1>3 DEF Dies
  <2> QED
    BY <1>0, <1>3, <2>1, BareHears DEF SentInv
<1>4. ASSUME NEW c \in Conns, ConnectionLost(c), ~Dies PROVE SentInv'
  <2>1. PICK s, h : Restarts(conn[c].handlers, c, Bare(s, h), waiting) /\ log' = log
    BY <1>4 DEF ConnectionLost, Bare
  <2> QED
    BY <1>0, <2>1, BareHears, RestartsHear
<1>5. ASSUME NEW c \in Conns, ConnectionEnds(c) \/ BrokenEnds(c) PROVE SentInv'
  <2>1. PICK n, r, w : /\ Restarts(n, c, r, w) /\ log' = log
                       /\ r \in {Closed, [Closed EXCEPT !.at = "opening"], [Closed EXCEPT !.at = "dead"]}
    BY <1>5 DEF ConnectionEnds, BrokenEnds
  <2>2. Hears(r, log)
    BY <1>0, <2>1, BareHears
  <2> QED
    BY <2>1, <2>2, RestartsHear
<1>6. ASSUME NEW c \in Conns, Connected(c) PROVE SentInv'
  <2>1. conn' = [conn EXCEPT ![c] = Taken(conn[c])] /\ Hears(Taken(conn[c]), log) /\ log' = log
    BY <1>0, <1>6, TakenHears DEF Connected
  <2> QED
    BY <2>1, OneHears
<1>7. ASSUME NEW c \in Conns, Listened(c) PROVE SentInv'
  <2>1. PICK t : t = [conn[c] EXCEPT !.pending = @ - 1, !.listens = TRUE]
    OBVIOUS
  <2>2. conn' = [conn EXCEPT ![c] = t] /\ log' = log
    BY <1>7, <2>1 DEF Listened
  <2>3. t.at = conn[c].at /\ t.sent = conn[c].sent /\ t.listens
    BY <1>0, <2>1 DEF Connection
  <2>4. conn[c].at \in Busy
    BY <1>0, <1>7 DEF Listened, Hears
  <2>5. Hears(t, log)
    BY <1>0, <2>3, <2>4 DEF Hears
  <2> QED
    BY <2>2, <2>5, OneHears
<1>8. ASSUME NEW c \in Conns, Deliver(c) PROVE SentInv'
  <2>1. PICK t : t = [conn[c] EXCEPT !.sent = Tail(@)]
    OBVIOUS
  <2>2. conn' = [conn EXCEPT ![c] = t] /\ log' = log /\ conn[c].sent # <<>>
    BY <1>8, <2>1 DEF Deliver
  <2>3. /\ t.at = conn[c].at /\ t.sent = Tail(conn[c].sent) /\ t.listens = conn[c].listens
        /\ conn[c].sent \in Seq(Lines)
    BY <1>0, <2>1 DEF Connection
  <2>4. conn[c].at \in Busy /\ conn[c].listens /\ Ending(conn[c].sent, log)
    BY <1>0, <2>2 DEF Hears
  <2>5. Ending(t.sent, log)
    BY <1>0, <2>2, <2>3, <2>4, EndingTail
  <2>6. Hears(t, log)
    BY <2>3, <2>4, <2>5 DEF Hears
  <2> QED
    BY <2>2, <2>6, OneHears
<1>9. ASSUME NEW l \in Lines, AppendLog(l) PROVE SentInv'
  <2>1. log' = Append(log, l) /\ log' \in Seq(Lines)
    BY <1>0, <1>9 DEF AppendLog
  <2>2. ASSUME NEW c \in Conns PROVE Hears(conn'[c], log')
    <3>1. CASE conn[c].listens
      <4>1. PICK t : t = [conn[c] EXCEPT !.sent = Append(@, l)]
        OBVIOUS
      <4>2. conn'[c] = t
        BY <1>9, <3>1, <4>1 DEF AppendLog
      <4>3. /\ t.at = conn[c].at /\ t.sent = Append(conn[c].sent, l) /\ t.listens = conn[c].listens
            /\ conn[c].sent \in Seq(Lines)
        BY <1>0, <4>1 DEF Connection
      <4>4. conn[c].at \in Busy /\ Ending(conn[c].sent, log)
        BY <1>0, <3>1 DEF Hears
      <4>5. Ending(t.sent, log')
        BY <1>0, <2>1, <4>3, <4>4, EndingAppend
      <4> QED
        BY <3>1, <4>2, <4>3, <4>4, <4>5 DEF Hears
    <3>2. CASE ~conn[c].listens
      <4>1. conn'[c] = conn[c] /\ conn[c].sent = <<>>
        BY <1>0, <1>9, <3>2 DEF AppendLog, Hears
      <4>2. Ending(conn'[c].sent, log')
        BY <2>1, <4>1, EndingEmpty
      <4> QED
        BY <1>0, <4>1, <4>2 DEF Hears
    <3> QED
      BY <3>1, <3>2
  <2> QED
    BY <2>1, <2>2 DEF SentInv
<1>10. ASSUME UNCHANGED <<conn, log>> PROVE SentInv'
  BY <1>10 DEF SentInv
<1>11. ASSUME NEW c \in Conns, ConnectionLost(c) PROVE SentInv'
  BY <1>3, <1>4, <1>11 DEF ConnectionLost
<1> QED
  BY <1>1, <1>2, <1>3, <1>5, <1>6, <1>7, <1>8, <1>9, <1>10, <1>11
     DEF Next, ListenerStep, Stop, ConnectFails, Subscribe, Disconnect, listener, vars

-----------------------------------------------------------------------------
(* Streams *)

StreamTypes ==
  /\ losses \in 0..MaxLosses
  /\ open \subseteq Clients
  /\ got \in [Clients -> Seq(Lines)]
  /\ since \in [Clients -> Nat]
  /\ calm \in [Clients -> BOOLEAN]

\* c is the only connection that notifies or will.
Alone(c) ==
  /\ conn[c].at = "used" /\ conn[c].handlers = 1 /\ conn[c].listens
  /\ \A d \in Conns \ {c} : conn[d].at \in {"closed", "dead"}

\* What stream k received and what is on its way from c is what was committed since it opened.
Served(k, c) == Complete(Wants[k], got[k], conn[c].sent, log, since[k])

CalmInv ==
  /\ \A k \in Clients \ open : got[k] = <<>> /\ ~calm[k]
  /\ \A k \in Clients : calm[k] => /\ timers = 0 /\ since[k] <= Len(log)
                                   /\ \E c \in Conns : Alone(c) /\ Served(k, c)

LEMMA AloneIs ==
  /\ OneListener <=> timers = 0 /\ \E c \in Conns : Alone(c)
  /\ \A c \in Conns : Alone(c) => In({"used"}) = {c}
  BY DEF OneListener, Alone, In

\* The stream that opens on one listener starts with what is on its way.
LEMMA SubscribeIs ==
  ASSUME ListenerInv, SentInv, NEW k \in Clients, Subscribe(k), StreamTypes
  PROVE  /\ OneListener => \E c \in Conns : Alone(c) /\ since'[k] = Len(log) - Len(conn[c].sent)
         /\ since'[k] \in Nat
<1>1. CASE OneListener
  <2>1. PICK c \in Conns : Alone(c) /\ In({"used"}) = {c}
    BY <1>1, AloneIs
  <2>2. (CHOOSE d \in In({"used"}) : TRUE) = c
    BY <2>1
  <2>3. since'[k] = Len(log) - Len(conn[c].sent)
    BY <1>1, <2>2 DEF Subscribe, StreamTypes
  <2>4. log \in Seq(Lines) /\ conn[c].sent \in Seq(Lines) /\ Ending(conn[c].sent, log)
    BY DEF ListenerInv, ListenerTypes, SentInv, Hears, Connection
  <2>5. Len(log) - Len(conn[c].sent) \in Nat
    BY <2>4 DEF Ending
  <2> QED
    BY <2>1, <2>3, <2>5
<1>2. CASE ~OneListener
  BY <1>2 DEF Subscribe, StreamTypes
<1> QED
  BY <1>1, <1>2

\* What Deliver adds to a stream.
LEMMA CopiesIs ==
  ASSUME NEW n \in Nat, NEW l \in Lines
  PROVE  [i \in 1..n |-> l] \in Seq(Lines)
  OBVIOUS

LEMMA TypesInit == Init => StreamTypes
  BY LinesAssumption, EmptySeq DEF Init, StreamTypes

LEMMA TypesStep == ListenerInv /\ SentInv /\ StreamTypes /\ [Next]_vars => StreamTypes'
<1> SUFFICES ASSUME ListenerInv, SentInv, StreamTypes, [Next]_vars PROVE StreamTypes'
  OBVIOUS
<1>0. <<>> \in Seq(Lines)
  OBVIOUS
<1>1. ASSUME UNCHANGED streams, losses' = losses PROVE StreamTypes'
  BY <1>1 DEF StreamTypes, streams
<1>2. ASSUME Dies, losses' \in 0..MaxLosses PROVE StreamTypes'
  BY <1>0, <1>2 DEF StreamTypes, Dies
<1>3. Lose => losses' \in 0..MaxLosses
  BY LinesAssumption DEF Lose, StreamTypes
<1>4. CASE TimerFires
  BY <1>1, <1>4 DEF TimerFires
<1>5. CASE Stop \/ \E c \in Conns : ConnectFails(c)
  BY <1>2, <1>3, <1>5 DEF Stop, ConnectFails, StreamTypes
<1>6. ASSUME NEW c \in Conns, Start(c) \/ ListenerStep(c) PROVE StreamTypes'
  BY <1>1, <1>6 DEF Start, ListenerStep, ConnectionEnds, BrokenEnds, Connected, Listened
<1>7. ASSUME NEW c \in Conns, ConnectionLost(c) PROVE StreamTypes'
  <2>1. CASE Dies
    BY <1>2, <1>3, <1>7, <2>1 DEF ConnectionLost
  <2>2. CASE ~Dies
    BY <1>3, <1>7, <2>2 DEF ConnectionLost, StreamTypes
  <2> QED
    BY <2>1, <2>2
<1>8. ASSUME NEW c \in Conns, Deliver(c) PROVE StreamTypes'
  <2>1. PICK line \in Lines, copies \in Seq(Lines) :
          got' = [k \in Clients |-> IF Receives(k, line) THEN got[k] \o copies ELSE got[k]]
    <3>1. conn[c].sent \in Seq(Lines) /\ conn[c].sent # <<>> /\ conn[c].handlers \in Nat
      BY <1>8 DEF Deliver, ListenerInv, ListenerTypes, Connection
    <3>2. Head(conn[c].sent) \in Lines
      BY <3>1, HeadTailProperties
    <3> QED
      BY <1>8, <3>1, <3>2, CopiesIs DEF Deliver, Receives
  <2>2. \A k \in Clients : got[k] \o copies \in Seq(Lines) /\ got[k] \in Seq(Lines)
    BY ConcatProperties DEF StreamTypes
  <2> QED
    BY <1>8, <2>1, <2>2 DEF Deliver, StreamTypes
<1>9. ASSUME NEW l \in Lines, AppendLog(l) PROVE StreamTypes'
  BY <1>1, <1>9 DEF AppendLog
<1>10. ASSUME NEW k \in Clients, Subscribe(k) PROVE StreamTypes'
  <2>1. since' \in [Clients -> Nat]
    BY <1>10, SubscribeIs DEF Subscribe, StreamTypes
  <2>2. OneListener \in BOOLEAN
    BY DEF OneListener
  <2>3. calm' \in [Clients -> BOOLEAN]
    BY <1>10, <2>2 DEF Subscribe, StreamTypes
  <2> QED
    BY <1>10, <2>1, <2>3 DEF Subscribe, StreamTypes, listener
<1>11. ASSUME NEW k \in Clients, Disconnect(k) PROVE StreamTypes'
  BY <1>0, <1>11 DEF Disconnect, StreamTypes, listener
<1>12. CASE UNCHANGED vars
  BY <1>1, <1>12 DEF vars, listener
<1> QED
  BY <1>4, <1>5, <1>6, <1>7, <1>8, <1>9, <1>10, <1>11, <1>12 DEF Next

LEMMA CalmInit == Init => CalmInv
  BY DEF Init, CalmInv

\* What ends a process ends its streams.
LEMMA DiesCalms == ASSUME Dies PROVE CalmInv'
  BY DEF Dies, CalmInv

\* While a stream is calm, the listener does nothing by itself.
LEMMA CalmQuiet ==
  ASSUME ListenerInv, SentInv, CalmInv, NEW k \in Clients, calm[k]
  PROVE  /\ timers = 0 /\ up
         /\ \A c \in Conns : conn[c].at \in {"used", "closed", "dead"}
         /\ \A c \in Conns : conn[c].pending > 0 \/ conn[c].sent # <<>> => Alone(c)
<1>1. PICK c \in Conns : Alone(c) /\ timers = 0
  BY DEF CalmInv
<1>2. up
  BY <1>1, ClosedIs DEF Alone, ListenerInv, DownInv
<1>3. \A d \in Conns \ {c} : conn[d].at \in {"closed", "dead"}
                            /\ conn[d].pending = 0 /\ conn[d].sent = <<>>
  BY <1>1 DEF Alone, SentInv, Hears, Busy
<1> QED
  BY <1>1, <1>2, <1>3 DEF Alone

\* The listener changes, the streams do not: then none of them was calm.
LEMMA CalmWithout ==
  ASSUME CalmInv, UNCHANGED streams, \A k \in Clients : ~calm[k]
  PROVE  CalmInv'
  BY DEF CalmInv, streams

\* The line that c hands over is the next one of each stream; there is one handler.
LEMMA CalmDeliver ==
  ASSUME ListenerInv, SentInv, StreamTypes, CalmInv, NEW c \in Conns, Deliver(c)
  PROVE  CalmInv'
<1>0. conn[c] \in Connection /\ conn[c].sent \in Seq(Lines) /\ conn[c].sent # <<>>
  BY DEF Deliver, ListenerInv, ListenerTypes, Connection
<1>1. PICK t : t = [conn[c] EXCEPT !.sent = Tail(@)]
  OBVIOUS
<1>2. /\ t.at = conn[c].at /\ t.handlers = conn[c].handlers /\ t.listens = conn[c].listens
      /\ t.sent = Tail(conn[c].sent)
  BY <1>0, <1>1 DEF Connection
<1>3. conn' = [conn EXCEPT ![c] = t]
  BY <1>1 DEF Deliver
<1>4. conn'[c] = t /\ \A d \in Conns \ {c} : conn'[d] = conn[d]
  BY <1>3 DEF ListenerInv, ListenerTypes
<1>5. \A d \in Conns : Alone(d) => Alone(d)'
  BY <1>2, <1>4 DEF Alone
<1>6. /\ UNCHANGED <<timers, log, open, since, calm>>
      /\ \A k \in Clients \ open : got'[k] = got[k]
  BY DEF Deliver, Receives
<1>7. ASSUME NEW k \in Clients, calm[k] PROVE Alone(c) /\ Served(k, c)'
  <2>1. Alone(c) /\ \A d \in Conns : Alone(d) => d = c
    BY <1>0, <1>7, CalmQuiet DEF Alone
  <2>2. Served(k, c) /\ k \in open
    BY <1>7, <2>1 DEF CalmInv
  <2>3. got'[k] = Joined(got[k], First(Wants[k], conn[c].sent))
    <3> DEFINE line == Head(conn[c].sent)
    <3>1. conn[c].handlers = 1
      BY <2>1 DEF Alone
    <3>2. [i \in 1..1 |-> line] = <<line>>
      OBVIOUS
    <3>3. got'[k] = IF line \in Wants[k] THEN got[k] \o <<line>> ELSE got[k]
      BY <2>2, <3>1, <3>2 DEF Deliver, Receives
    <3>4. got[k] \o <<>> = got[k]
      BY DEF StreamTypes
    <3> QED
      BY <3>3, <3>4 DEF Joined, First
  <2>4. Complete(Wants[k], got'[k], t.sent, log, since[k])
    <3>1. got[k] \in Seq(Lines)
      BY DEF StreamTypes
    <3>2. Complete(Wants[k], got[k], conn[c].sent, log, since[k])
      BY <2>2 DEF Served
    <3>3. Complete(Wants[k], Joined(got[k], First(Wants[k], conn[c].sent)), Tail(conn[c].sent), log, since[k])
      BY <1>0, <3>1, <3>2, CompleteDeliver
    <3> QED
      BY <1>2, <2>3, <3>3
  <2> QED
    BY <1>4, <1>6, <2>1, <2>4 DEF Served
<1> QED
  BY <1>5, <1>6, <1>7 DEF CalmInv

\* A line is committed: it is on its way to each stream.
LEMMA CalmAppend ==
  ASSUME ListenerInv, SentInv, StreamTypes, CalmInv, NEW l \in Lines, AppendLog(l)
  PROVE  CalmInv'
<1>0. log \in Seq(Lines) /\ \A c \in Conns : conn[c] \in Connection /\ conn[c].sent \in Seq(Lines)
  BY DEF SentInv, ListenerInv, ListenerTypes, Connection
<1>1. /\ UNCHANGED <<timers, open, got, since, calm>>
      /\ log' = Append(log, l) /\ Len(log') = Len(log) + 1 /\ Len(log) \in Nat
  BY <1>0 DEF AppendLog, streams
<1>2. ASSUME NEW c \in Conns
      PROVE  /\ conn'[c].at = conn[c].at /\ conn'[c].handlers = conn[c].handlers
             /\ conn'[c].listens = conn[c].listens
             /\ conn[c].listens => conn'[c].sent = Append(conn[c].sent, l)
  BY <1>0 DEF AppendLog, Connection
<1>3. \A c \in Conns : Alone(c) => Alone(c)'
  BY <1>2 DEF Alone
<1>4. ASSUME NEW k \in Clients, calm[k] PROVE \E c \in Conns : Alone(c)' /\ Served(k, c)'
  <2>1. PICK c \in Conns : Alone(c) /\ Served(k, c)
    BY <1>4 DEF CalmInv
  <2>2. conn'[c].sent = Append(conn[c].sent, l)
    BY <1>2, <2>1 DEF Alone
  <2>3. got[k] \in Seq(Lines) /\ since[k] \in Nat /\ since[k] <= Len(log)
    BY <1>4 DEF StreamTypes, CalmInv
  <2>4. Complete(Wants[k], got[k], conn[c].sent, log, since[k])
    BY <2>1 DEF Served
  <2>5. Complete(Wants[k], got[k], Append(conn[c].sent, l), Append(log, l), since[k])
    BY <1>0, <2>3, <2>4, CompleteAppend
  <2>6. Served(k, c)'
    BY <1>1, <2>2, <2>5 DEF Served
  <2> QED
    BY <1>3, <2>1, <2>6
<1>5. \A k \in Clients : calm[k] => timers = 0 /\ since[k] <= Len(log')
  BY <1>1 DEF CalmInv, StreamTypes
<1> QED
  BY <1>1, <1>4, <1>5 DEF CalmInv

LEMMA CalmSubscribe ==
  ASSUME ListenerInv, SentInv, StreamTypes, CalmInv, NEW k \in Clients, Subscribe(k)
  PROVE  CalmInv'
<1>1. /\ UNCHANGED <<timers, conn, log, got>> /\ open' = open \cup {k} /\ k \notin open
      /\ \A j \in Clients \ {k} : since'[j] = since[j] /\ calm'[j] = calm[j]
      /\ calm'[k] = OneListener
  BY DEF Subscribe, listener, StreamTypes
<1>2. got[k] = <<>>
  BY <1>1 DEF CalmInv
<1>3. ASSUME OneListener
      PROVE  timers = 0 /\ since'[k] <= Len(log) /\ \E c \in Conns : Alone(c)' /\ Served(k, c)'
  <2>1. PICK c \in Conns : Alone(c) /\ since'[k] = Len(log) - Len(conn[c].sent)
    BY <1>3, SubscribeIs
  <2>2. log \in Seq(Lines) /\ conn[c].sent \in Seq(Lines) /\ Ending(conn[c].sent, log)
    BY DEF ListenerInv, ListenerTypes, SentInv, Hears, Connection
  <2>3. Complete(Wants[k], <<>>, conn[c].sent, log, since'[k]) /\ since'[k] <= Len(log)
    BY <2>1, <2>2, CompleteFrom
  <2>4. Alone(c)' /\ Served(k, c)'
    BY <1>1, <1>2, <2>1, <2>3 DEF Alone, Served
  <2> QED
    BY <1>3, <2>3, <2>4, AloneIs
<1>4. ASSUME NEW j \in Clients \ {k}, calm[j]
      PROVE  timers = 0 /\ since'[j] <= Len(log) /\ \E c \in Conns : Alone(c)' /\ Served(j, c)'
  BY <1>1, <1>4 DEF CalmInv, Alone, Served
<1> QED
  BY <1>1, <1>3, <1>4 DEF CalmInv

LEMMA CalmStep == ListenerInv /\ SentInv /\ StreamTypes /\ CalmInv /\ [Next]_vars => CalmInv'
<1> SUFFICES ASSUME ListenerInv, SentInv, StreamTypes, CalmInv, [Next]_vars PROVE CalmInv'
  OBVIOUS
<1>1. CASE TimerFires
  BY <1>1, CalmQuiet, CalmWithout DEF TimerFires
<1>2. CASE Stop \/ \E c \in Conns : ConnectFails(c)
  BY <1>2, DiesCalms DEF Stop, ConnectFails
<1>3. ASSUME NEW c \in Conns, Start(c) \/ ConnectionEnds(c) \/ BrokenEnds(c) \/ Connected(c)
      PROVE  CalmInv'
  BY <1>3, CalmQuiet, CalmWithout DEF Start, ConnectionEnds, BrokenEnds, Connected
<1>4. ASSUME NEW c \in Conns, ConnectionLost(c) PROVE CalmInv'
  <2>1. CASE Dies
    BY <2>1, DiesCalms
  <2>2. CASE ~Dies
    BY <1>4, <2>2 DEF ConnectionLost, CalmInv
  <2> QED
    BY <2>1, <2>2
<1>5. ASSUME NEW c \in Conns, Listened(c) PROVE CalmInv'
  <2>0. conn[c] \in Connection
    BY DEF ListenerInv, ListenerTypes
  <2>1. PICK t : t = [conn[c] EXCEPT !.pending = @ - 1, !.listens = TRUE]
    OBVIOUS
  <2>2. /\ t.at = conn[c].at /\ t.handlers = conn[c].handlers /\ t.listens
        /\ t.sent = conn[c].sent
    BY <2>0, <2>1 DEF Connection
  <2>3. conn' = [conn EXCEPT ![c] = t] /\ UNCHANGED <<timers, log, streams>>
    BY <1>5, <2>1 DEF Listened
  <2>4. conn'[c] = t /\ \A d \in Conns \ {c} : conn'[d] = conn[d]
    BY <2>3 DEF ListenerInv, ListenerTypes
  <2>5. \A d \in Conns : Alone(d) => Alone(d)'
    BY <2>2, <2>4 DEF Alone
  <2>6. \A d \in Conns : conn'[d].sent = conn[d].sent
    BY <2>2, <2>4
  <2>7. \A k \in Clients, d \in Conns : Served(k, d) => Served(k, d)'
    BY <2>3, <2>6 DEF Served, streams
  <2> QED
    BY <2>3, <2>5, <2>7 DEF CalmInv, streams
<1>6. ASSUME NEW k \in Clients, Disconnect(k) PROVE CalmInv'
  <2>1. /\ UNCHANGED <<timers, conn, log>> /\ open' = open \ {k}
        /\ got'[k] = <<>> /\ calm'[k] = FALSE
        /\ \A j \in Clients \ {k} : got'[j] = got[j] /\ since'[j] = since[j] /\ calm'[j] = calm[j]
    BY <1>6 DEF Disconnect, listener, StreamTypes
  <2> QED
    BY <2>1 DEF CalmInv, Alone, Served
<1>7. CASE UNCHANGED vars
  BY <1>7 DEF vars, listener, streams, CalmInv, Alone, Served
<1> QED
  BY <1>1, <1>2, <1>3, <1>4, <1>5, <1>6, <1>7, CalmDeliver, CalmAppend, CalmSubscribe
     DEF Next, ListenerStep

LEMMA StreamsInit == Init => ListenerInv /\ SentInv /\ StreamTypes /\ CalmInv
  BY ListenerInit, SentInit, TypesInit, CalmInit

LEMMA StreamsStep ==
  ListenerInv /\ SentInv /\ StreamTypes /\ CalmInv /\ [Next]_vars =>
    ListenerInv' /\ SentInv' /\ StreamTypes' /\ CalmInv'
  BY ListenerStepKeeps, SentStep, TypesStep, CalmStep

\* Every variable has its type.
THEOREM TypeCorrect == Spec => []TypeOK
<1>1. ListenerInv /\ SentInv /\ StreamTypes /\ CalmInv => TypeOK
  BY DEF ListenerInv, ListenerTypes, SentInv, StreamTypes, TypeOK
<1> QED
  BY <1>1, StreamsInit, StreamsStep, PTL DEF Spec

\* A stream that met no loss has received, with what is on its way, every line of its job(s) that
\* was committed since it opened, once and in the order of the commits.
THEOREM StreamsFaithful == Spec => []StreamFaithful
<1>1. CalmInv => StreamFaithful
  <2> SUFFICES ASSUME CalmInv, NEW k \in Clients, calm[k], NEW c \in In({"used"})
               PROVE  got[k] \o Wanted(k, conn[c].sent) = Wanted(k, SubSeq(log, since[k] + 1, Len(log)))
    BY DEF StreamFaithful
  <2>1. Alone(c) /\ Served(k, c)
    BY AloneIs DEF CalmInv
  <2>2. Joined(got[k], Wanted(k, conn[c].sent)) = Wanted(k, SubSeq(log, since[k] + 1, Len(log)))
    BY <2>1, WantedIs DEF Served, Complete
  <2> QED
    BY <2>2 DEF Joined
<1> QED
  BY <1>1, StreamsInit, StreamsStep, PTL DEF Spec
=============================================================================
