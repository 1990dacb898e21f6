----------------------------- MODULE ServerProofs -----------------------------
(* Theorems about the surfaces of the server and the tasks it serves, for    *)
(* every value of the constants: any set of configurations, any number of    *)
(* restarts, requests, handlers and rollups, any depth of the channel.       *)
EXTENDS MCServer, SequenceTheorems, FiniteSetTheorems, TLAPS

-----------------------------------------------------------------------------
(***************************************************************************)
(* The surfaces.  A surface that is being bound or is bound belongs to a   *)
(* configuration that resolved, and where the Unix surface stands tells    *)
(* what lies at the socket path.                                           *)
(***************************************************************************)
HttpWasResolved ==
    http \in {"starting", "bound"} => Resolves(config) /\ HttpEnabled(config)

UnixOwnsPath ==
    /\ unix \in {"starting", "bound"} => process = "resolved"
    /\ process = "resolved" /\ UnixEnabled(config) => unix # "off"
    /\ unix = "bound" => socket = "socket"
    /\ process = "resolved" /\ unix = "done" => socket = "absent"
    /\ process = "resolved" /\ unix = "error" => socket = "other"

SurfaceInv == SurfaceTypeOK /\ HttpWasResolved /\ UnixOwnsPath /\ SocketTidy

\* A surface over HTTP that resolved is encrypted or bound to loopback addresses only.
LEMMA ResolvedIsProtected ==
    ASSUME NEW c, Resolves(c), HttpEnabled(c)
    PROVE  /\ c.token = "set"
           /\ TlsConfig(c) = "on" \/ c.host = "loopback"
                 \/ (c.host = "localhost" /\ c.resolves = "loopback")
<1>1. c.token = "set" /\ TlsConfig(c) # "error"
  BY DEF Resolves
<1>2. TlsConfig(c) = "on" \/ IsStrictLoopbackHost(c)
  BY <1>1 DEF TlsConfig
<1>. QED  BY <1>1, <1>2 DEF IsStrictLoopbackHost

LEMMA SurfaceInvImplies == SurfaceInv => SurfacesSound
  BY ResolvedIsProtected DEF SurfaceInv, SurfacesSound, BoundIsProtected, HttpWasResolved

LEMMA FullType == Full \in [Keys -> 0 .. Burst]
  BY SurfaceAssumption DEF Full

LEMMA SurfaceInitially == SurfaceInit => SurfaceInv
<1>. SUFFICES ASSUME SurfaceInit PROVE SurfaceInv
  OBVIOUS
<1>1. bucket \in [Keys -> 0 .. Burst] /\ starts \in 0 .. MaxStarts
  BY FullType, SurfaceAssumption DEF SurfaceInit
<1>2. SurfaceTypeOK
  BY <1>1 DEF SurfaceInit, SurfaceTypeOK
<1>3. HttpWasResolved /\ UnixOwnsPath /\ SocketTidy
  BY DEF SurfaceInit, HttpWasResolved, UnixOwnsPath, SocketTidy
<1>. QED  BY <1>2, <1>3 DEF SurfaceInv

\* A request that passes the limiter had something left in its bucket.
LEMMA ChargeType ==
    ASSUME bucket \in [Keys -> 0 .. Burst], NEW key
    PROVE  Charge(key) \in [Keys -> 0 .. Burst]
<1>1. CASE Limited(key) = "passed" /\ key \in Keys
  <2>1. bucket[key] # 0 /\ bucket[key] \in 0 .. Burst
    BY <1>1 DEF Limited, Keys
  <2>2. bucket[key] - 1 \in 0 .. Burst
    BY <2>1, SurfaceAssumption
  <2>. QED  BY <1>1, <2>2 DEF Charge
<1>2. CASE Limited(key) = "passed" /\ key \notin Keys
  BY <1>2 DEF Charge
<1>3. CASE Limited(key) # "passed"
  BY <1>3 DEF Charge
<1>. QED  BY <1>1, <1>2, <1>3

LEMMA SurfaceStep ==
    ASSUME SurfaceInv, SurfaceNext
    PROVE  SurfaceInv'
<1>. USE DEF SurfaceInv, SurfaceTypeOK, HttpWasResolved, UnixOwnsPath, SocketTidy
<1>1. CASE Start
  <2>1. bucket' \in [Keys -> 0 .. Burst] /\ starts' \in 0 .. MaxStarts
    BY <1>1, FullType, SurfaceAssumption DEF Start
  <2>. QED  BY <1>1, <2>1 DEF Start
<1>2. CASE BindHttp
  BY <1>2 DEF BindHttp
<1>3. CASE BindUnix
  BY <1>3 DEF BindUnix
<1>4. ASSUME NEW s \in {"http", "unix"}, Open(s) \/ Close(s) PROVE SurfaceInv'
  BY <1>4 DEF Open, Close
<1>5. ASSUME NEW auth \in {"none", "wrong", "expected"}, NEW forwarded \in BOOLEAN,
             HttpRequest(auth, forwarded)
      PROVE  SurfaceInv'
  <2>1. bucket' \in [Keys -> 0 .. Burst]
    BY <1>5, ChargeType DEF HttpRequest
  <2>. QED  BY <1>5, <2>1 DEF HttpRequest
<1>6. ASSUME NEW k \in Keys, Refill(k) PROVE SurfaceInv'
  <2>1. bucket[k] + 1 \in 0 .. Burst
    BY <1>6, SurfaceAssumption DEF Refill
  <2>. QED  BY <1>6, <2>1 DEF Refill
<1>7. CASE CtrlC
  BY <1>7 DEF CtrlC
<1>8. CASE HttpStops
  BY <1>8 DEF HttpStops
<1>9. CASE UnixStops
  BY <1>9 DEF UnixStops
<1>10. CASE JoinError
  BY <1>10 DEF JoinError
<1>11. CASE Exit
  BY <1>11 DEF Exit, Over
<1>12. CASE Killed
  BY <1>12 DEF Killed
<1>. QED
  BY <1>1, <1>2, <1>3, <1>4, <1>5, <1>6, <1>7, <1>8, <1>9, <1>10, <1>11, <1>12 DEF SurfaceNext

LEMMA SurfaceSame ==
    ASSUME SurfaceInv, UNCHANGED surfaceVars
    PROVE  SurfaceInv'
  BY DEF surfaceVars, SurfaceInv, SurfaceTypeOK, HttpWasResolved, UnixOwnsPath, SocketTidy

\* Whatever configurations there are to try and however often the server is started,
\* stopped and killed, a bound HTTP surface has its token and is encrypted or local, and a
\* server that returns by itself leaves no socket file behind (resolve_serve_config,
\* run_unix_surface).
THEOREM SurfacesAreSound == Spec => []SurfacesSound
<1>1. Init => SurfaceInv
  BY SurfaceInitially DEF Init
<1>2. SurfaceInv /\ [Next]_vars => SurfaceInv'
  <2>1. ASSUME SurfaceInv, Surfaces PROVE SurfaceInv'
    BY <2>1, SurfaceStep DEF Surfaces
  <2>2. ASSUME Api \/ Watch \/ Accumulator \/ Batch \/ UNCHANGED vars PROVE UNCHANGED surfaceVars
    BY <2>2 DEF Api, Watch, Accumulator, Batch, vars
  <2>. QED  BY <2>1, <2>2, SurfaceSame DEF Next
<1>. QED  BY <1>1, <1>2, SurfaceInvImplies, PTL DEF Spec

-----------------------------------------------------------------------------
(***************************************************************************)
(* The watch.  The clock never runs back, so nothing published of a task   *)
(* is newer than its record; and the watcher subscribed before it read, so *)
(* what it has passed on the channel is no newer than the last it told.    *)
(***************************************************************************)
Times == 0 .. MaxTime
Rollups == [id : Tasks, state : States, at : Times]

Watchers == [phase : {"absent", "subscribed", "read", "following", "ended"},
             pos : Nat, last : Times, told : Seq(States), lagged : BOOLEAN]
Requests == [step : {"idle", "loaded", "saved"}, id : Tasks, state : States, at : Times]

WatchTypes ==
    /\ clock \in 1 .. MaxTime /\ saves \in 0 .. MaxSaves
    /\ disk \in [Tasks -> [state : States, at : Times]]
    /\ sent \in Seq(Rollups)
    /\ handler \in [Handlers -> Requests]
    /\ watcher \in Watchers
    /\ watcher.pos <= Len(sent)

RecordsAreNewest ==
    /\ \A t \in Tasks : disk[t].at <= clock
    /\ \A h \in Handlers : handler[h].step = "saved" => handler[h].at <= disk[handler[h].id].at
    /\ \A i \in 1 .. Len(sent) : sent[i].at <= disk[sent[i].id].at

ToldSoFar ==
    /\ watcher.phase = "read" => Len(watcher.told) = 1
    /\ watcher.phase \in {"absent", "subscribed"} => Len(watcher.told) = 0
    /\ watcher.phase = "following" =>
          \A i \in 1 .. Len(watcher.told) : ~LifecycleIsTerminal(watcher.told[i])
    /\ \A i \in 1 .. (Len(watcher.told) - 1) : ~LifecycleIsTerminal(watcher.told[i])

LastIsNewest ==
    /\ watcher.last <= disk[Watched].at
    /\ watcher.phase \in {"read", "following"} /\ ~watcher.lagged =>
          \A i \in 1 .. watcher.pos : sent[i].id = Watched => sent[i].at <= watcher.last

WatchInv == WatchTypes /\ RecordsAreNewest /\ ToldSoFar /\ LastIsNewest

LEMMA WatchInvImplies == WatchInv => WatchTypeOK /\ ToldInOrder /\ NoRollupMissed
<1>. SUFFICES ASSUME WatchInv PROVE WatchTypeOK /\ ToldInOrder /\ NoRollupMissed
  OBVIOUS
<1>1. WatchTypeOK
  BY DEF WatchInv, WatchTypes, WatchTypeOK, Watchers, Requests, Times
<1>2. ToldInOrder
  BY DEF WatchInv, ToldSoFar, LastIsNewest, ToldInOrder
<1>3. NoRollupMissed
  BY DEF WatchInv, WatchTypes, LastIsNewest, NoRollupMissed
<1>. QED  BY <1>1, <1>2, <1>3

LEMMA WatchInitially == WatchInit => WatchInv
<1>. SUFFICES ASSUME WatchInit PROVE WatchInv
  OBVIOUS
<1>1. WatchTypes
  BY WatchAssumption DEF WatchInit, WatchTypes, NoRequest, Requests, Watchers, States, Times
<1>2. RecordsAreNewest /\ ToldSoFar /\ LastIsNewest
  BY WatchAssumption DEF WatchInit, RecordsAreNewest, ToldSoFar, LastIsNewest, NoRequest
<1>. QED  BY <1>1, <1>2 DEF WatchInv

\* A step that changes neither the watcher nor what it has passed, and lets no record grow
\* older, keeps what the watcher was told.
LEMMA WatcherUndisturbed ==
    ASSUME WatchInv, WatchTypes', UNCHANGED watcher, disk[Watched].at <= disk'[Watched].at,
           \A i \in 1 .. Len(sent) : sent'[i] = sent[i]
    PROVE  ToldSoFar' /\ LastIsNewest'
<1>1. ToldSoFar'
  BY DEF WatchInv, ToldSoFar
<1>2. watcher.last \in Int /\ disk[Watched].at \in Int /\ disk'[Watched].at \in Int
  BY WatchAssumption DEF WatchInv, WatchTypes, Watchers, Times
<1>3. 1 .. watcher.pos \subseteq 1 .. Len(sent)
  BY DEF WatchInv, WatchTypes, Watchers
<1>4. LastIsNewest'
  BY <1>2, <1>3 DEF WatchInv, LastIsNewest
<1>. QED  BY <1>1, <1>4

LEMMA SaveKeeps ==
    ASSUME WatchInv, NEW t \in Tasks, NEW s \in States,
           disk' = [disk EXCEPT ![t] = [state |-> s, at |-> clock]], UNCHANGED <<clock, sent>>
    PROVE  /\ disk' \in [Tasks -> [state : States, at : Times]]
           /\ disk[Watched].at <= disk'[Watched].at
           /\ \A u \in Tasks : disk[u].at <= disk'[u].at /\ disk'[u].at <= clock
           /\ \A i \in 1 .. Len(sent) : sent[i].at <= disk'[sent[i].id].at
<1>1. disk' \in [Tasks -> [state : States, at : Times]]
  BY DEF WatchInv, WatchTypes, Times
<1>2. \A u \in Tasks : disk[u].at <= disk'[u].at /\ disk'[u].at <= clock
  BY DEF WatchInv, WatchTypes, RecordsAreNewest, Times
<1>3. ASSUME NEW i \in 1 .. Len(sent) PROVE sent[i].at <= disk'[sent[i].id].at
  <2>1. sent[i] \in Rollups
    BY DEF WatchInv, WatchTypes
  <2>2. sent[i].id \in Tasks /\ sent[i].at \in Int
    BY <2>1 DEF Rollups, Times
  <2>3. sent[i].at <= disk[sent[i].id].at
    BY DEF WatchInv, RecordsAreNewest
  <2>4. disk[sent[i].id].at \in Int /\ disk'[sent[i].id].at \in Int
    BY <2>2, <1>1 DEF WatchInv, WatchTypes, Times
  <2>. QED  BY <2>2, <2>3, <2>4, <1>2
<1>. QED  BY <1>1, <1>2, <1>3, WatchAssumption

\* Publishing a rollup that is no newer than the record it is about.
LEMMA PublishKeeps ==
    ASSUME WatchInv, NEW r \in Rollups, sent' = Append(sent, r), r.at <= disk[r.id].at,
           NEW h \in Handlers, handler' = [handler EXCEPT ![h] = NoRequest],
           UNCHANGED <<clock, disk, watcher, saves>>
    PROVE  WatchInv'
<1>1. /\ sent' \in Seq(Rollups) /\ Len(sent') = Len(sent) + 1
      /\ \A i \in 1 .. Len(sent) : sent'[i] = sent[i]
      /\ sent'[Len(sent) + 1] = r
  BY DEF WatchInv, WatchTypes
<1>2. NoRequest \in Requests
  BY WatchAssumption DEF NoRequest, Requests, States, Times
<1>3. WatchTypes'
  <2>1. watcher.pos <= Len(sent')
    BY <1>1 DEF WatchInv, WatchTypes, Watchers
  <2>. QED  BY <1>1, <1>2, <2>1 DEF WatchInv, WatchTypes
<1>4. RecordsAreNewest'
  <2>1. \A g \in Handlers : handler'[g].step = "saved" => handler'[g].at <= disk[handler'[g].id].at
    BY DEF WatchInv, WatchTypes, RecordsAreNewest, NoRequest
  <2>2. \A i \in 1 .. Len(sent') : sent'[i].at <= disk[sent'[i].id].at
    BY <1>1 DEF WatchInv, WatchTypes, RecordsAreNewest
  <2>. QED  BY <2>1, <2>2 DEF WatchInv, RecordsAreNewest
<1>5. disk[Watched].at <= disk'[Watched].at
  BY WatchAssumption DEF WatchInv, WatchTypes, Watchers, Times
<1>. QED  BY <1>1, <1>3, <1>4, <1>5, WatcherUndisturbed DEF WatchInv

LEMMA SavedRequest ==
    ASSUME NEW m \in Requests, NEW c, NEW r, r = [m EXCEPT !.step = "saved", !.at = c]
    PROVE  r = [step |-> "saved", id |-> m.id, state |-> m.state, at |-> c]
  BY DEF Requests

LEMMA HandlerStep ==
    ASSUME WatchInv, NEW h \in Handlers, Save(h) \/ Publish(h) \/ PublishReread(h)
    PROVE  WatchInv'
<1>. DEFINE me == handler[h]
<1>1. /\ me \in Requests
      /\ disk[me.id] \in [state : States, at : Times]
  BY DEF WatchInv, WatchTypes, Requests
<1>2. CASE Save(h)
  <2>1. /\ disk' = [disk EXCEPT ![me.id] = [state |-> me.state, at |-> clock]]
        /\ handler' = [handler EXCEPT ![h].step = "saved", ![h].at = clock]
        /\ UNCHANGED <<clock, sent, watcher, saves>>
    BY <1>2 DEF Save
  <2>2. /\ disk' \in [Tasks -> [state : States, at : Times]]
        /\ disk[Watched].at <= disk'[Watched].at
        /\ \A u \in Tasks : disk[u].at <= disk'[u].at /\ disk'[u].at <= clock
        /\ \A i \in 1 .. Len(sent) : sent[i].at <= disk'[sent[i].id].at
    BY <1>1, <2>1, SaveKeeps DEF Requests
  <2>3. /\ handler' \in [Handlers -> Requests]
        /\ handler'[h].at = clock /\ handler'[h].id = me.id
        /\ \A g \in Handlers \ {h} : handler'[g] = handler[g]
    <3>. DEFINE mine == [step |-> "saved", id |-> me.id, state |-> me.state, at |-> clock]
    <3>1. [me EXCEPT !.step = "saved", !.at = clock] = mine
      BY <1>1, SavedRequest
    <3>2. mine \in Requests
      BY <1>1 DEF WatchInv, WatchTypes, Requests, Times
    <3>3. handler' = [handler EXCEPT ![h] = mine]
      BY <2>1, <3>1
    <3>. QED  BY <3>2, <3>3 DEF WatchInv, WatchTypes
  <2>4. WatchTypes'
    BY <2>1, <2>2, <2>3 DEF WatchInv, WatchTypes
  <2>5. disk'[me.id].at = clock /\ clock \in Int
    BY <1>1, <2>1 DEF WatchInv, WatchTypes, Requests
  <2>6. ASSUME NEW g \in Handlers, handler'[g].step = "saved"
        PROVE  handler'[g].at <= disk'[handler'[g].id].at
    <3>1. CASE g = h
      BY <3>1, <2>3, <2>5
    <3>2. CASE g # h
      <4>1. handler[g].at <= disk[handler[g].id].at /\ handler[g].id \in Tasks /\ handler[g].at \in Int
        BY <3>2, <2>3, <2>6 DEF WatchInv, WatchTypes, Requests, RecordsAreNewest, Times
      <4>2. disk[handler[g].id].at \in Int /\ disk'[handler[g].id].at \in Int
        BY <4>1, <2>2 DEF WatchInv, WatchTypes, Times
      <4>. QED  BY <4>1, <4>2, <2>2, <2>3, <3>2
    <3>. QED  BY <3>1, <3>2
  <2>7. RecordsAreNewest'
    BY <2>1, <2>2, <2>6 DEF RecordsAreNewest
  <2>. QED  BY <2>1, <2>2, <2>4, <2>7, WatcherUndisturbed DEF WatchInv
<1>3. CASE Publish(h)
  <2>. DEFINE r == [id |-> me.id, state |-> me.state, at |-> me.at]
  <2>1. r \in Rollups /\ r.at <= disk[r.id].at
    BY <1>1, <1>3 DEF Publish, Rollups, Requests, WatchInv, RecordsAreNewest
  <2>. QED  BY <1>3, <2>1, PublishKeeps DEF Publish
<1>4. CASE PublishReread(h)
  <2>. DEFINE r == [id |-> me.id, state |-> disk[me.id].state, at |-> disk[me.id].at]
  <2>1. r \in Rollups /\ r.at <= disk[r.id].at
    BY <1>1 DEF Rollups, Requests, Times
  <2>. QED  BY <1>4, <2>1, PublishKeeps DEF PublishReread
<1>. QED  BY <1>2, <1>3, <1>4

LEMMA OtherStep ==
    ASSUME WatchInv,
           \/ Tick
           \/ \E t \in Tasks, s \in States : OtherProcess(t, s)
           \/ \E h \in Handlers, t \in Tasks, s \in States : Load(h, t, s)
    PROVE  WatchInv'
<1>1. CASE Tick
  <2>1. /\ clock' = clock + 1 /\ clock' \in 1 .. MaxTime
        /\ UNCHANGED <<disk, sent, handler, watcher, saves>>
    BY <1>1, WatchAssumption DEF Tick, WatchInv, WatchTypes
  <2>2. WatchTypes'
    BY <2>1 DEF WatchInv, WatchTypes
  <2>3. RecordsAreNewest'
    <3>1. \A t \in Tasks : disk[t].at <= clock'
      BY <2>1 DEF WatchInv, WatchTypes, Requests, RecordsAreNewest, Times
    <3>. QED  BY <2>1, <3>1 DEF WatchInv, RecordsAreNewest
  <2>. QED  BY <2>1, <2>2, <2>3 DEF WatchInv, ToldSoFar, LastIsNewest
<1>2. ASSUME NEW t \in Tasks, NEW s \in States, OtherProcess(t, s) PROVE WatchInv'
  <2>1. /\ disk' = [disk EXCEPT ![t] = [state |-> s, at |-> clock]] /\ saves' \in 0 .. MaxSaves
        /\ UNCHANGED <<clock, sent, handler, watcher>>
    BY <1>2, WatchAssumption DEF OtherProcess, WatchInv, WatchTypes
  <2>2. /\ disk' \in [Tasks -> [state : States, at : Times]]
        /\ disk[Watched].at <= disk'[Watched].at
        /\ \A u \in Tasks : disk[u].at <= disk'[u].at /\ disk'[u].at <= clock
        /\ \A i \in 1 .. Len(sent) : sent[i].at <= disk'[sent[i].id].at
    BY <2>1, SaveKeeps
  <2>3. WatchTypes'
    BY <2>1, <2>2 DEF WatchInv, WatchTypes
  <2>4. ASSUME NEW g \in Handlers, handler[g].step = "saved"
        PROVE  handler[g].at <= disk'[handler[g].id].at
    <3>1. handler[g].at <= disk[handler[g].id].at /\ handler[g].id \in Tasks /\ handler[g].at \in Int
      BY <2>4 DEF WatchInv, WatchTypes, Requests, RecordsAreNewest, Times
    <3>2. disk[handler[g].id].at \in Int /\ disk'[handler[g].id].at \in Int
      BY <3>1, <2>2 DEF WatchInv, WatchTypes, Times
    <3>. QED  BY <3>1, <3>2, <2>2
  <2>5. RecordsAreNewest'
    BY <2>1, <2>2, <2>4 DEF RecordsAreNewest
  <2>. QED  BY <2>1, <2>2, <2>3, <2>5, WatcherUndisturbed DEF WatchInv
<1>3. ASSUME NEW h \in Handlers, NEW t \in Tasks, NEW s \in States, Load(h, t, s) PROVE WatchInv'
  <2>. DEFINE m == [step |-> "loaded", id |-> t, state |-> s, at |-> 0]
  <2>1. /\ handler' = [handler EXCEPT ![h] = m] /\ saves' \in 0 .. MaxSaves
        /\ UNCHANGED <<clock, disk, sent, watcher>>
    BY <1>3, WatchAssumption DEF Load, WatchInv, WatchTypes
  <2>2. m \in Requests
    BY WatchAssumption DEF Requests, Times
  <2>3. WatchTypes'
    BY <2>1, <2>2 DEF WatchInv, WatchTypes
  <2>4. RecordsAreNewest'
    BY <2>1 DEF WatchInv, WatchTypes, RecordsAreNewest
  <2>. QED  BY <2>1, <2>3, <2>4 DEF WatchInv, ToldSoFar, LastIsNewest
<1>. QED  BY <1>1, <1>2, <1>3

\* What receiving a rollup does to the watcher, field by field.
LEMMA FollowIs ==
    ASSUME NEW w \in Watchers, NEW r, r.at \in Times
    PROVE  Follow(w, r) =
             LET fresh == r.id = Watched /\ r.at > w.last
             IN  [phase |-> IF r.id = Watched /\ LifecycleIsTerminal(r.state) THEN "ended" ELSE w.phase,
                  pos |-> w.pos + 1, last |-> IF fresh THEN r.at ELSE w.last,
                  told |-> IF fresh THEN Append(w.told, r.state) ELSE w.told,
                  lagged |-> w.lagged]
<1>1. r.at \in Int /\ w.last \in Int
  BY DEF Watchers, Times
<1>2. CASE r.id # Watched
  BY <1>2 DEF Follow, Watchers
<1>3. CASE r.id = Watched /\ r.at <= w.last
  <2>1. ~(r.at > w.last)
    BY <1>1, <1>3
  <2>2. Follow(w, r) =
          [w EXCEPT !.pos = @ + 1, !.phase = IF LifecycleIsTerminal(r.state) THEN "ended" ELSE @]
    BY <1>3, <2>1 DEF Follow
  <2>. QED  BY <1>3, <2>1, <2>2 DEF Watchers
<1>4. CASE r.id = Watched /\ r.at > w.last
  <2>1. ~(r.at <= w.last)
    BY <1>1, <1>4
  <2>2. Follow(w, r) =
          [w EXCEPT !.pos = @ + 1, !.last = r.at, !.told = Append(@, r.state),
                    !.phase = IF LifecycleIsTerminal(r.state) THEN "ended" ELSE @]
    BY <1>4, <2>1 DEF Follow
  <2>. QED  BY <1>4, <2>2 DEF Watchers
<1>. QED  BY <1>1, <1>2, <1>3, <1>4

\* Steps of the watcher leave the records and the channel as they are.
LEMMA WatcherMoves ==
    ASSUME WatchInv, WatcherStep
    PROVE  WatchInv'
<1>. DEFINE w == watcher
<1>1. /\ w \in Watchers
      /\ w.pos <= Len(sent) /\ Len(sent) \in Nat /\ Buffer \in Nat
      /\ disk[Watched] \in [state : States, at : Times]
  BY WatchAssumption DEF WatchInv, WatchTypes
<1>2. UNCHANGED <<clock, disk, sent, handler, saves>>
  BY DEF WatcherStep, Subscribe, ReadInitial, SpawnFollower, Lagged, Receive
<1>3. RecordsAreNewest'
  BY <1>2 DEF WatchInv, RecordsAreNewest
<1>4. CASE Subscribe
  <2>1. /\ watcher' = [phase |-> "subscribed", pos |-> Len(sent), last |-> w.last,
                        told |-> w.told, lagged |-> w.lagged]
        /\ w.phase = "absent"
    BY <1>1, <1>4 DEF Subscribe, Watchers
  <2>2. WatchTypes'
    BY <1>1, <1>2, <2>1 DEF WatchInv, WatchTypes, Watchers
  <2>3. ToldSoFar'
    BY <2>1 DEF WatchInv, ToldSoFar
  <2>4. LastIsNewest'
    BY <1>2, <2>1 DEF WatchInv, LastIsNewest
  <2>. QED  BY <1>3, <2>2, <2>3, <2>4 DEF WatchInv
<1>5. CASE ReadInitial
  <2>1. /\ watcher'.phase = "read" /\ watcher'.last = disk[Watched].at
        /\ watcher'.told = <<disk[Watched].state>> /\ watcher'.pos = w.pos
        /\ watcher' \in Watchers
    <3>1. watcher' = [phase |-> "read", pos |-> w.pos, last |-> disk[Watched].at,
                      told |-> <<disk[Watched].state>>, lagged |-> w.lagged]
      BY <1>1, <1>5 DEF ReadInitial, Watchers
    <3>2. <<disk[Watched].state>> \in Seq(States) /\ disk[Watched].at \in Times
      BY <1>1
    <3>. QED  BY <1>1, <3>1, <3>2 DEF Watchers
  <2>2. WatchTypes'
    BY <1>1, <1>2, <2>1 DEF WatchInv, WatchTypes
  <2>3. ToldSoFar'
    BY <2>1 DEF ToldSoFar
  <2>4. \A i \in 1 .. w.pos : sent[i].id = Watched => sent[i].at <= disk[Watched].at
    BY <1>1 DEF WatchInv, RecordsAreNewest, Watchers
  <2>5. LastIsNewest'
    BY <1>1, <1>2, <2>1, <2>4 DEF LastIsNewest, Times
  <2>. QED  BY <1>3, <2>2, <2>3, <2>5 DEF WatchInv
<1>6. CASE SpawnFollower
  <2>1. /\ watcher'.phase = IF LifecycleIsTerminal(Head(w.told)) THEN "ended" ELSE "following"
        /\ watcher'.last = w.last /\ watcher'.told = w.told /\ watcher'.pos = w.pos
        /\ watcher'.lagged = w.lagged /\ w.phase = "read"
        /\ watcher' \in Watchers
    BY <1>1, <1>6 DEF SpawnFollower, Watchers
  <2>2. WatchTypes'
    BY <1>1, <1>2, <2>1 DEF WatchInv, WatchTypes
  <2>3. Len(w.told) = 1 /\ Head(w.told) = w.told[1]
    BY <1>1, <2>1 DEF WatchInv, ToldSoFar, Watchers
  <2>4. ToldSoFar'
    BY <2>1, <2>3 DEF ToldSoFar
  <2>5. LastIsNewest'
    BY <1>2, <2>1 DEF WatchInv, LastIsNewest
  <2>. QED  BY <1>3, <2>2, <2>4, <2>5 DEF WatchInv
<1>7. CASE Lagged
  <2>1. /\ watcher' = [phase |-> w.phase, pos |-> Len(sent) - Buffer, last |-> w.last,
                        told |-> w.told, lagged |-> TRUE]
        /\ Len(sent) - w.pos > Buffer
    BY <1>1, <1>7 DEF Lagged, Watchers
  <2>2. WatchTypes'
    BY <1>1, <1>2, <2>1 DEF WatchInv, WatchTypes, Watchers
  <2>3. ToldSoFar'
    BY <2>1 DEF WatchInv, ToldSoFar
  <2>4. LastIsNewest'
    BY <1>2, <2>1 DEF WatchInv, LastIsNewest
  <2>. QED  BY <1>3, <2>2, <2>3, <2>4 DEF WatchInv
<1>8. CASE Receive
  <2>. DEFINE r == sent[w.pos + 1]
              over == LifecycleIsTerminal(r.state)
  <2>1. /\ w.phase = "following" /\ w.pos < Len(sent) /\ watcher' = Follow(w, r)
        /\ r \in Rollups
    BY <1>1, <1>8 DEF Receive, WatchInv, WatchTypes, Watchers
  <2>2. r.at \in Times /\ r.state \in States /\ r.at <= disk[r.id].at
    BY <1>1, <2>1 DEF Rollups, WatchInv, RecordsAreNewest, Watchers
  <2>3. /\ watcher'.pos = w.pos + 1 /\ watcher'.lagged = w.lagged
        /\ watcher' \in Watchers
    <3>1. Append(w.told, r.state) \in Seq(States)
      BY <1>1, <2>2 DEF Watchers
    <3>2. PICK f \in {"following", "ended"}, l \in Times, q \in Seq(States) :
              watcher' = [phase |-> f, pos |-> w.pos + 1, last |-> l, told |-> q, lagged |-> w.lagged]
      <4>1. w.last \in Times /\ w.told \in Seq(States)
        BY <1>1 DEF Watchers
      <4>2. watcher' =
              [phase |-> IF r.id = Watched /\ over THEN "ended" ELSE "following", pos |-> w.pos + 1,
               last |-> IF r.id = Watched /\ r.at > w.last THEN r.at ELSE w.last,
               told |-> IF r.id = Watched /\ r.at > w.last THEN Append(w.told, r.state) ELSE w.told,
               lagged |-> w.lagged]
        BY <1>1, <2>1, <2>2, FollowIs
      <4>. QED  BY <3>1, <4>1, <4>2, <2>2
    <3>3. w.pos + 1 \in Nat /\ w.lagged \in BOOLEAN
      BY <1>1 DEF Watchers
    <3>. QED  BY <3>2, <3>3 DEF Watchers
  <2>4. WatchTypes'
    <3>1. w.pos + 1 <= Len(sent)
      BY <1>1, <2>1 DEF Watchers
    <3>. QED  BY <1>2, <2>3, <3>1 DEF WatchInv, WatchTypes
  <2>5. /\ \A i \in 1 .. Len(w.told) : ~LifecycleIsTerminal(w.told[i])
        /\ w.last <= disk[Watched].at
        /\ ~w.lagged => \A i \in 1 .. w.pos : sent[i].id = Watched => sent[i].at <= w.last
    BY <2>1 DEF WatchInv, ToldSoFar, LastIsNewest
  <2>6. CASE r.id = Watched /\ r.at > w.last
    <3>1. /\ watcher'.last = r.at /\ watcher'.told = Append(w.told, r.state)
          /\ watcher'.phase = IF over THEN "ended" ELSE "following"
      BY <1>1, <2>1, <2>2, <2>6, FollowIs DEF Times, Watchers
    <3>2. /\ Len(watcher'.told) = Len(w.told) + 1 /\ watcher'.told[Len(w.told) + 1] = r.state
          /\ \A i \in 1 .. Len(w.told) : watcher'.told[i] = w.told[i]
      BY <1>1, <2>2, <3>1 DEF Watchers
    <3>3. Len(w.told) \in Nat
      BY <1>1 DEF Watchers
    <3>4. ToldSoFar'
      <4>1. \A i \in 1 .. (Len(watcher'.told) - 1) : ~LifecycleIsTerminal(watcher'.told[i])
        BY <2>5, <3>2, <3>3
      <4>2. ~over => \A i \in 1 .. Len(watcher'.told) : ~LifecycleIsTerminal(watcher'.told[i])
        BY <2>5, <3>2, <3>3
      <4>3. watcher'.phase = "following" => ~over
        BY <3>1
      <4>4. watcher'.phase \in {"following", "ended"}
        BY <3>1
      <4>5. /\ watcher'.phase # "read" /\ watcher'.phase \notin {"absent", "subscribed"}
            /\ watcher'.phase = "following" =>
                  \A i \in 1 .. Len(watcher'.told) : ~LifecycleIsTerminal(watcher'.told[i])
        BY <4>2, <4>3, <4>4
      <4>. QED  BY <4>1, <4>5 DEF ToldSoFar
    <3>5. \A i \in 1 .. w.pos : sent[i].at \in Int
      <4>1. \A i \in 1 .. w.pos : sent[i] \in Rollups
        BY <1>1 DEF WatchInv, WatchTypes, Watchers
      <4>. QED  BY <4>1 DEF Rollups, Times
    <3>6. ~w.lagged => \A i \in 1 .. (w.pos + 1) : sent[i].id = Watched => sent[i].at <= r.at
      BY <1>1, <2>2, <2>5, <2>6, <3>5 DEF Times, Watchers
    <3>7. LastIsNewest'
      BY <1>2, <2>2, <2>3, <2>6, <3>1, <3>6 DEF LastIsNewest
    <3>. QED  BY <1>3, <2>4, <3>4, <3>7 DEF WatchInv
  <2>7. CASE r.id # Watched \/ (r.id = Watched /\ r.at <= w.last)
    <3>1. /\ watcher'.last = w.last /\ watcher'.told = w.told
          /\ watcher'.phase \in {"following", "ended"}
      BY <1>1, <2>1, <2>2, <2>7, FollowIs DEF Times, Watchers
    <3>2. ToldSoFar'
      BY <1>1, <2>5, <3>1 DEF ToldSoFar, Watchers
    <3>3. ~w.lagged => \A i \in 1 .. (w.pos + 1) : sent[i].id = Watched => sent[i].at <= w.last
      BY <1>1, <2>5, <2>7 DEF Watchers
    <3>4. LastIsNewest'
      BY <1>2, <2>3, <2>5, <3>1, <3>3 DEF LastIsNewest
    <3>. QED  BY <1>3, <2>4, <3>2, <3>4 DEF WatchInv
  <2>. QED  BY <2>2, <2>6, <2>7, <1>1 DEF Times, Watchers
<1>. QED  BY <1>4, <1>5, <1>6, <1>7, <1>8 DEF WatcherStep

LEMMA WatchStep ==
    ASSUME WatchInv, WatchNext
    PROVE  WatchInv'
  BY HandlerStep, OtherStep, WatcherMoves DEF WatchNext

LEMMA WatchSame ==
    ASSUME WatchInv, UNCHANGED watchVars
    PROVE  WatchInv'
  BY DEF watchVars, WatchInv, WatchTypes, RecordsAreNewest, ToldSoFar, LastIsNewest

-----------------------------------------------------------------------------
(***************************************************************************)
(* The pulses.  First the normalizer on its own: what its stream may hold  *)
(* and what each of its operations does to it.                             *)
(***************************************************************************)
IsSeq(s) == \E S : s \in Seq(S)

IsNormalizer(n) ==
    /\ n = [pulse |-> n.pulse, seq |-> n.seq, calls |-> n.calls, streaming |-> n.streaming,
            files |-> n.files, ids |-> n.ids, openFinal |-> n.openFinal,
            nextFinal |-> n.nextFinal, ingress |-> n.ingress, out |-> n.out]
    /\ IsSeq(n.out)
    /\ n.ids \in Nat /\ n.openFinal \in Int /\ n.nextFinal \in Nat
    /\ n.nextFinal >= SyntheticStart

IsResultOf(e) == e.t \in {"tool_completed", "tool_failed"}
IsStartOf(e) == e.t = "tool_started"

\* A synthetic text block is completed later on or is the one still open.
TextAt(out, open, i) ==
    out[i].t = "block_start" /\ out[i].i >= SyntheticStart =>
        \/ out[i].i = open
        \/ \E j \in (i + 1) .. Len(out) : out[j].t = "block_complete" /\ out[j].i = out[i].i

\* The last announcement before position i is that of the call id.
LastStartBefore(out, i, id) ==
    \E j \in 1 .. (i - 1) : /\ IsStartOf(out[j]) /\ out[j].i = id
                            /\ \A k \in (j + 1) .. (i - 1) : ~IsStartOf(out[k])

\* Runtime ids are handed out in order, and every result has its announcement.
CallAt(out, ids, i) ==
    /\ IsStartOf(out[i]) \/ IsResultOf(out[i]) => out[i].i \in 1 .. ids
    /\ IsResultOf(out[i]) =>
          /\ LastStartBefore(out, i, out[i].i)
          /\ \A j \in 1 .. (i - 1) : IsResultOf(out[j]) => out[j].i # out[i].i

NormInv(n) ==
    /\ IsNormalizer(n)
    /\ \A i \in 1 .. Len(n.out) : TextAt(n.out, n.openFinal, i) /\ CallAt(n.out, n.ids, i)

\* The call of the source id was announced last and has no result yet.
Announced(n, source) ==
    /\ source \in DOMAIN n.calls /\ n.calls[source].id = n.ids
    /\ n.ids # 0 /\ LastStartBefore(n.out, Len(n.out) + 1, n.ids)
    /\ \A j \in 1 .. Len(n.out) : IsResultOf(n.out[j]) => n.out[j].i # n.ids

(***************************************************************************)
(* Then the task: its queue ends with the one update that ends the turn,   *)
(* a result in it follows the announcement of its call, and an end that is *)
(* not that of an error inside the stream leaves neither the turn nor the  *)
(* queue anything more to say.                                             *)
(***************************************************************************)
IsEnd(u) == u.k = "complete" \/ (u.k = "error" /\ u.v = 0)
IsFailure(u) == u.k = "error" /\ u.v = 1
IsCallUpdate(u, id) == u.k = "block" /\ u.v.k = "call" /\ u.v.id = id
IsResultUpdate(u) == u.k = "block" /\ u.v.k = "result"

GoodUpdate(u, asked, tn, errors) ==
    \/ u.k \in {"line", "delta", "complete"}
    \/ u.k = "error" /\ u.v = 0
    \/ IsFailure(u) /\ errors > 0
    \/ u.k = "block" /\ u.i \in 1 .. 3 /\ u.v.k \in {"call", "result"}
    \/ u.k = "block_complete" /\ u.i \in 1 .. 3
    \/ /\ u.k = "ask" /\ u.v.ask \in 1 .. asked
       /\ u.v.ask = tn.ask => u.v.capability = tn.capability
    \/ u.k \in {"session", "session_end"} /\ u.v \in 1 .. asked

ApiTypes ==
    /\ registered \in BOOLEAN /\ initial \in BOOLEAN /\ cancelled \in BOOLEAN
    /\ worker \in {"none", "building", "poll", "drain", "shutdown", "remove"}
    /\ registered = (worker # "none")
    /\ spent \in [runs : Nat, content : Nat, requests : Nat, errors : Nat]
    /\ spent.requests <= MaxRequests /\ inbox \in 0 .. spent.requests
    /\ turn \in [phase : {"none", "running", "asking", "tool", "done"},
                 capability : Capabilities \cup {"none"}, ask : Nat]
    /\ answers \in Seq({"none", "yes", "no"}) /\ turn.ask <= Len(answers)
    /\ turn.phase \in {"asking", "tool"} => turn.ask # 0

SharedTypes ==
    /\ shared = [n |-> shared.n, pending |-> shared.pending, inProgress |-> shared.inProgress,
                 interrupted |-> shared.interrupted, sessions |-> shared.sessions,
                 completionPending |-> shared.completionPending, quit |-> shared.quit]
    /\ shared.completionPending \in BOOLEAN /\ shared.quit \in BOOLEAN
    /\ shared.sessions \subseteq 1 .. Len(answers)
    /\ shared.pending.ask \in 0 .. Len(answers)
    /\ shared.pending.ask # 0 /\ shared.pending.ask = turn.ask =>
          shared.pending.capability = turn.capability

QueueOK(q, asked, tn, n, errors) ==
    /\ IsSeq(q)
    /\ \A i \in 1 .. Len(q) :
        /\ GoodUpdate(q[i], asked, tn, errors)
        /\ IsEnd(q[i]) => i = Len(q) /\ tn.phase = "done"
        /\ IsResultUpdate(q[i]) =>
              IF i = 1 THEN Announced(n, q[i].v.id) ELSE IsCallUpdate(q[i - 1], q[i].v.id)

QueueInv == QueueOK(updates, Len(answers), turn, shared.n, spent.errors)

PhaseInv ==
    /\ initial \/ turn.phase = "none" \/ shared.completionPending => Len(updates) = 0
    /\ initial \/ worker = "building" => turn.phase = "none"
    /\ shared.completionPending => turn.phase = "done"
    /\ initial => shared.n.openFinal = NoIndex
    /\ worker \in {"shutdown", "remove"} => shared.quit
    /\ worker = "building" => ~shared.quit

\* The ends of the stream.  While anything is left to say, every end so far is that of an
\* error inside the stream.
Unended(out) == \A i \in 1 .. Len(out) : out[i].t # "pulse_end"
HasEnd(out) == \E i \in 1 .. Len(out) : out[i].t = "pulse_end"
AllFailed(out, errors) ==
    \A i \in 1 .. Len(out) : out[i].t = "pulse_end" => errors > 0 /\ out[i].v.status = "failed"
LastWord(out, errors) ==
    \A i \in 1 .. Len(out) : out[i].t = "pulse_end" =>
        \/ errors > 0 /\ out[i].v.status = "failed"
        \/ \A j \in (i + 1) .. Len(out) : out[j].t = "approval_resolved"

\* In front of every end the synthetic text blocks are completed.
ClosedAt(out, e) ==
    \A i \in 1 .. (e - 1) : out[i].t = "block_start" /\ out[i].i >= SyntheticStart =>
        \E j \in (i + 1) .. (e - 1) : out[j].t = "block_complete" /\ out[j].i = out[i].i
ClosedBefore(out) == \A e \in 1 .. Len(out) : out[e].t = "pulse_end" => ClosedAt(out, e)

AllSaid == turn.phase \in {"none", "done"} /\ Len(updates) = 0 /\ ~shared.completionPending

EndInv ==
    /\ IF shared.quit THEN HasEnd(shared.n.out) ELSE Unended(shared.n.out)
    /\ LastWord(shared.n.out, spent.errors)
    /\ ~AllSaid => AllFailed(shared.n.out, spent.errors)
    /\ ClosedBefore(shared.n.out)

\* Each answer has a request of its own before it, and an open request is one more.
CountOf(out, t, i) == Cardinality({j \in 1 .. i : out[j].t = t})
Balanced(out, open) ==
    /\ \A i \in 0 .. Len(out) :
          CountOf(out, "approval_resolved", i) <= CountOf(out, "approval_request", i)
    /\ open => CountOf(out, "approval_resolved", Len(out)) < CountOf(out, "approval_request", Len(out))

AskInv == Balanced(shared.n.out, shared.pending.ask # 0)

HasApproval(out, c) ==
    \E i \in 1 .. Len(out) :
        out[i].t = "approval_resolved" /\ out[i].v = [capability |-> c, approved |-> TRUE]

ConsentInv ==
    /\ turn.phase = "tool" => HasApproval(shared.n.out, turn.capability)
    /\ turn.phase = "asking" /\ answers[turn.ask] = "yes" =>
          HasApproval(shared.n.out, turn.capability)

ApiInv ==
    /\ ApiTypes /\ SharedTypes /\ NormInv(shared.n) /\ QueueInv /\ PhaseInv
    /\ EndInv /\ AskInv /\ ConsentInv

-----------------------------------------------------------------------------
(* Sequences of anything. *)

LEMMA SeqAppend ==
    ASSUME NEW s, IsSeq(s), NEW e
    PROVE  /\ IsSeq(Append(s, e)) /\ Len(s) \in Nat /\ Len(Append(s, e)) = Len(s) + 1
           /\ Append(s, e)[Len(s) + 1] = e
           /\ \A i \in 1 .. Len(s) : Append(s, e)[i] = s[i]
<1>1. PICK S : s \in Seq(S)
  BY DEF IsSeq
<1>2. s \in Seq(S \cup {e})
  BY <1>1
<1>. QED  BY <1>2 DEF IsSeq

LEMMA SeqConcat ==
    ASSUME NEW s, IsSeq(s), NEW r, IsSeq(r)
    PROVE  /\ IsSeq(s \o r) /\ Len(s) \in Nat /\ Len(r) \in Nat /\ Len(s \o r) = Len(s) + Len(r)
           /\ \A i \in 1 .. Len(s) : (s \o r)[i] = s[i]
           /\ \A i \in 1 .. Len(r) : (s \o r)[Len(s) + i] = r[i]
<1>1. PICK S : s \in Seq(S)
  BY DEF IsSeq
<1>2. PICK R : r \in Seq(R)
  BY DEF IsSeq
<1>3. s \in Seq(S \cup R) /\ r \in Seq(S \cup R)
  BY <1>1, <1>2
<1>. QED  BY <1>3 DEF IsSeq

LEMMA SeqAssociative ==
    ASSUME NEW s, IsSeq(s), NEW r, IsSeq(r), NEW t, IsSeq(t)
    PROVE  s \o r \o t = s \o (r \o t)
<1>1. PICK S, R, T : s \in Seq(S) /\ r \in Seq(R) /\ t \in Seq(T)
  BY DEF IsSeq
<1>2. PICK U : U = S \cup R \cup T
  OBVIOUS
<1>3. s \in Seq(U) /\ r \in Seq(U) /\ t \in Seq(U)
  BY <1>1, <1>2
<1>. QED  BY <1>3, ConcatAssociative

LEMMA SeqTail ==
    ASSUME NEW s, IsSeq(s), s # <<>>
    PROVE  /\ IsSeq(Tail(s)) /\ Len(s) \in Nat \ {0} /\ Len(Tail(s)) = Len(s) - 1
           /\ Head(s) = s[1]
           /\ \A i \in 1 .. (Len(s) - 1) : Tail(s)[i] = s[i + 1]
<1>1. PICK S : s \in Seq(S)
  BY DEF IsSeq
<1>. QED  BY <1>1 DEF IsSeq

LEMMA SeqLen ==
    ASSUME NEW s, IsSeq(s)
    PROVE  Len(s) \in Nat /\ DOMAIN s = 1 .. Len(s)
  BY DEF IsSeq

LEMMA SeqShort ==
    /\ IsSeq(<<>>) /\ Len(<<>>) = 0
    /\ \A a : IsSeq(<<a>>) /\ Len(<<a>>) = 1
    /\ \A a, b : IsSeq(<<a, b>>) /\ Len(<<a, b>>) = 2
    /\ \A a, b, c : IsSeq(<<a, b, c>>) /\ Len(<<a, b, c>>) = 3
    /\ \A a, b, c, d : IsSeq(<<a, b, c, d>>) /\ Len(<<a, b, c, d>>) = 4
<1>1. IsSeq(<<>>)
  <2>1. <<>> \in Seq({})
    OBVIOUS
  <2>. QED  BY <2>1 DEF IsSeq
<1>2. ASSUME NEW a PROVE IsSeq(<<a>>)
  <2>1. <<a>> \in Seq({a})
    OBVIOUS
  <2>. QED  BY <2>1 DEF IsSeq
<1>3. ASSUME NEW a, NEW b PROVE IsSeq(<<a, b>>)
  <2>1. <<a, b>> \in Seq({a, b})
    OBVIOUS
  <2>. QED  BY <2>1 DEF IsSeq
<1>4. ASSUME NEW a, NEW b, NEW c PROVE IsSeq(<<a, b, c>>)
  <2>1. <<a, b, c>> \in Seq({a, b, c})
    OBVIOUS
  <2>. QED  BY <2>1 DEF IsSeq
<1>5. ASSUME NEW a, NEW b, NEW c, NEW d PROVE IsSeq(<<a, b, c, d>>)
  <2>1. <<a, b, c, d>> \in Seq({a, b, c, d})
    OBVIOUS
  <2>. QED  BY <2>1 DEF IsSeq
<1>. QED  BY <1>1, <1>2, <1>3, <1>4, <1>5

-----------------------------------------------------------------------------
(* One stream continues another by envelopes of some types. *)

Grows(a, b, types) ==
    /\ IsSeq(a) /\ IsSeq(b) /\ Len(a) <= Len(b)
    /\ \A i \in 1 .. Len(a) : b[i] = a[i]
    /\ \A i \in (Len(a) + 1) .. Len(b) : b[i].t \in types

\* What may come at any time and concerns neither the end nor the approvals.
Content == {"pulse_start", "block_start", "block_delta", "block_complete", "line", "error",
            "tool_started", "tool_completed", "tool_failed"}

LEMMA GrowsTransitive ==
    ASSUME NEW a, NEW b, NEW c, NEW T, Grows(a, b, T), Grows(b, c, T)
    PROVE  Grows(a, c, T)
<1>1. Len(a) \in Nat /\ Len(b) \in Nat /\ Len(c) \in Nat
  BY SeqLen DEF Grows
<1>. QED  BY <1>1 DEF Grows

LEMMA GrowsReflexive ==
    ASSUME NEW a, NEW T, IsSeq(a)
    PROVE  Grows(a, a, T)
  BY SeqLen DEF Grows

\* m is n with one more envelope.
OneEnvelope(n, m) ==
    /\ IsNormalizer(m)
    /\ m.calls = n.calls /\ m.ids = n.ids /\ m.openFinal = n.openFinal
    /\ m.nextFinal = n.nextFinal
    /\ Len(n.out) \in Nat /\ Len(m.out) = Len(n.out) + 1
    /\ \A k \in 1 .. Len(n.out) : m.out[k] = n.out[k]

Emission(n, m, t, i, v) ==
    /\ OneEnvelope(n, m)
    /\ m.out[Len(m.out)].t = t /\ m.out[Len(m.out)].i = i /\ m.out[Len(m.out)].v = v

LEMMA EmitIs ==
    ASSUME NEW n, IsNormalizer(n), NEW t, NEW i, NEW v
    PROVE  Emission(n, Emit(n, t, i, v), t, i, v)
<1>. DEFINE e == [t |-> t, i |-> i, v |-> v, pulse |-> n.pulse, seq |-> n.seq]
<1>0. PICK m : m = Emit(n, t, i, v)
  OBVIOUS
<1>1. m = [pulse |-> n.pulse, seq |-> n.seq + 1, calls |-> n.calls, streaming |-> n.streaming,
           files |-> n.files, ids |-> n.ids, openFinal |-> n.openFinal,
           nextFinal |-> n.nextFinal, ingress |-> n.ingress, out |-> Append(n.out, e)]
  BY <1>0 DEF Emit, IsNormalizer
<1>2. IsSeq(n.out)
  BY DEF IsNormalizer
<1>3. /\ IsSeq(m.out) /\ Len(n.out) \in Nat /\ Len(m.out) = Len(n.out) + 1
      /\ m.out[Len(n.out) + 1] = e
      /\ \A k \in 1 .. Len(n.out) : m.out[k] = n.out[k]
  BY <1>1, <1>2, SeqAppend
<1>4. IsNormalizer(m)
  BY <1>1, <1>3 DEF IsNormalizer
<1>5. Emission(n, m, t, i, v)
  BY <1>1, <1>3, <1>4 DEF Emission, OneEnvelope
<1>. QED  BY <1>0, <1>5

LEMMA EnvelopeGrows ==
    ASSUME NEW n, NEW m, IsNormalizer(n), OneEnvelope(n, m), NEW T, m.out[Len(m.out)].t \in T
    PROVE  Grows(n.out, m.out, T)
<1>1. IsSeq(n.out) /\ IsSeq(m.out)
  BY DEF IsNormalizer, OneEnvelope
<1>. QED  BY <1>1 DEF Grows, OneEnvelope

-----------------------------------------------------------------------------
(* The operations of the normalizer keep what is said of its stream. *)

LEMMA StartBeforeSame ==
    ASSUME NEW a, NEW b, NEW i, \A k \in 1 .. (i - 1) : b[k] = a[k], i \in Nat, NEW id,
           LastStartBefore(a, i, id)
    PROVE  LastStartBefore(b, i, id)
<1>1. PICK j \in 1 .. (i - 1) : /\ IsStartOf(a[j]) /\ a[j].i = id
                                /\ \A k \in (j + 1) .. (i - 1) : ~IsStartOf(a[k])
  BY DEF LastStartBefore
<1>3. IsStartOf(b[j]) /\ b[j].i = id /\ \A k \in (j + 1) .. (i - 1) : ~IsStartOf(b[k])
  BY <1>1
<1>. QED  BY <1>3 DEF LastStartBefore

LEMMA CallKept ==
    ASSUME NEW a, NEW b, NEW l \in Nat, \A k \in 1 .. l : b[k] = a[k], NEW i \in 1 .. l,
           NEW ids \in Nat, NEW more \in Nat, ids <= more, CallAt(a, ids, i)
    PROVE  CallAt(b, more, i)
<1>1. b[i] = a[i] /\ \A k \in 1 .. (i - 1) : b[k] = a[k]
  OBVIOUS
<1>2. LastStartBefore(a, i, a[i].i) => LastStartBefore(b, i, b[i].i)
  <2>1. i \in Nat
    OBVIOUS
  <2>2. LastStartBefore(a, i, a[i].i) => LastStartBefore(b, i, a[i].i)
    BY <1>1, <2>1, StartBeforeSame
  <2>. QED  BY <1>1, <2>2
<1>3. IsStartOf(b[i]) \/ IsResultOf(b[i]) => b[i].i \in 1 .. more
  BY <1>1 DEF CallAt
<1>4. IsResultOf(b[i]) => \A j \in 1 .. (i - 1) : IsResultOf(b[j]) => b[j].i # b[i].i
  BY <1>1 DEF CallAt
<1>. QED  BY <1>1, <1>2, <1>3, <1>4 DEF CallAt

LEMMA TextKept ==
    ASSUME NEW a, NEW b, Len(a) \in Nat, Len(b) \in Nat, Len(a) <= Len(b),
           \A k \in 1 .. Len(a) : b[k] = a[k], NEW i \in 1 .. Len(a), NEW open, TextAt(a, open, i)
    PROVE  TextAt(b, open, i)
  BY DEF TextAt

\* One more envelope that neither announces a call nor is a result.
LEMMA OneMore ==
    ASSUME NEW n, NEW m, NormInv(n), m.calls = n.calls, m.ids = n.ids,
           Len(n.out) \in Nat, Len(m.out) = Len(n.out) + 1,
           \A k \in 1 .. Len(n.out) : m.out[k] = n.out[k],
           m.out[Len(m.out)].t \notin {"tool_started", "tool_completed", "tool_failed"}
    PROVE  /\ \A k \in 1 .. Len(m.out) : CallAt(m.out, m.ids, k)
           /\ \A source : Announced(n, source) => Announced(m, source)
<1>. DEFINE l == Len(n.out)
<1>1. ~IsStartOf(m.out[l + 1]) /\ ~IsResultOf(m.out[l + 1])
  BY DEF IsStartOf, IsResultOf
<1>2. ASSUME NEW k \in 1 .. Len(m.out) PROVE CallAt(m.out, m.ids, k)
  <2>1. CASE k = l + 1
    BY <1>1, <2>1 DEF CallAt
  <2>2. CASE k \in 1 .. l
    <3>1. CallAt(n.out, n.ids, k) /\ n.ids \in Nat
      BY <2>2 DEF NormInv, IsNormalizer
    <3>2. n.ids <= m.ids /\ m.ids \in Nat
      BY <3>1
    <3>. QED  BY <2>2, <3>1, <3>2, CallKept
  <2>. QED  BY <2>1, <2>2
<1>3. ASSUME NEW source, Announced(n, source) PROVE Announced(m, source)
  <2>1. PICK j \in 1 .. l : /\ IsStartOf(n.out[j]) /\ n.out[j].i = n.ids
                            /\ \A k \in (j + 1) .. l : ~IsStartOf(n.out[k])
    BY <1>3 DEF Announced, LastStartBefore
  <2>2. \A k \in (j + 1) .. (l + 1) : ~IsStartOf(m.out[k])
    <3>1. ASSUME NEW k \in (j + 1) .. (l + 1) PROVE ~IsStartOf(m.out[k])
      <4>1. CASE k = l + 1
        BY <1>1, <4>1
      <4>2. CASE k # l + 1
        <5>1. k \in (j + 1) .. l /\ k \in 1 .. l
          BY <4>2
        <5>. QED  BY <5>1, <2>1
      <4>. QED  BY <4>1, <4>2
    <3>. QED  BY <3>1
  <2>3. LastStartBefore(m.out, Len(m.out) + 1, m.ids)
    <3>1. j \in 1 .. (Len(m.out) + 1 - 1) /\ Len(m.out) + 1 - 1 = l + 1
      OBVIOUS
    <3>2. IsStartOf(m.out[j]) /\ m.out[j].i = m.ids
      BY <2>1
    <3>. QED  BY <2>2, <3>1, <3>2 DEF LastStartBefore
  <2>4. ASSUME NEW k \in 1 .. Len(m.out), IsResultOf(m.out[k]) PROVE m.out[k].i # m.ids
    <3>1. k \in 1 .. l
      BY <1>1, <2>4
    <3>2. m.out[k] = n.out[k]
      BY <3>1
    <3>. QED  BY <1>3, <2>4, <3>1, <3>2 DEF Announced
  <2>. QED  BY <1>3, <2>3, <2>4 DEF Announced
<1>. QED  BY <1>2, <1>3

\* An envelope that neither announces a call nor is a result, and opens no synthetic block.
LEMMA EnvelopeKeeps ==
    ASSUME NEW n, NormInv(n), NEW m, OneEnvelope(n, m),
           m.out[Len(m.out)].t \notin {"tool_started", "tool_completed", "tool_failed"},
           m.out[Len(m.out)].t = "block_start" =>
               m.out[Len(m.out)].i \in Int /\ m.out[Len(m.out)].i < SyntheticStart
    PROVE  /\ NormInv(m)
           /\ \A source : Announced(n, source) => Announced(m, source)
<1>1. /\ IsNormalizer(m)
      /\ m.calls = n.calls /\ m.ids = n.ids /\ m.openFinal = n.openFinal
      /\ Len(n.out) \in Nat /\ Len(m.out) = Len(n.out) + 1
      /\ \A k \in 1 .. Len(n.out) : m.out[k] = n.out[k]
  BY DEF OneEnvelope
<1>2. /\ \A k \in 1 .. Len(m.out) : CallAt(m.out, m.ids, k)
      /\ \A source : Announced(n, source) => Announced(m, source)
  BY <1>1, OneMore
<1>3. ASSUME NEW k \in 1 .. Len(m.out) PROVE TextAt(m.out, m.openFinal, k)
  <2>1. CASE k = Len(m.out)
    BY <1>1, <2>1 DEF TextAt, SyntheticStart
  <2>2. CASE k \in 1 .. Len(n.out)
    <3>1. TextAt(n.out, n.openFinal, k)
      BY <2>2 DEF NormInv
    <3>2. Len(m.out) \in Nat /\ Len(n.out) <= Len(m.out)
      BY <1>1
    <3>3. TextAt(m.out, n.openFinal, k)
      BY <1>1, <2>2, <3>1, <3>2, TextKept
    <3>. QED  BY <1>1, <3>3
  <2>. QED  BY <1>1, <2>1, <2>2
<1>. QED  BY <1>1, <1>2, <1>3 DEF NormInv

\* Fields of a normalizer that is not the one before.
SameBut(o, n, calls, ids, open, next) ==
    /\ o.calls = calls /\ o.ids = ids /\ o.openFinal = open /\ o.nextFinal = next
    /\ o.out = n.out /\ IsNormalizer(o)

\* Closing the open text block completes it.
LEMMA CloseKeeps ==
    ASSUME NEW n, NormInv(n), NEW m, m = CloseFinalText(n)
    PROVE  /\ NormInv(m) /\ m.openFinal = NoIndex
           /\ m.calls = n.calls /\ m.ids = n.ids
           /\ \A source : Announced(n, source) => Announced(m, source)
           /\ Grows(n.out, m.out, Content)
<1>0. IsNormalizer(n) /\ IsSeq(n.out) /\ n.openFinal \in Int
  BY DEF NormInv, IsNormalizer
<1>1. CASE n.openFinal = NoIndex
  BY <1>0, <1>1, GrowsReflexive DEF CloseFinalText
<1>2. CASE n.openFinal # NoIndex
  <2>1. PICK o : /\ o = [n EXCEPT !.openFinal = NoIndex]
                 /\ m = Emit(o, "block_complete", n.openFinal, "")
    BY <1>2 DEF CloseFinalText
  <2>2. SameBut(o, n, n.calls, n.ids, NoIndex, n.nextFinal)
    <3>1. o = [pulse |-> n.pulse, seq |-> n.seq, calls |-> n.calls, streaming |-> n.streaming,
               files |-> n.files, ids |-> n.ids, openFinal |-> NoIndex,
               nextFinal |-> n.nextFinal, ingress |-> n.ingress, out |-> n.out]
      BY <1>0, <2>1 DEF IsNormalizer
    <3>2. NoIndex \in Int
      BY DEF NoIndex
    <3>. QED  BY <1>0, <3>1, <3>2 DEF SameBut, IsNormalizer
  <2>a. Emission(o, m, "block_complete", n.openFinal, "")
    <3>1. IsNormalizer(o)
      BY <2>2 DEF SameBut
    <3>2. m = Emit(o, "block_complete", n.openFinal, "")
      BY <2>1
    <3>. QED  BY <3>1, <3>2, EmitIs, Zenon
  <2>3. /\ IsNormalizer(m) /\ m.calls = n.calls /\ m.ids = n.ids /\ m.openFinal = NoIndex
        /\ Len(n.out) \in Nat /\ Len(m.out) = Len(n.out) + 1
        /\ \A k \in 1 .. Len(n.out) : m.out[k] = n.out[k]
        /\ m.out[Len(m.out)].t = "block_complete" /\ m.out[Len(m.out)].i = n.openFinal
    BY <2>a, <2>2 DEF SameBut, Emission, OneEnvelope
  <2>4. Grows(n.out, m.out, Content)
    BY <2>3, <1>0 DEF Grows, Content, IsNormalizer
  <2>5. /\ \A k \in 1 .. Len(m.out) : CallAt(m.out, m.ids, k)
        /\ \A source : Announced(n, source) => Announced(m, source)
    BY <2>3, OneMore
  <2>6. ASSUME NEW k \in 1 .. Len(m.out)
        PROVE  TextAt(m.out, m.openFinal, k)
    <3>1. CASE k = Len(m.out)
      BY <2>3, <3>1 DEF TextAt
    <3>2. CASE k \in 1 .. Len(n.out)
      <4>1. TextAt(n.out, n.openFinal, k)
        BY <3>2 DEF NormInv
      <4>2. m.out[k] = n.out[k]
        BY <2>3, <3>2
      <4>3. CASE n.out[k].i = n.openFinal
        <5>1. Len(m.out) \in (k + 1) .. Len(m.out)
          BY <2>3, <3>2
        <5>. QED  BY <2>3, <4>2, <4>3, <5>1 DEF TextAt
      <4>4. CASE n.out[k].i # n.openFinal
        BY <2>3, <3>2, <4>1, <4>2, <4>4 DEF TextAt
      <4>. QED  BY <4>3, <4>4
    <3>. QED  BY <2>3, <3>1, <3>2
  <2>. QED  BY <2>3, <2>4, <2>5, <2>6 DEF NormInv
<1>. QED  BY <1>1, <1>2

\* Another value of the fields that the stream does not depend on.
LEMMA EditKeeps ==
    ASSUME NEW n, NormInv(n), NEW o, NEW calls,
           SameBut(o, n, calls, n.ids, n.openFinal, n.nextFinal)
    PROVE  NormInv(o)
  BY DEF NormInv, SameBut

LEMMA EnsureKeeps ==
    ASSUME NEW n, NormInv(n), NEW m, m = EnsureFinalText(n)
    PROVE  NormInv(m) /\ Grows(n.out, m.out, Content)
<1>0. IsNormalizer(n) /\ IsSeq(n.out) /\ n.nextFinal \in Nat /\ n.nextFinal >= SyntheticStart
  BY DEF NormInv, IsNormalizer
<1>1. CASE n.openFinal # NoIndex
  BY <1>0, <1>1, GrowsReflexive DEF EnsureFinalText
<1>2. CASE n.openFinal = NoIndex
  <2>1. PICK o : /\ o = [n EXCEPT !.openFinal = n.nextFinal, !.nextFinal = @ + 1]
                 /\ m = Emit(o, "block_start", n.nextFinal, "final")
    BY <1>2 DEF EnsureFinalText
  <2>2. SameBut(o, n, n.calls, n.ids, n.nextFinal, n.nextFinal + 1)
    <3>1. o = [pulse |-> n.pulse, seq |-> n.seq, calls |-> n.calls, streaming |-> n.streaming,
               files |-> n.files, ids |-> n.ids, openFinal |-> n.nextFinal,
               nextFinal |-> n.nextFinal + 1, ingress |-> n.ingress, out |-> n.out]
      BY <1>0, <2>1 DEF IsNormalizer
    <3>2. n.nextFinal \in Int /\ n.nextFinal + 1 \in Nat /\ n.nextFinal + 1 >= SyntheticStart
      BY <1>0 DEF SyntheticStart
    <3>. QED  BY <1>0, <3>1, <3>2 DEF SameBut, IsNormalizer
  <2>3. Emission(o, m, "block_start", n.nextFinal, "final")
    <3>1. IsNormalizer(o)
      BY <2>2 DEF SameBut
    <3>2. m = Emit(o, "block_start", n.nextFinal, "final")
      BY <2>1
    <3>. QED  BY <3>1, <3>2, EmitIs, Zenon
  <2>4. /\ IsNormalizer(m) /\ m.calls = n.calls /\ m.ids = n.ids /\ m.openFinal = n.nextFinal
        /\ Len(n.out) \in Nat /\ Len(m.out) = Len(n.out) + 1
        /\ \A k \in 1 .. Len(n.out) : m.out[k] = n.out[k]
        /\ m.out[Len(m.out)].t = "block_start" /\ m.out[Len(m.out)].i = n.nextFinal
    BY <2>2, <2>3 DEF SameBut, Emission, OneEnvelope
  <2>5. Grows(n.out, m.out, Content)
    BY <2>4, <1>0 DEF Grows, Content, IsNormalizer
  <2>6. \A k \in 1 .. Len(m.out) : CallAt(m.out, m.ids, k)
    BY <2>4, OneMore
  <2>7. ASSUME NEW k \in 1 .. Len(m.out) PROVE TextAt(m.out, m.openFinal, k)
    <3>1. CASE k = Len(m.out)
      BY <2>4, <3>1 DEF TextAt
    <3>2. CASE k \in 1 .. Len(n.out)
      <4>1. TextAt(n.out, NoIndex, k)
        BY <1>2, <3>2 DEF NormInv
      <4>2. n.out[k].i >= SyntheticStart => n.out[k].i # NoIndex
        BY DEF SyntheticStart, NoIndex
      <4>3. m.out[k] = n.out[k] /\ \A j \in (k + 1) .. Len(n.out) :
                                      j \in (k + 1) .. Len(m.out) /\ m.out[j] = n.out[j]
        BY <2>4, <3>2
      <4>. QED  BY <4>1, <4>2, <4>3 DEF TextAt
    <3>. QED  BY <2>4, <3>1, <3>2
  <2>. QED  BY <2>4, <2>5, <2>6, <2>7 DEF NormInv
<1>. QED  BY <1>1, <1>2

\* An announced call has a fresh id.
LEMMA RecordCallKeeps ==
    ASSUME NEW n, NormInv(n), NEW source, NEW name, NEW args, NEW m,
           m = RecordToolCall(n, source, name, args)
    PROVE  NormInv(m) /\ Announced(m, source) /\ Grows(n.out, m.out, Content)
<1>. DEFINE id == n.ids + 1
            calls == Put(n.calls, source, [id |-> id, name |-> name, raw |-> args])
<1>0. IsNormalizer(n) /\ IsSeq(n.out) /\ n.ids \in Nat
  BY DEF NormInv, IsNormalizer
<1>1. PICK o : /\ o = [n EXCEPT !.ids = id, !.calls = calls]
               /\ m = Emit(o, "tool_started", id, args)
  BY DEF RecordToolCall
<1>2. SameBut(o, n, calls, id, n.openFinal, n.nextFinal)
  <2>1. o = [pulse |-> n.pulse, seq |-> n.seq, calls |-> calls, streaming |-> n.streaming,
             files |-> n.files, ids |-> id, openFinal |-> n.openFinal,
             nextFinal |-> n.nextFinal, ingress |-> n.ingress, out |-> n.out]
    BY <1>0, <1>1 DEF IsNormalizer
  <2>. QED  BY <1>0, <2>1 DEF SameBut, IsNormalizer
<1>3. Emission(o, m, "tool_started", id, args)
  <2>1. IsNormalizer(o)
    BY <1>2 DEF SameBut
  <2>2. m = Emit(o, "tool_started", id, args)
    BY <1>1
  <2>. QED  BY <2>1, <2>2, EmitIs, Zenon
<1>4. source \in DOMAIN calls /\ calls[source].id = id
  BY DEF Put
<1>. HIDE DEF calls
<1>5. /\ IsNormalizer(m) /\ m.calls = calls /\ m.ids = id /\ m.openFinal = n.openFinal
      /\ Len(n.out) \in Nat /\ Len(m.out) = Len(n.out) + 1
      /\ \A k \in 1 .. Len(n.out) : m.out[k] = n.out[k]
      /\ m.out[Len(m.out)].t = "tool_started" /\ m.out[Len(m.out)].i = id
  BY <1>2, <1>3 DEF SameBut, Emission, OneEnvelope
<1>6. Grows(n.out, m.out, Content)
  BY <1>5, <1>0 DEF Grows, Content, IsNormalizer
<1>7. ASSUME NEW k \in 1 .. Len(m.out)
      PROVE  TextAt(m.out, m.openFinal, k) /\ CallAt(m.out, m.ids, k)
  <2>1. CASE k = Len(m.out)
    BY <1>0, <1>5, <2>1 DEF TextAt, CallAt, IsStartOf, IsResultOf
  <2>2. CASE k \in 1 .. Len(n.out)
    <3>1. TextAt(n.out, n.openFinal, k) /\ CallAt(n.out, n.ids, k)
      BY <2>2 DEF NormInv
    <3>2. Len(m.out) \in Nat /\ Len(n.out) <= Len(m.out) /\ n.ids <= m.ids /\ m.ids \in Nat
      BY <1>0, <1>5
    <3>3. TextAt(m.out, n.openFinal, k)
      BY <1>5, <2>2, <3>1, <3>2, TextKept
    <3>4. CallAt(m.out, m.ids, k)
      BY <1>0, <1>5, <2>2, <3>1, <3>2, CallKept
    <3>. QED  BY <1>5, <3>3, <3>4
  <2>. QED  BY <1>5, <2>1, <2>2
<1>8. LastStartBefore(m.out, Len(m.out) + 1, m.ids)
  <2>1. Len(m.out) \in 1 .. (Len(m.out) + 1 - 1) /\ Len(m.out) + 1 - 1 = Len(m.out)
    BY <1>5
  <2>2. IsStartOf(m.out[Len(m.out)]) /\ m.out[Len(m.out)].i = m.ids
    BY <1>5 DEF IsStartOf
  <2>3. \A k \in (Len(m.out) + 1) .. (Len(m.out) + 1 - 1) : FALSE
    BY <1>5
  <2>. QED  BY <2>1, <2>2, <2>3 DEF LastStartBefore
<1>9. ASSUME NEW k \in 1 .. Len(m.out), IsResultOf(m.out[k]) PROVE m.out[k].i # m.ids
  <2>1. k # Len(m.out)
    BY <1>5, <1>9 DEF IsResultOf
  <2>2. k \in 1 .. Len(n.out) /\ m.out[k] = n.out[k]
    BY <1>5, <2>1
  <2>3. n.out[k].i \in 1 .. n.ids
    BY <1>9, <2>2 DEF NormInv, CallAt
  <2>. QED  BY <1>0, <1>5, <2>2, <2>3
<1>10. Announced(m, source)
  BY <1>0, <1>4, <1>5, <1>8, <1>9 DEF Announced
<1>. QED  BY <1>5, <1>6, <1>7, <1>10 DEF NormInv

\* The result of the call announced last.
LEMMA RecordResultKeeps ==
    ASSUME NEW n, NormInv(n), NEW source, Announced(n, source), NEW err, NEW m,
           m = RecordToolResult(n, source, err)
    PROVE  NormInv(m) /\ Grows(n.out, m.out, Content)
<1>0. /\ IsNormalizer(n) /\ IsSeq(n.out) /\ n.ids \in Nat \ {0}
      /\ source \in DOMAIN n.calls /\ n.calls[source].id = n.ids
      /\ LastStartBefore(n.out, Len(n.out) + 1, n.ids)
      /\ \A j \in 1 .. Len(n.out) : IsResultOf(n.out[j]) => n.out[j].i # n.ids
  BY DEF NormInv, IsNormalizer, Announced
<1>. DEFINE t == IF err THEN "tool_failed" ELSE "tool_completed"
            calls == Drop(n.calls, source)
            files == IF ~err /\ n.calls[source].name \in FileTools
                     THEN n.files \cup {n.calls[source].name} ELSE n.files
            v == n.calls[source].name
<1>1. PICK o : o = [n EXCEPT !.calls = calls, !.files = files] /\ m = Emit(o, t, n.ids, v)
  BY <1>0 DEF RecordToolResult
<1>t. t \in {"tool_failed", "tool_completed"}
  OBVIOUS
<1>. HIDE DEF t, calls, files, v
<1>2. SameBut(o, n, calls, n.ids, n.openFinal, n.nextFinal)
  <2>1. o = [pulse |-> n.pulse, seq |-> n.seq, calls |-> calls, streaming |-> n.streaming,
             files |-> files, ids |-> n.ids, openFinal |-> n.openFinal,
             nextFinal |-> n.nextFinal, ingress |-> n.ingress, out |-> n.out]
    BY <1>0, <1>1 DEF IsNormalizer
  <2>. QED  BY <1>0, <2>1 DEF SameBut, IsNormalizer
<1>3. Emission(o, m, t, n.ids, v)
  <2>1. IsNormalizer(o)
    BY <1>2 DEF SameBut
  <2>2. m = Emit(o, t, n.ids, v)
    BY <1>1
  <2>. QED  BY <2>1, <2>2, EmitIs, Zenon
<1>5. /\ IsNormalizer(m) /\ m.ids = n.ids /\ m.openFinal = n.openFinal
      /\ Len(n.out) \in Nat /\ Len(m.out) = Len(n.out) + 1
      /\ \A k \in 1 .. Len(n.out) : m.out[k] = n.out[k]
      /\ m.out[Len(m.out)].t = t /\ m.out[Len(m.out)].i = n.ids
  BY <1>2, <1>3 DEF SameBut, Emission, OneEnvelope
<1>6. Grows(n.out, m.out, Content)
  <2>1. t \in Content
    BY <1>t DEF Content
  <2>. QED  BY <1>5, <1>0, <2>1 DEF Grows, IsNormalizer
<1>7. ASSUME NEW k \in 1 .. Len(m.out)
      PROVE  TextAt(m.out, m.openFinal, k) /\ CallAt(m.out, m.ids, k)
  <2>1. CASE k = Len(m.out)
    <3>1. TextAt(m.out, m.openFinal, k)
      BY <1>t, <1>5, <2>1 DEF TextAt
    <3>2. LastStartBefore(m.out, k, m.out[k].i)
      <4>1. k \in 1 .. (Len(n.out) + 1) /\ k = Len(n.out) + 1
        BY <1>5, <2>1
      <4>2. LastStartBefore(n.out, k, n.ids) /\ m.out[k].i = n.ids
        BY <1>0, <1>5, <2>1, <4>1
      <4>3. k \in Nat /\ \A j \in 1 .. (k - 1) : m.out[j] = n.out[j]
        BY <1>5, <4>1
      <4>4. LastStartBefore(m.out, k, n.ids)
        BY <4>2, <4>3, StartBeforeSame
      <4>. QED  BY <4>2, <4>4
    <3>3. \A j \in 1 .. (k - 1) : IsResultOf(m.out[j]) => m.out[j].i # m.out[k].i
      BY <1>0, <1>5, <2>1
    <3>4. m.out[k].i \in 1 .. m.ids
      BY <1>0, <1>5, <2>1
    <3>. QED  BY <3>1, <3>2, <3>3, <3>4 DEF CallAt
  <2>2. CASE k \in 1 .. Len(n.out)
    <3>1. TextAt(n.out, n.openFinal, k) /\ CallAt(n.out, n.ids, k)
      BY <2>2 DEF NormInv
    <3>2. Len(m.out) \in Nat /\ Len(n.out) <= Len(m.out) /\ n.ids <= m.ids /\ m.ids \in Nat
      BY <1>0, <1>5
    <3>3. TextAt(m.out, n.openFinal, k)
      BY <1>5, <2>2, <3>1, <3>2, TextKept
    <3>4. CallAt(m.out, m.ids, k)
      BY <1>0, <1>5, <2>2, <3>1, <3>2, CallKept
    <3>. QED  BY <1>5, <3>3, <3>4
  <2>. QED  BY <1>5, <2>1, <2>2
<1>. QED  BY <1>5, <1>6, <1>7 DEF NormInv

-----------------------------------------------------------------------------
(* What an update does to the stream. *)

Moves(n, m) == NormInv(m) /\ Grows(n.out, m.out, Content)

LEMMA MovesTwice ==
    ASSUME NEW n, NEW c, NEW m, Moves(n, c), Moves(c, m)
    PROVE  Moves(n, m)
  BY GrowsTransitive DEF Moves

\* One envelope of a type that needs no care.
LEMMA PlainMoves ==
    ASSUME NEW n, NormInv(n), NEW m, OneEnvelope(n, m),
           \/ m.out[Len(m.out)].t \in {"pulse_start", "block_delta", "block_complete", "line", "error"}
           \/ /\ m.out[Len(m.out)].t = "block_start"
              /\ m.out[Len(m.out)].i \in Int /\ m.out[Len(m.out)].i < SyntheticStart
    PROVE  /\ Moves(n, m)
           /\ \A source : Announced(n, source) => Announced(m, source)
<1>1. m.out[Len(m.out)].t \in Content
  BY DEF Content
<1>2. IsNormalizer(n)
  BY DEF NormInv
<1>3. Grows(n.out, m.out, Content)
  BY <1>1, <1>2, EnvelopeGrows
<1>4. /\ NormInv(m)
      /\ \A source : Announced(n, source) => Announced(m, source)
  BY EnvelopeKeeps
<1>. QED  BY <1>3, <1>4 DEF Moves

LEMMA LineMoves ==
    ASSUME NEW n, NormInv(n), NEW l
    PROVE  Moves(n, TranscriptLine(n, l))
<1>1. PICK c, m : c = CloseFinalText(n) /\ m = TranscriptLine(n, l)
  OBVIOUS
<1>2. NormInv(c) /\ Moves(n, c) /\ IsNormalizer(c)
  BY <1>1, CloseKeeps DEF Moves, NormInv
<1>3. m = Emit(c, "line", NoIndex, l)
  BY <1>1 DEF TranscriptLine
<1>4. Emission(c, m, "line", NoIndex, l)
  BY <1>2, <1>3, EmitIs, Zenon
<1>5. OneEnvelope(c, m) /\ m.out[Len(m.out)].t = "line"
  BY <1>4 DEF Emission
<1>6. Moves(c, m)
  BY <1>2, <1>5, PlainMoves
<1>. QED  BY <1>1, <1>2, <1>6, MovesTwice

LEMMA DeltaMoves ==
    ASSUME NEW n, NormInv(n), NEW text
    PROVE  Moves(n, StreamDelta(n, text))
<1>1. PICK c, m : c = EnsureFinalText(n) /\ m = StreamDelta(n, text)
  OBVIOUS
<1>2. NormInv(c) /\ Moves(n, c) /\ IsNormalizer(c)
  BY <1>1, EnsureKeeps DEF Moves, NormInv
<1>3. m = Emit(c, "block_delta", c.openFinal, text)
  BY <1>1 DEF StreamDelta
<1>4. Emission(c, m, "block_delta", c.openFinal, text)
  BY <1>2, <1>3, EmitIs, Zenon
<1>5. OneEnvelope(c, m) /\ m.out[Len(m.out)].t = "block_delta"
  BY <1>4 DEF Emission
<1>6. Moves(c, m)
  BY <1>2, <1>5, PlainMoves
<1>. QED  BY <1>1, <1>2, <1>6, MovesTwice

LEMMA BlockMoves ==
    ASSUME NEW n, NormInv(n), NEW index \in 1 .. 3, NEW b, b.k \in {"call", "result"},
           b.k = "result" => Announced(n, b.id), NEW m, m = StreamBlockStart(n, index, b)
    PROVE  Moves(n, m) /\ (b.k = "call" => Announced(m, b.id))
<1>1. PICK c, s : c = CloseFinalText(n) /\ s = Emit(c, "block_start", index, b.k)
  OBVIOUS
<1>2. /\ NormInv(c) /\ Moves(n, c) /\ IsNormalizer(c)
      /\ \A source : Announced(n, source) => Announced(c, source)
  BY <1>1, CloseKeeps DEF Moves, NormInv
<1>3. Emission(c, s, "block_start", index, b.k)
  <2>1. s = Emit(c, "block_start", index, b.k)
    BY <1>1
  <2>. QED  BY <1>2, <2>1, EmitIs, Zenon
<1>4. /\ OneEnvelope(c, s) /\ s.out[Len(s.out)].t = "block_start"
      /\ s.out[Len(s.out)].i \in Int /\ s.out[Len(s.out)].i < SyntheticStart
  BY <1>3 DEF Emission, SyntheticStart
<1>5. /\ Moves(c, s)
      /\ \A source : Announced(c, source) => Announced(s, source)
  BY <1>2, <1>4, PlainMoves
<1>6. Moves(n, s) /\ NormInv(s) /\ (b.k = "result" => Announced(s, b.id))
  <2>1. Moves(n, s)
    BY <1>2, <1>5, MovesTwice
  <2>. QED  BY <2>1, <1>2, <1>5 DEF Moves
<1>7. CASE b.k = "call"
  <2>1. PICK r : r = RecordToolCall(s, b.id, b.name, b.args)
    OBVIOUS
  <2>2. NormInv(r) /\ Announced(r, b.id) /\ Moves(s, r)
    BY <1>6, <2>1, RecordCallKeeps DEF Moves
  <2>3. PICK f : m = [r EXCEPT !.streaming = f]
    <3>1. m = [r EXCEPT !.streaming = Put(r.streaming, index, r.calls[b.id].id)]
      BY <1>1, <1>7, <2>1 DEF StreamBlockStart
    <3>. QED  BY <3>1
  <2>4. IsNormalizer(r)
    BY <2>2 DEF NormInv
  <2>5. m = [pulse |-> r.pulse, seq |-> r.seq, calls |-> r.calls, streaming |-> f,
             files |-> r.files, ids |-> r.ids, openFinal |-> r.openFinal,
             nextFinal |-> r.nextFinal, ingress |-> r.ingress, out |-> r.out]
    BY <2>3, <2>4 DEF IsNormalizer
  <2>6. SameBut(m, r, r.calls, r.ids, r.openFinal, r.nextFinal)
    BY <2>4, <2>5 DEF SameBut, IsNormalizer
  <2>7. NormInv(m)
    BY <2>2, <2>6, EditKeeps
  <2>8. Announced(m, b.id)
    BY <2>2, <2>6 DEF Announced, SameBut
  <2>9. Moves(s, m)
    BY <2>2, <2>6, <2>7 DEF Moves, SameBut
  <2>. QED  BY <1>6, <2>8, <2>9, MovesTwice
<1>8. CASE b.k = "result"
  <2>1. m = RecordToolResult(s, b.id, b.err)
    BY <1>1, <1>8 DEF StreamBlockStart
  <2>2. Moves(s, m)
    BY <1>6, <1>8, <2>1, RecordResultKeeps DEF Moves
  <2>. QED  BY <1>6, <1>8, <2>2, MovesTwice
<1>. QED  BY <1>7, <1>8

LEMMA CompleteMoves ==
    ASSUME NEW n, NormInv(n), NEW index, NEW m, m = StreamBlockComplete(n, index)
    PROVE  Moves(n, m)
<1>0. IsNormalizer(n)
  BY DEF NormInv
<1>1. PICK f, o : o = [n EXCEPT !.streaming = f] /\ m = Emit(o, "block_complete", index, "")
  <2>1. PICK f : f = Drop(n.streaming, index)
    OBVIOUS
  <2>2. PICK o : o = [n EXCEPT !.streaming = f] /\ m = Emit(o, "block_complete", index, "")
    BY <2>1 DEF StreamBlockComplete
  <2>. QED  BY <2>2
<1>2. o = [pulse |-> n.pulse, seq |-> n.seq, calls |-> n.calls, streaming |-> f,
           files |-> n.files, ids |-> n.ids, openFinal |-> n.openFinal,
           nextFinal |-> n.nextFinal, ingress |-> n.ingress, out |-> n.out]
  BY <1>0, <1>1 DEF IsNormalizer
<1>3. SameBut(o, n, n.calls, n.ids, n.openFinal, n.nextFinal)
  BY <1>0, <1>2 DEF SameBut, IsNormalizer
<1>4. NormInv(o) /\ IsNormalizer(o) /\ o.out = n.out
  BY <1>3, EditKeeps DEF NormInv, SameBut
<1>5. Emission(o, m, "block_complete", index, "")
  <2>1. m = Emit(o, "block_complete", index, "")
    BY <1>1
  <2>. QED  BY <1>4, <2>1, EmitIs, Zenon
<1>6. OneEnvelope(o, m) /\ m.out[Len(m.out)].t = "block_complete"
  BY <1>5 DEF Emission
<1>7. Moves(o, m)
  BY <1>4, <1>6, PlainMoves
<1>. QED  BY <1>4, <1>7 DEF Moves

LEMMA PulseMoves ==
    ASSUME NEW n, NormInv(n), n.openFinal = NoIndex, NEW k, NEW ingress, NEW m,
           m = StartPulse(n, k, ingress)
    PROVE  Moves(n, m) /\ m.openFinal = NoIndex
<1>0. IsNormalizer(n)
  BY DEF NormInv
<1>1. PICK o :
         /\ o = [n EXCEPT !.pulse = k, !.calls = EmptyMap, !.streaming = EmptyMap,
                          !.files = {}, !.openFinal = NoIndex, !.nextFinal = SyntheticStart,
                          !.ingress = ingress]
         /\ m = Emit(o, "pulse_start", NoIndex, "")
  BY DEF StartPulse
<1>2. o = [pulse |-> k, seq |-> n.seq, calls |-> EmptyMap, streaming |-> EmptyMap,
           files |-> {}, ids |-> n.ids, openFinal |-> n.openFinal,
           nextFinal |-> SyntheticStart, ingress |-> ingress, out |-> n.out]
  BY <1>0, <1>1 DEF IsNormalizer
<1>3. SameBut(o, n, EmptyMap, n.ids, n.openFinal, SyntheticStart)
  BY <1>0, <1>2 DEF SameBut, IsNormalizer, SyntheticStart
<1>4. NormInv(o) /\ IsNormalizer(o) /\ o.out = n.out /\ o.openFinal = n.openFinal
  BY <1>3 DEF NormInv, SameBut
<1>5. Emission(o, m, "pulse_start", NoIndex, "")
  <2>1. m = Emit(o, "pulse_start", NoIndex, "")
    BY <1>1
  <2>. QED  BY <1>4, <2>1, EmitIs, Zenon
<1>6. OneEnvelope(o, m) /\ m.out[Len(m.out)].t = "pulse_start"
  BY <1>5 DEF Emission
<1>7. Moves(o, m)
  BY <1>4, <1>6, PlainMoves
<1>. QED  BY <1>4, <1>6, <1>7 DEF Moves, OneEnvelope

\* The end of the pulse: what is open is closed, and one pulse_end comes last.
EndsStream(n, m, status) ==
    /\ NormInv(m) /\ m.openFinal = NoIndex
    /\ Len(n.out) \in Nat /\ Len(m.out) \in Nat /\ Len(n.out) < Len(m.out)
    /\ \A i \in 1 .. Len(n.out) : m.out[i] = n.out[i]
    /\ \A i \in (Len(n.out) + 1) .. (Len(m.out) - 1) : m.out[i].t \in Content
    /\ m.out[Len(m.out)].t = "pulse_end" /\ m.out[Len(m.out)].v.status = status

LEMMA PulseEndEnds ==
    ASSUME NEW n, NEW c, NormInv(n), Moves(n, c), c.openFinal = NoIndex, NEW status, NEW files,
           NEW m, m = PulseEnd(ForgetCalls(c), status, files)
    PROVE  EndsStream(n, m, status)
<1>0. NormInv(c) /\ IsNormalizer(c)
  BY DEF Moves, NormInv
<1>1. PICK o : o = ForgetCalls(c)
  OBVIOUS
<1>2. o = [pulse |-> c.pulse, seq |-> c.seq, calls |-> EmptyMap, streaming |-> EmptyMap,
           files |-> c.files, ids |-> c.ids, openFinal |-> c.openFinal,
           nextFinal |-> c.nextFinal, ingress |-> c.ingress, out |-> c.out]
  BY <1>0, <1>1 DEF IsNormalizer, ForgetCalls
<1>3. SameBut(o, c, EmptyMap, c.ids, c.openFinal, c.nextFinal)
  BY <1>0, <1>2 DEF SameBut, IsNormalizer
<1>4. NormInv(o) /\ IsNormalizer(o) /\ o.out = c.out /\ o.openFinal = c.openFinal
  BY <1>0, <1>3, EditKeeps DEF NormInv, SameBut
<1>5. Emission(o, m, "pulse_end", NoIndex, [status |-> status, files |-> files])
  <2>1. m = Emit(o, "pulse_end", NoIndex, [status |-> status, files |-> files])
    BY <1>1 DEF PulseEnd
  <2>. QED  BY <1>4, <2>1, EmitIs, Zenon
<1>6. /\ OneEnvelope(o, m) /\ m.out[Len(m.out)].t = "pulse_end"
      /\ m.out[Len(m.out)].v.status = status
  BY <1>5 DEF Emission
<1>7. NormInv(m)
  BY <1>4, <1>6, EnvelopeKeeps
<1>8. /\ Len(c.out) \in Nat /\ Len(m.out) = Len(c.out) + 1 /\ m.openFinal = c.openFinal
      /\ \A k \in 1 .. Len(c.out) : m.out[k] = c.out[k]
  BY <1>4, <1>6 DEF OneEnvelope
<1>9. /\ Len(n.out) \in Nat /\ Len(n.out) <= Len(c.out)
      /\ \A i \in 1 .. Len(n.out) : c.out[i] = n.out[i]
      /\ \A i \in (Len(n.out) + 1) .. Len(c.out) : c.out[i].t \in Content
  BY SeqLen DEF Moves, Grows
<1>10. \A i \in (Len(n.out) + 1) .. (Len(m.out) - 1) : m.out[i].t \in Content
  BY <1>8, <1>9
<1>. QED  BY <1>6, <1>7, <1>8, <1>9, <1>10 DEF EndsStream

LEMMA FinishEnds ==
    ASSUME NEW n, NormInv(n), NEW status, NEW m, m = FinishTurn(n, status, {})
    PROVE  EndsStream(n, m, status)
<1>1. PICK c, files : c = CloseFinalText(n) /\ files = ResolveChangedFiles(n, {})
  OBVIOUS
<1>2. Moves(n, c) /\ c.openFinal = NoIndex
  BY <1>1, CloseKeeps DEF Moves
<1>3. m = PulseEnd(ForgetCalls(c), status, files)
  BY <1>1 DEF FinishTurn
<1>. QED  BY <1>2, <1>3, PulseEndEnds

LEMMA ErrorEnds ==
    ASSUME NEW n, NormInv(n), NEW m, m = EmitError(n, FALSE, {})
    PROVE  EndsStream(n, m, "failed")
<1>1. PICK c, files, failed :
          c = CloseFinalText(n) /\ files = ResolveChangedFiles(n, {}) /\ failed = "failed"
  OBVIOUS
<1>2. Moves(n, c) /\ c.openFinal = NoIndex /\ NormInv(c) /\ IsNormalizer(c)
  BY <1>1, CloseKeeps DEF Moves, NormInv
<1>3. PICK e : e = Emit(c, "error", NoIndex, "")
  OBVIOUS
<1>4. Emission(c, e, "error", NoIndex, "")
  BY <1>2, <1>3, EmitIs, Zenon
<1>5. OneEnvelope(c, e) /\ e.out[Len(e.out)].t = "error"
  BY <1>4 DEF Emission
<1>6. Moves(c, e) /\ e.openFinal = NoIndex
  BY <1>2, <1>5, PlainMoves DEF OneEnvelope
<1>7. Moves(n, e)
  BY <1>2, <1>6, MovesTwice
<1>8. m = PulseEnd(ForgetCalls(e), failed, files)
  BY <1>1, <1>3 DEF EmitError
<1>9. EndsStream(n, m, failed)
  BY <1>6, <1>7, <1>8, PulseEndEnds
<1>. QED  BY <1>1, <1>9

-----------------------------------------------------------------------------
(* Requests and answers are counted. *)

LEMMA CountIsNat ==
    ASSUME NEW out, NEW t, NEW i \in Nat
    PROVE  /\ IsFiniteSet({j \in 1 .. i : out[j].t = t})
           /\ CountOf(out, t, i) \in Nat
<1>1. IsFiniteSet(1 .. i)
  BY FS_Interval
<1>2. IsFiniteSet({j \in 1 .. i : out[j].t = t})
  BY <1>1, FS_Subset
<1>. QED  BY <1>2, FS_CardinalityType DEF CountOf

LEMMA CountNext ==
    ASSUME NEW out, NEW t, NEW i \in Nat
    PROVE  CountOf(out, t, i + 1) =
               IF out[i + 1].t = t THEN CountOf(out, t, i) + 1 ELSE CountOf(out, t, i)
<1>. DEFINE before == {j \in 1 .. i : out[j].t = t}
            after == {j \in 1 .. (i + 1) : out[j].t = t}
<1>1. IsFiniteSet(before)
  BY CountIsNat
<1>2. CASE out[i + 1].t = t
  <2>1. after = before \cup {i + 1} /\ i + 1 \notin before
    BY <1>2
  <2>2. Cardinality(before \cup {i + 1}) = Cardinality(before) + 1
    <3>. HIDE DEF before
    <3>. QED  BY <1>1, <2>1, FS_AddElement
  <2>. QED  BY <1>2, <2>1, <2>2 DEF CountOf
<1>3. CASE out[i + 1].t # t
  <2>1. after = before
    BY <1>3
  <2>. QED  BY <1>3, <2>1 DEF CountOf
<1>. QED  BY <1>2, <1>3

LEMMA CountSame ==
    ASSUME NEW a, NEW b, NEW t, NEW i, \A j \in 1 .. i : b[j] = a[j]
    PROVE  CountOf(b, t, i) = CountOf(a, t, i)
<1>1. {j \in 1 .. i : b[j].t = t} = {j \in 1 .. i : a[j].t = t}
  OBVIOUS
<1>. QED  BY <1>1 DEF CountOf

\* What has nothing to do with approvals changes no balance.
LEMMA BalanceGrows ==
    ASSUME NEW a, NEW b, NEW open, Balanced(a, open), Len(a) \in Nat, Len(b) \in Nat,
           Len(a) <= Len(b), \A i \in 1 .. Len(a) : b[i] = a[i],
           \A i \in (Len(a) + 1) .. Len(b) : b[i].t \notin {"approval_resolved", "approval_request"}
    PROVE  Balanced(b, open)
<1>. DEFINE l == Len(a)
<1>1. ASSUME NEW t \in {"approval_resolved", "approval_request"}, NEW i \in l .. Len(b)
      PROVE  CountOf(b, t, i) = CountOf(a, t, l)
  <2>1. {j \in 1 .. i : b[j].t = t} = {j \in 1 .. l : a[j].t = t}
    OBVIOUS
  <2>. QED  BY <2>1 DEF CountOf
<1>2. ASSUME NEW t, NEW i \in 0 .. l PROVE CountOf(b, t, i) = CountOf(a, t, i)
  <2>1. \A j \in 1 .. i : b[j] = a[j]
    OBVIOUS
  <2>. QED  BY <2>1, CountSame
<1>3. ASSUME NEW i \in 0 .. Len(b)
      PROVE  CountOf(b, "approval_resolved", i) <= CountOf(b, "approval_request", i)
  <2>1. CASE i \in 0 .. l
    BY <1>2, <2>1 DEF Balanced
  <2>2. CASE i \in l .. Len(b)
    BY <1>1, <2>2 DEF Balanced
  <2>. QED  BY <2>1, <2>2
<1>4. open => CountOf(b, "approval_resolved", Len(b)) < CountOf(b, "approval_request", Len(b))
  BY <1>1 DEF Balanced
<1>. QED  BY <1>3, <1>4 DEF Balanced

\* A request opens, an answer to an open one closes.
LEMMA BalanceAsked ==
    ASSUME NEW a, NEW b, NEW open, Balanced(a, open), Len(a) \in Nat, Len(b) = Len(a) + 1,
           \A i \in 1 .. Len(a) : b[i] = a[i],
           \/ b[Len(b)].t = "approval_request"
           \/ b[Len(b)].t = "approval_resolved" /\ open
    PROVE  Balanced(b, b[Len(b)].t = "approval_request")
<1>. DEFINE l == Len(a)
            R(i) == CountOf(b, "approval_resolved", i)
            Q(i) == CountOf(b, "approval_request", i)
<1>1. ASSUME NEW t, NEW i \in 0 .. l PROVE CountOf(b, t, i) = CountOf(a, t, i)
  <2>1. \A j \in 1 .. i : b[j] = a[j]
    OBVIOUS
  <2>. QED  BY <2>1, CountSame
<1>2. /\ \A i \in 0 .. l : R(i) <= Q(i)
      /\ open => R(l) < Q(l)
  BY <1>1 DEF Balanced
<1>3. R(l) \in Nat /\ Q(l) \in Nat
  BY CountIsNat
<1>4. /\ R(l + 1) = IF b[l + 1].t = "approval_resolved" THEN R(l) + 1 ELSE R(l)
      /\ Q(l + 1) = IF b[l + 1].t = "approval_request" THEN Q(l) + 1 ELSE Q(l)
  BY CountNext
<1>. HIDE DEF R, Q
<1>5. R(l + 1) <= Q(l + 1) /\ (b[l + 1].t = "approval_request" => R(l + 1) < Q(l + 1))
  BY <1>2, <1>3, <1>4
<1>6. \A i \in 0 .. Len(b) : R(i) <= Q(i)
  BY <1>2, <1>5
<1>. QED  BY <1>5, <1>6 DEF Balanced, R, Q

-----------------------------------------------------------------------------
(* What the task's invariant says of the stream is kept as it grows. *)

\* Nothing that ends the pulse is added.
LEMMA EndsSame ==
    ASSUME NEW a, NEW b, Len(a) \in Nat, Len(b) \in Nat, Len(a) <= Len(b),
           \A i \in 1 .. Len(a) : b[i] = a[i],
           \A i \in (Len(a) + 1) .. Len(b) : b[i].t # "pulse_end"
    PROVE  /\ Unended(a) => Unended(b)
           /\ HasEnd(a) => HasEnd(b)
           /\ \A errors : AllFailed(a, errors) => AllFailed(b, errors) /\ LastWord(b, errors)
           /\ ClosedBefore(a) => ClosedBefore(b)
<1>1. ASSUME NEW i \in 1 .. Len(b), b[i].t = "pulse_end"
      PROVE  i \in 1 .. Len(a) /\ a[i].t = "pulse_end" /\ a[i] = b[i]
  <2>1. i \notin (Len(a) + 1) .. Len(b)
    BY <1>1
  <2>2. i \in 1 .. Len(a)
    BY <2>1
  <2>. QED  BY <1>1, <2>2
<1>2. Unended(a) => Unended(b)
  BY <1>1 DEF Unended
<1>3. HasEnd(a) => HasEnd(b)
  BY DEF HasEnd
<1>4. ASSUME NEW errors, AllFailed(a, errors)
      PROVE  AllFailed(b, errors) /\ LastWord(b, errors)
  BY <1>1, <1>4 DEF AllFailed, LastWord
<1>5. ASSUME ClosedBefore(a) PROVE ClosedBefore(b)
  <2>1. ASSUME NEW e \in 1 .. Len(b), b[e].t = "pulse_end"
        PROVE  ClosedAt(b, e)
    <3>1. e \in 1 .. Len(a) /\ ClosedAt(a, e)
      BY <1>1, <1>5, <2>1 DEF ClosedBefore
    <3>2. \A i \in 1 .. (e - 1) : b[i] = a[i]
      BY <3>1
    <3>. QED  BY <3>1, <3>2 DEF ClosedAt
  <2>. QED  BY <2>1 DEF ClosedBefore
<1>. QED  BY <1>2, <1>3, <1>4, <1>5

LEMMA MovesKeeps ==
    ASSUME NEW n, NEW m, Moves(n, m)
    PROVE  /\ Unended(n.out) => Unended(m.out)
           /\ HasEnd(n.out) => HasEnd(m.out)
           /\ \A errors : AllFailed(n.out, errors) =>
                 AllFailed(m.out, errors) /\ LastWord(m.out, errors)
           /\ ClosedBefore(n.out) => ClosedBefore(m.out)
           /\ \A c : HasApproval(n.out, c) => HasApproval(m.out, c)
           /\ \A open : Balanced(n.out, open) => Balanced(m.out, open)
<1>1. /\ Len(n.out) \in Nat /\ Len(m.out) \in Nat /\ Len(n.out) <= Len(m.out)
      /\ \A i \in 1 .. Len(n.out) : m.out[i] = n.out[i]
      /\ \A i \in (Len(n.out) + 1) .. Len(m.out) : m.out[i].t \in Content
  BY SeqLen DEF Moves, Grows
<1>2. \A i \in (Len(n.out) + 1) .. Len(m.out) :
          m.out[i].t \notin {"approval_resolved", "approval_request", "pulse_end"}
  BY <1>1 DEF Content
<1>3. /\ Unended(n.out) => Unended(m.out)
      /\ HasEnd(n.out) => HasEnd(m.out)
      /\ \A errors : AllFailed(n.out, errors) =>
            AllFailed(m.out, errors) /\ LastWord(m.out, errors)
      /\ ClosedBefore(n.out) => ClosedBefore(m.out)
  BY <1>1, <1>2, EndsSame
<1>4. ASSUME NEW c, HasApproval(n.out, c) PROVE HasApproval(m.out, c)
  BY <1>1, <1>4 DEF HasApproval
<1>5. ASSUME NEW open, Balanced(n.out, open) PROVE Balanced(m.out, open)
  BY <1>1, <1>2, <1>5, BalanceGrows
<1>. QED  BY <1>3, <1>4, <1>5

LEMMA EndsKeeps ==
    ASSUME NEW n, NEW m, NEW status, EndsStream(n, m, status), NEW errors,
           AllFailed(n.out, errors), ClosedBefore(n.out)
    PROVE  /\ HasEnd(m.out) /\ LastWord(m.out, errors) /\ ClosedBefore(m.out)
           /\ errors > 0 /\ status = "failed" => AllFailed(m.out, errors)
           /\ \A c : HasApproval(n.out, c) => HasApproval(m.out, c)
           /\ \A open : Balanced(n.out, open) => Balanced(m.out, open)
<1>1. /\ Len(n.out) \in Nat /\ Len(m.out) \in Nat /\ Len(n.out) < Len(m.out)
      /\ \A i \in 1 .. Len(n.out) : m.out[i] = n.out[i]
      /\ \A i \in (Len(n.out) + 1) .. (Len(m.out) - 1) : m.out[i].t \in Content
      /\ m.out[Len(m.out)].t = "pulse_end" /\ m.out[Len(m.out)].v.status = status
      /\ NormInv(m) /\ m.openFinal = NoIndex
  BY DEF EndsStream
<1>2. \A i \in (Len(n.out) + 1) .. (Len(m.out) - 1) :
          m.out[i].t \notin {"approval_resolved", "approval_request", "pulse_end"}
  BY <1>1 DEF Content
<1>3. ASSUME NEW e \in 1 .. Len(m.out), m.out[e].t = "pulse_end", e # Len(m.out)
      PROVE  e \in 1 .. Len(n.out) /\ n.out[e].t = "pulse_end" /\ n.out[e] = m.out[e]
  <2>1. e \notin (Len(n.out) + 1) .. (Len(m.out) - 1)
    BY <1>2, <1>3
  <2>2. e \in 1 .. Len(n.out)
    BY <1>1, <1>3, <2>1
  <2>. QED  BY <1>1, <1>3, <2>2
<1>4. HasEnd(m.out)
  BY <1>1 DEF HasEnd
<1>5. LastWord(m.out, errors)
  BY <1>1, <1>3 DEF LastWord, AllFailed
<1>6. errors > 0 /\ status = "failed" => AllFailed(m.out, errors)
  BY <1>1, <1>3 DEF AllFailed
<1>7. ClosedBefore(m.out)
  <2>1. ASSUME NEW e \in 1 .. Len(m.out), m.out[e].t = "pulse_end"
        PROVE  ClosedAt(m.out, e)
    <3>1. CASE e = Len(m.out)
      <4>1. ASSUME NEW i \in 1 .. (e - 1), m.out[i].t = "block_start",
                   m.out[i].i >= SyntheticStart
            PROVE  \E j \in (i + 1) .. (e - 1) :
                      m.out[j].t = "block_complete" /\ m.out[j].i = m.out[i].i
        <5>1. i \in 1 .. Len(m.out) /\ TextAt(m.out, m.openFinal, i)
          BY <1>1, <3>1, <4>1 DEF NormInv
        <5>2. m.out[i].i # NoIndex
          BY <4>1 DEF NoIndex, SyntheticStart
        <5>3. PICK j \in (i + 1) .. Len(m.out) :
                 m.out[j].t = "block_complete" /\ m.out[j].i = m.out[i].i
          BY <1>1, <4>1, <5>1, <5>2 DEF TextAt
        <5>4. j # Len(m.out)
          BY <1>1, <5>3
        <5>. QED  BY <1>1, <3>1, <5>3, <5>4
      <4>. QED  BY <4>1 DEF ClosedAt
    <3>2. CASE e # Len(m.out)
      <4>1. e \in 1 .. Len(n.out) /\ ClosedAt(n.out, e)
        BY <1>3, <2>1, <3>2 DEF ClosedBefore
      <4>2. \A i \in 1 .. (e - 1) : m.out[i] = n.out[i]
        BY <1>1, <4>1
      <4>. QED  BY <4>1, <4>2 DEF ClosedAt
    <3>. QED  BY <3>1, <3>2
  <2>. QED  BY <2>1 DEF ClosedBefore
<1>8. ASSUME NEW c, HasApproval(n.out, c) PROVE HasApproval(m.out, c)
  BY <1>1, <1>8 DEF HasApproval
<1>9. ASSUME NEW open, Balanced(n.out, open) PROVE Balanced(m.out, open)
  <2>1. \A i \in (Len(n.out) + 1) .. Len(m.out) :
            m.out[i].t \notin {"approval_resolved", "approval_request"}
    BY <1>1, <1>2
  <2>. QED  BY <1>1, <1>9, <2>1, BalanceGrows
<1>. QED  BY <1>4, <1>5, <1>6, <1>7, <1>8, <1>9

\* One more envelope that is a request or the answer to an open one.
LEMMA AskKeeps ==
    ASSUME NEW n, NEW m, OneEnvelope(n, m),
           m.out[Len(m.out)].t \in {"approval_request", "approval_resolved"},
           NEW open, Balanced(n.out, open),
           m.out[Len(m.out)].t = "approval_resolved" => open
    PROVE  /\ Unended(n.out) => Unended(m.out)
           /\ HasEnd(n.out) => HasEnd(m.out)
           /\ \A errors : AllFailed(n.out, errors) =>
                 AllFailed(m.out, errors) /\ LastWord(m.out, errors)
           /\ ClosedBefore(n.out) => ClosedBefore(m.out)
           /\ \A c : HasApproval(n.out, c) => HasApproval(m.out, c)
           /\ Balanced(m.out, m.out[Len(m.out)].t = "approval_request")
<1>1. /\ Len(n.out) \in Nat /\ Len(m.out) = Len(n.out) + 1
      /\ \A k \in 1 .. Len(n.out) : m.out[k] = n.out[k]
  BY DEF OneEnvelope
<1>2. /\ Unended(n.out) => Unended(m.out)
      /\ HasEnd(n.out) => HasEnd(m.out)
      /\ \A errors : AllFailed(n.out, errors) =>
            AllFailed(m.out, errors) /\ LastWord(m.out, errors)
      /\ ClosedBefore(n.out) => ClosedBefore(m.out)
  <2>1. \A i \in (Len(n.out) + 1) .. Len(m.out) : m.out[i].t # "pulse_end"
    BY <1>1
  <2>2. Len(m.out) \in Nat /\ Len(n.out) <= Len(m.out)
    BY <1>1
  <2>. QED  BY <1>1, <2>1, <2>2, EndsSame
<1>3. \A c : HasApproval(n.out, c) => HasApproval(m.out, c)
  BY <1>1 DEF HasApproval
<1>4. Balanced(m.out, m.out[Len(m.out)].t = "approval_request")
  BY <1>1, BalanceAsked
<1>. QED  BY <1>2, <1>3, <1>4

LEMMA AnswerKeepsEnd ==
    ASSUME NEW n, NEW m, OneEnvelope(n, m), m.out[Len(m.out)].t = "approval_resolved",
           NEW errors, LastWord(n.out, errors)
    PROVE  LastWord(m.out, errors)
<1>1. /\ Len(n.out) \in Nat /\ Len(m.out) = Len(n.out) + 1
      /\ \A k \in 1 .. Len(n.out) : m.out[k] = n.out[k]
  BY DEF OneEnvelope
<1>2. ASSUME NEW i \in 1 .. Len(m.out), m.out[i].t = "pulse_end",
             ~(errors > 0 /\ m.out[i].v.status = "failed"),
             NEW j \in (i + 1) .. Len(m.out)
      PROVE  m.out[j].t = "approval_resolved"
  <2>1. i \in 1 .. Len(n.out) /\ m.out[i] = n.out[i]
    BY <1>1, <1>2
  <2>2. \A k \in (i + 1) .. Len(n.out) : n.out[k].t = "approval_resolved"
    BY <1>2, <2>1 DEF LastWord
  <2>3. CASE j = Len(m.out)
    BY <2>3
  <2>4. CASE j # Len(m.out)
    <3>1. j \in (i + 1) .. Len(n.out) /\ j \in 1 .. Len(n.out)
      BY <1>1, <2>1, <2>4
    <3>. QED  BY <1>1, <2>2, <3>1
  <2>. QED  BY <2>3, <2>4
<1>. QED  BY <1>2 DEF LastWord

-----------------------------------------------------------------------------
(* The queue between the turn and the worker. *)

LEMMA GoodKept ==
    ASSUME NEW u, NEW asked \in Nat, NEW more \in Nat, asked <= more, NEW tn, NEW nt,
           NEW errors \in Nat, NEW later \in Nat, errors <= later,
           GoodUpdate(u, asked, tn, errors), nt.ask \in Nat,
           \/ nt.ask = tn.ask /\ nt.capability = tn.capability
           \/ nt.ask > asked
    PROVE  GoodUpdate(u, more, nt, later)
  BY DEF GoodUpdate

\* What the turn sends in one go.
BatchFits(us, asked, tn, errors) ==
    /\ IsSeq(us)
    /\ \A i \in 1 .. Len(us) :
        /\ GoodUpdate(us[i], asked, tn, errors)
        /\ IsEnd(us[i]) => i = Len(us) /\ tn.phase = "done"
        /\ IsResultUpdate(us[i]) => i # 1 /\ IsCallUpdate(us[i - 1], us[i].v.id)

LEMMA QueueGrows ==
    ASSUME NEW q, NEW asked \in Nat, NEW more \in Nat, asked <= more, NEW tn, NEW nt, NEW n,
           NEW errors \in Nat, NEW later \in Nat, errors <= later,
           QueueOK(q, asked, tn, n, errors), tn.phase # "done", nt.ask \in Nat,
           \/ nt.ask = tn.ask /\ nt.capability = tn.capability
           \/ nt.ask > asked,
           NEW us, BatchFits(us, more, nt, later)
    PROVE  QueueOK(q \o us, more, nt, n, later)
<1>. DEFINE r == q \o us
<1>1. /\ IsSeq(r) /\ Len(q) \in Nat /\ Len(us) \in Nat /\ Len(r) = Len(q) + Len(us)
      /\ \A i \in 1 .. Len(q) : r[i] = q[i]
      /\ \A i \in 1 .. Len(us) : r[Len(q) + i] = us[i]
  BY SeqConcat DEF QueueOK, BatchFits
<1>. HIDE DEF r
<1>2. ASSUME NEW i \in 1 .. Len(r)
      PROVE  /\ GoodUpdate(r[i], more, nt, later)
             /\ IsEnd(r[i]) => i = Len(r) /\ nt.phase = "done"
             /\ IsResultUpdate(r[i]) =>
                   IF i = 1 THEN Announced(n, r[i].v.id) ELSE IsCallUpdate(r[i - 1], r[i].v.id)
  <2>1. CASE i \in 1 .. Len(q)
    <3>1. /\ GoodUpdate(q[i], asked, tn, errors) /\ ~IsEnd(q[i]) /\ r[i] = q[i]
          /\ IsResultUpdate(q[i]) =>
                IF i = 1 THEN Announced(n, q[i].v.id) ELSE IsCallUpdate(q[i - 1], q[i].v.id)
      BY <1>1, <2>1 DEF QueueOK
    <3>2. i # 1 => i - 1 \in 1 .. Len(q) /\ r[i - 1] = q[i - 1]
      BY <1>1, <2>1
    <3>3. GoodUpdate(q[i], more, nt, later)
      BY <3>1, GoodKept
    <3>. QED  BY <3>1, <3>2, <3>3
  <2>2. CASE i \in (Len(q) + 1) .. (Len(q) + Len(us))
    <3>1. PICK j \in 1 .. Len(us) : i = Len(q) + j
      <4>1. i - Len(q) \in 1 .. Len(us) /\ i = Len(q) + (i - Len(q))
        BY <1>1, <2>2
      <4>. QED  BY <4>1
    <3>2. /\ GoodUpdate(us[j], more, nt, later) /\ r[i] = us[j]
          /\ IsEnd(us[j]) => j = Len(us) /\ nt.phase = "done"
          /\ IsResultUpdate(us[j]) => j # 1 /\ IsCallUpdate(us[j - 1], us[j].v.id)
      BY <1>1, <3>1 DEF BatchFits
    <3>3. j # 1 => r[i - 1] = us[j - 1] /\ i # 1
      <4>1. j # 1 => j - 1 \in 1 .. Len(us) /\ i - 1 = Len(q) + (j - 1) /\ i # 1
        BY <1>1, <3>1
      <4>. QED  BY <1>1, <4>1
    <3>. QED  BY <1>1, <3>1, <3>2, <3>3
  <2>. QED  BY <1>1, <2>1, <2>2
<1>3. QueueOK(r, more, nt, n, later)
  BY <1>1, <1>2 DEF QueueOK
<1>. QED  BY <1>3 DEF r

LEMMA QueueTail ==
    ASSUME NEW q, NEW asked, NEW tn, NEW n, NEW errors,
           QueueOK(q, asked, tn, n, errors), q # <<>>, NEW m,
           Len(q) > 1 /\ IsResultUpdate(q[2]) => Announced(m, q[2].v.id)
    PROVE  QueueOK(Tail(q), asked, tn, m, errors)
<1>1. /\ IsSeq(Tail(q)) /\ Len(q) \in Nat \ {0} /\ Len(Tail(q)) = Len(q) - 1
      /\ \A i \in 1 .. (Len(q) - 1) : Tail(q)[i] = q[i + 1]
  BY SeqTail DEF QueueOK
<1>2. PICK r : r = Tail(q)
  OBVIOUS
<1>3. ASSUME NEW i \in 1 .. Len(r)
      PROVE  /\ GoodUpdate(r[i], asked, tn, errors)
             /\ IsEnd(r[i]) => i = Len(r) /\ tn.phase = "done"
             /\ IsResultUpdate(r[i]) =>
                   IF i = 1 THEN Announced(m, r[i].v.id) ELSE IsCallUpdate(r[i - 1], r[i].v.id)
  <2>1. i + 1 \in 1 .. Len(q) /\ i + 1 # 1 /\ r[i] = q[i + 1] /\ (i + 1) - 1 = i
    BY <1>1, <1>2
  <2>2. /\ GoodUpdate(q[i + 1], asked, tn, errors)
        /\ IsEnd(q[i + 1]) => i + 1 = Len(q) /\ tn.phase = "done"
        /\ IsResultUpdate(q[i + 1]) => IsCallUpdate(q[i], q[i + 1].v.id)
    BY <2>1 DEF QueueOK
  <2>3. i # 1 => r[i - 1] = q[i]
    <3>1. i # 1 => i - 1 \in 1 .. (Len(q) - 1) /\ (i - 1) + 1 = i
      BY <1>1, <1>2
    <3>. QED  BY <1>1, <1>2, <3>1
  <2>4. i = 1 /\ IsResultUpdate(r[i]) => Announced(m, r[i].v.id)
    BY <1>1, <1>2, <2>1
  <2>. QED  BY <1>1, <1>2, <2>1, <2>2, <2>3, <2>4
<1>. QED  BY <1>1, <1>2, <1>3 DEF QueueOK

LEMMA QueueStays ==
    ASSUME NEW q, NEW asked, NEW tn, NEW n, NEW errors,
           QueueOK(q, asked, tn, n, errors), NEW m,
           \A source : Announced(n, source) => Announced(m, source)
    PROVE  QueueOK(q, asked, tn, m, errors)
  BY DEF QueueOK

-----------------------------------------------------------------------------
(* The steps of the task. *)

LEMMA NewTask ==
    ASSUME NEW s, s = NewShared
    PROVE  /\ s = [n |-> s.n, pending |-> s.pending, inProgress |-> s.inProgress,
                   interrupted |-> s.interrupted, sessions |-> s.sessions,
                   completionPending |-> s.completionPending, quit |-> s.quit]
           /\ s.pending = NoAsk /\ s.sessions = {} /\ s.completionPending = FALSE
           /\ s.quit = FALSE /\ s.n.openFinal = NoIndex
           /\ NormInv(s.n) /\ Unended(s.n.out) /\ ClosedBefore(s.n.out)
           /\ \A errors : LastWord(s.n.out, errors) /\ AllFailed(s.n.out, errors)
           /\ Balanced(s.n.out, s.pending.ask # 0)
<1>1. PICK n : n = NewNormalizer(EmptyMap)
  OBVIOUS
<1>2. /\ s = [n |-> n, pending |-> NoAsk, inProgress |-> FALSE, interrupted |-> FALSE,
              sessions |-> {}, completionPending |-> FALSE, quit |-> FALSE]
  BY <1>1 DEF NewShared
<1>3. /\ n = [pulse |-> 0, seq |-> 1, calls |-> EmptyMap, streaming |-> EmptyMap,
              files |-> {}, ids |-> 0, openFinal |-> NoIndex, nextFinal |-> SyntheticStart,
              ingress |-> EmptyMap, out |-> <<>>]
  BY <1>1 DEF NewNormalizer
<1>4. IsSeq(n.out) /\ Len(n.out) = 0
  BY <1>3, SeqShort
<1>5. NormInv(n)
  <2>1. IsNormalizer(n)
    BY <1>3, <1>4 DEF IsNormalizer, NoIndex, SyntheticStart
  <2>. QED  BY <1>4, <2>1 DEF NormInv
<1>6. /\ Unended(n.out) /\ ClosedBefore(n.out)
      /\ \A errors : LastWord(n.out, errors) /\ AllFailed(n.out, errors)
  BY <1>4 DEF Unended, ClosedBefore, LastWord, AllFailed
<1>7. ASSUME NEW open, ~open PROVE Balanced(n.out, open)
  <2>1. CountOf(n.out, "approval_resolved", 0) = CountOf(n.out, "approval_request", 0)
    <3>1. {j \in 1 .. 0 : n.out[j].t = "approval_resolved"}
             = {j \in 1 .. 0 : n.out[j].t = "approval_request"}
      OBVIOUS
    <3>. QED  BY <3>1 DEF CountOf
  <2>2. CountOf(n.out, "approval_resolved", 0) \in Nat
    BY CountIsNat
  <2>. QED  BY <1>4, <1>7, <2>1, <2>2 DEF Balanced
<1>8. s.n = n /\ s.n.openFinal = NoIndex /\ ~(s.pending.ask # 0)
  BY <1>2, <1>3 DEF NoAsk
<1>9. Balanced(s.n.out, s.pending.ask # 0)
  BY <1>7, <1>8, Zenon
<1>. QED  BY <1>2, <1>5, <1>6, <1>8, <1>9

\* A task that has just been started, and no task at all.
Fresh ==
    /\ shared = NewShared /\ updates = <<>> /\ turn = Idle /\ cancelled = FALSE
    /\ answers = <<>> /\ inbox = 0
    /\ registered \in BOOLEAN /\ initial \in BOOLEAN /\ worker \in {"none", "building"}
    /\ registered = (worker # "none")
    /\ spent \in [runs : Nat, content : Nat, requests : Nat, errors : Nat] /\ spent.requests = 0

LEMMA FreshIsFine == Fresh => ApiInv
<1>. SUFFICES ASSUME Fresh PROVE ApiInv
  OBVIOUS
<1>0. Len(answers) = 0 /\ answers \in Seq({"none", "yes", "no"})
  BY DEF Fresh
<1>1. /\ turn = [phase |-> "none", capability |-> "none", ask |-> 0]
      /\ turn.phase = "none" /\ turn.ask = 0
  BY DEF Fresh, Idle
<1>2. ApiTypes
  <2>1. turn \in [phase : {"none", "running", "asking", "tool", "done"},
                  capability : Capabilities \cup {"none"}, ask : Nat]
    BY <1>1
  <2>2. spent.requests <= MaxRequests /\ inbox \in 0 .. spent.requests
    BY ApiAssumption DEF Fresh
  <2>3. /\ registered \in BOOLEAN /\ initial \in BOOLEAN /\ cancelled \in BOOLEAN
        /\ worker \in {"none", "building", "poll", "drain", "shutdown", "remove"}
        /\ registered = (worker # "none")
        /\ spent \in [runs : Nat, content : Nat, requests : Nat, errors : Nat]
    BY DEF Fresh
  <2>4. turn.ask <= Len(answers) /\ ~(turn.phase \in {"asking", "tool"})
    BY <1>0, <1>1
  <2>. QED  BY <1>0, <2>1, <2>2, <2>3, <2>4 DEF ApiTypes
<1>3. /\ shared = [n |-> shared.n, pending |-> shared.pending, inProgress |-> shared.inProgress,
                   interrupted |-> shared.interrupted, sessions |-> shared.sessions,
                   completionPending |-> shared.completionPending, quit |-> shared.quit]
      /\ shared.pending = NoAsk /\ shared.sessions = {} /\ shared.completionPending = FALSE
      /\ shared.quit = FALSE /\ shared.n.openFinal = NoIndex
      /\ NormInv(shared.n) /\ Unended(shared.n.out) /\ ClosedBefore(shared.n.out)
      /\ \A errors : LastWord(shared.n.out, errors) /\ AllFailed(shared.n.out, errors)
      /\ Balanced(shared.n.out, shared.pending.ask # 0)
  <2>1. shared = NewShared
    BY DEF Fresh
  <2>. QED  BY <2>1, NewTask
<1>4. shared.pending.ask = 0
  BY <1>3 DEF NoAsk
<1>5. SharedTypes
  <2>1. shared.pending.ask \in 0 .. Len(answers) /\ shared.sessions \subseteq 1 .. Len(answers)
    BY <1>0, <1>3, <1>4
  <2>. QED  BY <1>3, <1>4, <2>1 DEF SharedTypes
<1>6. IsSeq(updates) /\ Len(updates) = 0
  BY SeqShort DEF Fresh
<1>7. QueueInv
  BY <1>6 DEF QueueInv, QueueOK
<1>8. PhaseInv
  BY <1>1, <1>3, <1>6 DEF PhaseInv, Fresh
<1>9. EndInv /\ AskInv
  BY <1>3 DEF EndInv, AskInv
<1>10. ConsentInv
  BY <1>1 DEF ConsentInv
<1>. QED  BY <1>2, <1>3, <1>5, <1>7, <1>8, <1>9, <1>10 DEF ApiInv

LEMMA ApiInitially == ApiInit => ApiInv
<1>1. ASSUME ApiInit PROVE Fresh
  <2>1. spent \in [runs : Nat, content : Nat, requests : Nat, errors : Nat] /\ spent.requests = 0
    BY <1>1 DEF ApiInit
  <2>. QED  BY <1>1, <2>1 DEF ApiInit, Fresh
<1>. QED  BY <1>1, FreshIsFine

LEMMA TurnsStep ==
    ASSUME ApiInv, Turns
    PROVE  ApiInv'
<1>1. spent \in [runs : Nat, content : Nat, requests : Nat, errors : Nat]
  BY DEF ApiInv, ApiTypes
<1>2. /\ spent' \in [runs : Nat, content : Nat, requests : Nat, errors : Nat] /\ spent'.requests = 0
  BY <1>1 DEF Turns
<1>3. Fresh'
  BY <1>2 DEF Turns, Fresh
<1>4. Fresh' => ApiInv'
  BY FreshIsFine, PTL
<1>. QED  BY <1>3, <1>4

\* A step that leaves the stream, the queue and the turn alone.
SameTask ==
    /\ UNCHANGED <<updates, turn, answers>> /\ spent'.errors = spent.errors
    /\ shared' = [n |-> shared.n, pending |-> shared.pending, inProgress |-> shared'.inProgress,
                  interrupted |-> shared'.interrupted, sessions |-> shared.sessions,
                  completionPending |-> shared.completionPending, quit |-> shared.quit]

LEMMA SameTaskKeeps ==
    ASSUME ApiInv, SameTask
    PROVE  /\ SharedTypes' /\ NormInv(shared.n)' /\ QueueInv' /\ EndInv' /\ AskInv' /\ ConsentInv'
           /\ shared'.n = shared.n /\ shared'.completionPending = shared.completionPending
           /\ shared'.quit = shared.quit
<1>1. /\ shared'.n = shared.n /\ shared'.pending = shared.pending
      /\ shared'.sessions = shared.sessions
      /\ shared'.completionPending = shared.completionPending /\ shared'.quit = shared.quit
      /\ shared' = [n |-> shared'.n, pending |-> shared'.pending, inProgress |-> shared'.inProgress,
                    interrupted |-> shared'.interrupted, sessions |-> shared'.sessions,
                    completionPending |-> shared'.completionPending, quit |-> shared'.quit]
      /\ updates' = updates /\ turn' = turn /\ answers' = answers
      /\ spent'.errors = spent.errors
  BY DEF SameTask
<1>2. SharedTypes'
  BY <1>1 DEF ApiInv, SharedTypes
<1>3. NormInv(shared.n)' /\ QueueInv' /\ EndInv' /\ AskInv' /\ ConsentInv'
  BY <1>1 DEF ApiInv, QueueInv, EndInv, AllSaid, AskInv, ConsentInv
<1>. QED  BY <1>1, <1>2, <1>3

LEMMA UnchangedShared ==
    ASSUME ApiInv, shared' = shared, UNCHANGED <<updates, turn, answers>>,
           spent'.errors = spent.errors
    PROVE  SameTask
  BY DEF ApiInv, SharedTypes, SameTask

LEMMA PlainSteps ==
    ASSUME ApiInv, Interrupt \/ Built \/ PollNothing \/ Drained \/ Quit \/ ShutDown \/ Unregister
    PROVE  ApiInv'
<1>1. SameTask
  <2>1. shared' = shared /\ UNCHANGED <<updates, turn, answers>>
    BY DEF Interrupt, Built, PollNothing, Drained, Quit, ShutDown, Unregister
  <2>2. spent'.errors = spent.errors
    <3>1. CASE Interrupt
      BY <3>1 DEF Interrupt, Request, ApiInv, ApiTypes
    <3>2. CASE Built \/ PollNothing \/ Drained \/ Quit \/ ShutDown \/ Unregister
      BY <3>2 DEF Built, PollNothing, Drained, Quit, ShutDown, Unregister
    <3>. QED  BY <3>1, <3>2
  <2>. QED  BY <2>1, <2>2, UnchangedShared
<1>2. /\ SharedTypes' /\ NormInv(shared.n)' /\ QueueInv' /\ EndInv' /\ AskInv' /\ ConsentInv'
      /\ shared'.n = shared.n /\ shared'.completionPending = shared.completionPending
      /\ shared'.quit = shared.quit
  BY <1>1, SameTaskKeeps
<1>3. updates' = updates /\ turn' = turn /\ answers' = answers /\ initial' = initial
  BY DEF Interrupt, Built, PollNothing, Drained, Quit, ShutDown, Unregister
<1>4. ApiTypes'
  <2>1. CASE Interrupt
    <3>1. /\ spent.requests \in Nat /\ spent' = [spent EXCEPT !.requests = @ + 1]
          /\ spent.requests < MaxRequests /\ inbox' = inbox + 1
          /\ UNCHANGED <<registered, worker, initial, turn, cancelled, answers>>
      BY <2>1 DEF Interrupt, Request, ApiInv, ApiTypes
    <3>2. /\ spent' \in [runs : Nat, content : Nat, requests : Nat, errors : Nat]
          /\ spent'.requests = spent.requests + 1
      BY <3>1 DEF ApiInv, ApiTypes
    <3>3. spent'.requests <= MaxRequests /\ inbox' \in 0 .. spent'.requests
      BY <3>1, <3>2, ApiAssumption DEF ApiInv, ApiTypes
    <3>. QED  BY <3>1, <3>2, <3>3 DEF ApiInv, ApiTypes
  <2>2. CASE Built \/ PollNothing \/ Drained \/ Quit \/ ShutDown \/ Unregister
    BY <2>2 DEF ApiInv, ApiTypes, Built, PollNothing, Drained, Quit, ShutDown, Unregister
  <2>. QED  BY <2>1, <2>2
<1>5. PhaseInv'
  BY <1>2, <1>3 DEF ApiInv, PhaseInv, Interrupt, Built, PollNothing, Drained, Quit, ShutDown, Unregister
<1>. QED  BY <1>2, <1>4, <1>5 DEF ApiInv

LEMMA PollCommandStep ==
    ASSUME ApiInv, PollCommand
    PROVE  ApiInv'
<1>0. /\ shared' = IF shared.inProgress THEN [shared EXCEPT !.interrupted = TRUE] ELSE shared
      /\ cancelled' = (cancelled \/ shared.inProgress)
      /\ UNCHANGED <<updates, turn, answers, initial, registered, spent>>
      /\ worker = "poll" /\ worker' = "drain" /\ inbox' = inbox - 1 /\ inbox > 0
  BY DEF PollCommand, OnInterrupt
<1>1. SameTask
  <2>1. CASE shared.inProgress
    BY <1>0, <2>1 DEF ApiInv, SharedTypes, SameTask
  <2>2. CASE ~shared.inProgress
    BY <1>0, <2>2, UnchangedShared
  <2>. QED  BY <2>1, <2>2
<1>2. /\ SharedTypes' /\ NormInv(shared.n)' /\ QueueInv' /\ EndInv' /\ AskInv' /\ ConsentInv'
      /\ shared'.n = shared.n /\ shared'.completionPending = shared.completionPending
      /\ shared'.quit = shared.quit
  BY <1>1, SameTaskKeeps
<1>4. ApiTypes'
  BY <1>0 DEF ApiInv, ApiTypes
<1>5. PhaseInv'
  BY <1>0, <1>2 DEF ApiInv, PhaseInv
<1>. QED  BY <1>2, <1>4, <1>5 DEF ApiInv

LEMMA BuildFailsStep ==
    ASSUME ApiInv, BuildFails
    PROVE  ApiInv'
<1>1. PICK m : m = EmitError(shared.n, FALSE, {})
  OBVIOUS
<1>2. /\ shared' = [n |-> m, pending |-> shared.pending, inProgress |-> shared.inProgress,
                    interrupted |-> shared.interrupted, sessions |-> shared.sessions,
                    completionPending |-> shared.completionPending, quit |-> TRUE]
      /\ worker = "building" /\ worker' = "remove"
      /\ registered' = registered /\ initial' = initial /\ inbox' = inbox /\ updates' = updates
      /\ turn' = turn /\ cancelled' = cancelled /\ answers' = answers /\ spent' = spent
  BY <1>1 DEF BuildFails, ApiInv, SharedTypes
<1>3. /\ shared'.n = m /\ shared'.pending = shared.pending /\ shared'.sessions = shared.sessions
      /\ shared'.completionPending = shared.completionPending /\ shared'.quit = TRUE
      /\ shared' = [n |-> shared'.n, pending |-> shared'.pending, inProgress |-> shared'.inProgress,
                    interrupted |-> shared'.interrupted, sessions |-> shared'.sessions,
                    completionPending |-> shared'.completionPending, quit |-> shared'.quit]
  BY <1>2
<1>4. /\ turn.phase = "none" /\ Len(updates) = 0 /\ ~shared.quit /\ Unended(shared.n.out)
      /\ ~shared.completionPending /\ ClosedBefore(shared.n.out)
  BY <1>2 DEF ApiInv, PhaseInv, EndInv, SharedTypes
<1>a. AllFailed(shared.n.out, spent.errors)
  BY <1>4 DEF AllFailed, Unended
<1>5. EndsStream(shared.n, m, "failed")
  BY <1>1, ErrorEnds DEF ApiInv
<1>6. /\ HasEnd(m.out) /\ LastWord(m.out, spent.errors) /\ ClosedBefore(m.out)
      /\ \A open : Balanced(shared.n.out, open) => Balanced(m.out, open)
  BY <1>4, <1>a, <1>5, EndsKeeps
<1>7. ApiTypes'
  BY <1>2 DEF ApiInv, ApiTypes
<1>8. SharedTypes'
  BY <1>2, <1>3 DEF ApiInv, SharedTypes
<1>9. NormInv(shared.n)'
  BY <1>3, <1>5 DEF EndsStream
<1>10. QueueInv'
  BY <1>2, <1>4 DEF ApiInv, QueueInv, QueueOK
<1>11. PhaseInv'
  BY <1>2, <1>3, <1>4, <1>5 DEF ApiInv, PhaseInv, EndsStream
<1>12. EndInv'
  <2>1. AllSaid'
    BY <1>2, <1>3, <1>4 DEF AllSaid
  <2>. QED  BY <1>2, <1>3, <1>6, <2>1 DEF EndInv
<1>13. AskInv'
  <2>1. Balanced(m.out, shared.pending.ask # 0)
    BY <1>6 DEF ApiInv, AskInv
  <2>. QED  BY <1>3, <2>1 DEF AskInv
<1>14. ConsentInv'
  BY <1>2, <1>4 DEF ConsentInv
<1>. QED  BY <1>7, <1>8, <1>9, <1>10, <1>11, <1>12, <1>13, <1>14 DEF ApiInv

LEMMA PollInputStep ==
    ASSUME ApiInv, PollInput
    PROVE  ApiInv'
<1>1. PICK m : m = StartPulse(shared.n, 1, EmptyMap)
  OBVIOUS
<1>2. /\ shared' = [n |-> m, pending |-> shared.pending, inProgress |-> TRUE,
                    interrupted |-> FALSE, sessions |-> {},
                    completionPending |-> FALSE, quit |-> FALSE]
      /\ initial /\ initial' = FALSE /\ ~shared.quit
      /\ worker = "poll" /\ worker' = "drain" /\ cancelled' = FALSE
      /\ turn' = [phase |-> "running", capability |-> "none", ask |-> 0]
      /\ registered' = registered /\ inbox' = inbox /\ updates' = updates
      /\ answers' = answers /\ spent' = spent
  BY <1>1 DEF PollInput, OnUserInput, Idle, ApiInv, SharedTypes
<1>3. /\ shared'.n = m /\ shared'.pending = shared.pending /\ shared'.sessions = {}
      /\ shared'.completionPending = FALSE /\ shared'.quit = FALSE
      /\ shared' = [n |-> shared'.n, pending |-> shared'.pending, inProgress |-> shared'.inProgress,
                    interrupted |-> shared'.interrupted, sessions |-> shared'.sessions,
                    completionPending |-> shared'.completionPending, quit |-> shared'.quit]
      /\ turn'.phase = "running" /\ turn'.ask = 0
  BY <1>2
<1>4. Len(updates) = 0 /\ shared.n.openFinal = NoIndex /\ Unended(shared.n.out)
  BY <1>2 DEF ApiInv, PhaseInv, EndInv
<1>5. Moves(shared.n, m)
  BY <1>1, <1>4, PulseMoves DEF ApiInv
<1>6. /\ Unended(m.out)
      /\ \A open : Balanced(shared.n.out, open) => Balanced(m.out, open)
  BY <1>4, <1>5, MovesKeeps
<1>a. AllFailed(m.out, spent.errors) /\ LastWord(m.out, spent.errors) /\ ClosedBefore(m.out)
  BY <1>6 DEF Unended, AllFailed, LastWord, ClosedBefore
<1>7. ApiTypes'
  <2>1. turn' \in [phase : {"none", "running", "asking", "tool", "done"},
                   capability : Capabilities \cup {"none"}, ask : Nat]
    BY <1>2
  <2>2. turn'.ask <= Len(answers') /\ ~(turn'.phase \in {"asking", "tool"})
    BY <1>2, <1>3, SeqLen DEF ApiInv, ApiTypes
  <2>. QED  BY <1>2, <2>1, <2>2 DEF ApiInv, ApiTypes
<1>8. SharedTypes'
  BY <1>2, <1>3 DEF ApiInv, SharedTypes
<1>9. NormInv(shared.n)'
  BY <1>3, <1>5 DEF Moves
<1>10. QueueInv'
  BY <1>2, <1>4 DEF ApiInv, QueueInv, QueueOK
<1>11. PhaseInv'
  BY <1>2, <1>3, <1>4 DEF PhaseInv
<1>12. EndInv'
  BY <1>2, <1>3, <1>6, <1>a DEF EndInv
<1>13. AskInv'
  <2>1. Balanced(m.out, shared.pending.ask # 0)
    BY <1>6 DEF ApiInv, AskInv
  <2>. QED  BY <1>3, <2>1 DEF AskInv
<1>14. ConsentInv'
  BY <1>3 DEF ConsentInv
<1>. QED  BY <1>7, <1>8, <1>9, <1>10, <1>11, <1>12, <1>13, <1>14 DEF ApiInv

LEMMA ApproveStep ==
    ASSUME ApiInv, NEW capability, NEW approved \in BOOLEAN, Approve(capability, approved)
    PROVE  ApiInv'
<1>. DEFINE said == [capability |-> capability, approved |-> approved]
            k == shared.pending.ask
<1>1. PICK m : m = ApprovalAnswered(shared.n, said)
  OBVIOUS
<1>2. /\ shared' = [n |-> m, pending |-> NoAsk, inProgress |-> shared.inProgress,
                    interrupted |-> shared.interrupted, sessions |-> shared.sessions,
                    completionPending |-> shared.completionPending, quit |-> shared.quit]
      /\ shared.pending.ask # 0 /\ shared.pending.capability = capability
      /\ registered' = registered /\ inbox' = inbox /\ updates' = updates /\ turn' = turn
      /\ worker' = worker /\ initial' = initial /\ cancelled' = cancelled
      /\ spent.requests < MaxRequests /\ spent' = [spent EXCEPT !.requests = @ + 1]
  BY <1>1 DEF Approve, Request, Matches, Take, ApiInv, SharedTypes
<1>3. /\ shared'.n = m /\ shared'.pending.ask = 0 /\ shared'.sessions = shared.sessions
      /\ shared'.completionPending = shared.completionPending /\ shared'.quit = shared.quit
      /\ shared' = [n |-> shared'.n, pending |-> shared'.pending, inProgress |-> shared'.inProgress,
                    interrupted |-> shared'.interrupted, sessions |-> shared'.sessions,
                    completionPending |-> shared'.completionPending, quit |-> shared'.quit]
  BY <1>2 DEF NoAsk
<1>4. /\ answers' \in Seq({"none", "yes", "no"}) /\ Len(answers') = Len(answers)
      /\ \A i \in 1 .. Len(answers) : answers'[i] = "yes" =>
            answers[i] = "yes" \/ (i = k /\ approved /\ turn.phase = "asking" /\ turn.ask = k)
  <2>1. answers \in Seq({"none", "yes", "no"}) /\ k \in 1 .. Len(answers)
    BY <1>2 DEF ApiInv, ApiTypes, SharedTypes
  <2>2. answers' = [answers EXCEPT ![k] =
                     IF turn.phase = "asking" /\ turn.ask = k /\ @ = "none"
                     THEN IF approved THEN "yes" ELSE "no"
                     ELSE @]
    BY DEF Approve
  <2>. HIDE DEF k
  <2>. QED  BY <2>1, <2>2
<1>5. NormInv(shared.n) /\ IsNormalizer(shared.n)
  BY DEF ApiInv, NormInv
<1>6. Emission(shared.n, m, "approval_resolved", NoIndex, said)
  <2>1. m = Emit(shared.n, "approval_resolved", NoIndex, said)
    BY <1>1 DEF ApprovalAnswered
  <2>. QED  BY <1>5, <2>1, EmitIs, Zenon
<1>7. /\ OneEnvelope(shared.n, m) /\ m.out[Len(m.out)].t = "approval_resolved"
      /\ m.out[Len(m.out)].v = said
  BY <1>6 DEF Emission
<1>8. /\ NormInv(m)
      /\ \A source : Announced(shared.n, source) => Announced(m, source)
  BY <1>5, <1>7, EnvelopeKeeps
<1>9. PICK open : open /\ Balanced(shared.n.out, open)
  <2>1. Balanced(shared.n.out, shared.pending.ask # 0) /\ shared.pending.ask # 0
    BY <1>2 DEF ApiInv, AskInv
  <2>. QED  BY <2>1
<1>10. /\ Unended(shared.n.out) => Unended(m.out)
       /\ HasEnd(shared.n.out) => HasEnd(m.out)
       /\ \A errors : AllFailed(shared.n.out, errors) => AllFailed(m.out, errors)
       /\ ClosedBefore(shared.n.out) => ClosedBefore(m.out)
       /\ \A c : HasApproval(shared.n.out, c) => HasApproval(m.out, c)
       /\ Balanced(m.out, m.out[Len(m.out)].t = "approval_request")
  BY <1>7, <1>9, AskKeeps
<1>11. ApiTypes'
  <2>1. /\ spent' \in [runs : Nat, content : Nat, requests : Nat, errors : Nat]
        /\ spent'.requests = spent.requests + 1 /\ spent.requests \in Nat
        /\ spent'.errors = spent.errors
    BY <1>2 DEF ApiInv, ApiTypes
  <2>2. spent'.requests <= MaxRequests /\ inbox' \in 0 .. spent'.requests
    BY <1>2, <2>1, ApiAssumption DEF ApiInv, ApiTypes
  <2>. QED  BY <1>2, <1>4, <2>1, <2>2 DEF ApiInv, ApiTypes
<1>12. SharedTypes'
  <2>1. Len(answers) \in Nat
    BY DEF ApiInv, ApiTypes
  <2>. QED  BY <1>3, <1>4, <2>1 DEF ApiInv, SharedTypes
<1>13. QueueInv'
  <2>1. QueueOK(updates, Len(answers), turn, m, spent.errors)
    BY <1>8, QueueStays DEF ApiInv, QueueInv
  <2>2. spent'.errors = spent.errors
    BY <1>2 DEF ApiInv, ApiTypes
  <2>. QED  BY <1>2, <1>3, <1>4, <2>1, <2>2 DEF QueueInv
<1>14. PhaseInv'
  <2>1. m.openFinal = shared.n.openFinal
    BY <1>7 DEF OneEnvelope
  <2>. QED  BY <1>2, <1>3, <2>1 DEF ApiInv, PhaseInv
<1>15. EndInv'
  <2>1. spent'.errors = spent.errors
    BY <1>2 DEF ApiInv, ApiTypes
  <2>2. LastWord(m.out, spent.errors)
    BY <1>7, AnswerKeepsEnd DEF ApiInv, EndInv
  <2>3. AllSaid' = AllSaid
    BY <1>2, <1>3 DEF AllSaid
  <2>4. ~AllSaid => AllFailed(m.out, spent.errors)
    BY <1>10 DEF ApiInv, EndInv
  <2>5. /\ IF shared.quit THEN HasEnd(m.out) ELSE Unended(m.out)
        /\ ClosedBefore(m.out)
    BY <1>10 DEF ApiInv, EndInv
  <2>. QED  BY <1>3, <2>1, <2>2, <2>3, <2>4, <2>5 DEF EndInv
<1>16. AskInv'
  <2>1. Balanced(m.out, shared'.pending.ask # 0)
    <3>1. (shared'.pending.ask # 0) = (m.out[Len(m.out)].t = "approval_request")
      BY <1>3, <1>7
    <3>. QED  BY <1>10, <3>1
  <2>. QED  BY <1>3, <2>1 DEF AskInv
<1>17. ConsentInv'
  <2>1. turn.phase = "tool" => HasApproval(m.out, turn.capability)
    BY <1>10 DEF ApiInv, ConsentInv
  <2>2. ASSUME turn.phase = "asking", answers'[turn.ask] = "yes"
        PROVE  HasApproval(m.out, turn.capability)
    <3>1. turn.ask \in 1 .. Len(answers)
      BY <2>2 DEF ApiInv, ApiTypes
    <3>2. CASE answers[turn.ask] = "yes"
      BY <1>10, <2>2, <3>2 DEF ApiInv, ConsentInv
    <3>3. CASE answers[turn.ask] # "yes"
      <4>1. turn.ask = k /\ approved
        BY <1>4, <2>2, <3>1, <3>3
      <4>2. turn.capability = capability
        BY <1>2, <4>1 DEF ApiInv, SharedTypes
      <4>3. m.out[Len(m.out)].v = [capability |-> turn.capability, approved |-> TRUE]
        BY <1>7, <4>1, <4>2
      <4>4. Len(m.out) \in 1 .. Len(m.out)
        BY <1>7 DEF OneEnvelope
      <4>. QED  BY <1>7, <4>3, <4>4 DEF HasApproval
    <3>. QED  BY <3>2, <3>3
  <2>. QED  BY <1>2, <1>3, <2>1, <2>2 DEF ConsentInv
<1>18. NormInv(shared.n)'
  BY <1>3, <1>8
<1>. QED  BY <1>11, <1>12, <1>13, <1>14, <1>15, <1>16, <1>17, <1>18 DEF ApiInv

-----------------------------------------------------------------------------
(* The worker takes an update out of the queue. *)

LEMMA DrainFacts ==
    ASSUME ApiInv, DrainUpdate
    PROVE  /\ IsSeq(updates) /\ updates # <<>> /\ Len(updates) \in Nat \ {0}
           /\ Head(updates) = updates[1]
           /\ ~shared.completionPending /\ ~initial /\ turn.phase # "none"
           /\ AllFailed(shared.n.out, spent.errors) /\ ClosedBefore(shared.n.out)
           /\ GoodUpdate(updates[1], Len(answers), turn, spent.errors)
           /\ IsEnd(updates[1]) => Len(updates) = 1 /\ turn.phase = "done"
           /\ IsResultUpdate(updates[1]) => Announced(shared.n, updates[1].v.id)
           /\ Len(updates) > 1 /\ IsResultUpdate(updates[2]) =>
                 IsCallUpdate(updates[1], updates[2].v.id)
<1>1. IsSeq(updates) /\ updates # <<>>
  BY DEF ApiInv, QueueInv, QueueOK, DrainUpdate
<1>2. Len(updates) \in Nat \ {0} /\ Head(updates) = updates[1]
  BY <1>1, SeqTail
<1>3. ~shared.completionPending /\ ~initial /\ turn.phase # "none"
  BY <1>2 DEF ApiInv, PhaseInv
<1>a. AllFailed(shared.n.out, spent.errors) /\ ClosedBefore(shared.n.out)
  BY <1>2 DEF ApiInv, EndInv, AllSaid
<1>4. 1 \in 1 .. Len(updates) /\ (Len(updates) > 1 => 2 \in 1 .. Len(updates)) /\ 2 - 1 = 1
  BY <1>2
<1>5. /\ GoodUpdate(updates[1], Len(answers), turn, spent.errors)
      /\ IsEnd(updates[1]) => 1 = Len(updates) /\ turn.phase = "done"
      /\ IsResultUpdate(updates[1]) => Announced(shared.n, updates[1].v.id)
  BY <1>4 DEF ApiInv, QueueInv, QueueOK
<1>6. Len(updates) > 1 /\ IsResultUpdate(updates[2]) => IsCallUpdate(updates[1], updates[2].v.id)
  BY <1>4 DEF ApiInv, QueueInv, QueueOK
<1>. QED  BY <1>1, <1>2, <1>3, <1>a, <1>5, <1>6

\* The update moves the stream, or asks for an approval.
LEMMA DrainMoves ==
    ASSUME ApiInv, DrainUpdate, NEW m, NormInv(m),
           Unended(shared.n.out) => Unended(m.out), HasEnd(shared.n.out) => HasEnd(m.out),
           AllFailed(m.out, spent.errors), LastWord(m.out, spent.errors), ClosedBefore(m.out),
           \A c : HasApproval(shared.n.out, c) => HasApproval(m.out, c),
           NEW p, p.ask \in 0 .. Len(answers), Balanced(m.out, p.ask # 0),
           p.ask # 0 /\ p.ask = turn.ask => p.capability = turn.capability,
           NEW S, S \subseteq 1 .. Len(answers),
           NEW waits \in BOOLEAN, waits => turn.phase = "done" /\ Len(updates) = 1,
           shared' = [n |-> m, pending |-> p, inProgress |-> shared.inProgress,
                      interrupted |-> shared.interrupted, sessions |-> S,
                      completionPending |-> waits, quit |-> shared.quit],
           Len(updates) > 1 /\ IsResultUpdate(updates[2]) => Announced(m, updates[2].v.id)
    PROVE  ApiInv'
<1>1. /\ shared'.n = m /\ shared'.pending = p /\ shared'.sessions = S
      /\ shared'.completionPending = waits /\ shared'.quit = shared.quit
      /\ shared' = [n |-> shared'.n, pending |-> shared'.pending, inProgress |-> shared'.inProgress,
                    interrupted |-> shared'.interrupted, sessions |-> shared'.sessions,
                    completionPending |-> shared'.completionPending, quit |-> shared'.quit]
  OBVIOUS
<1>2. /\ IsSeq(updates) /\ updates # <<>> /\ Len(updates) \in Nat \ {0}
      /\ ~initial /\ turn.phase # "none"
  BY DrainFacts
<1>3. /\ worker = "drain" /\ updates' = Tail(updates) /\ registered' = registered
      /\ worker' = worker /\ initial' = initial /\ inbox' = inbox /\ turn' = turn
      /\ cancelled' = cancelled /\ answers' = answers /\ spent' = spent
  BY DEF DrainUpdate
<1>4. ApiTypes'
  BY <1>3 DEF ApiInv, ApiTypes
<1>5. SharedTypes'
  BY <1>1, <1>3 DEF ApiInv, SharedTypes
<1>6. QueueInv'
  <2>1. QueueOK(Tail(updates), Len(answers), turn, m, spent.errors)
    BY <1>2, QueueTail DEF ApiInv, QueueInv
  <2>. QED  BY <1>1, <1>3, <2>1 DEF QueueInv
<1>7. PhaseInv'
  <2>1. Len(Tail(updates)) = Len(updates) - 1
    BY <1>2, SeqTail
  <2>. QED  BY <1>1, <1>2, <1>3, <2>1 DEF ApiInv, PhaseInv
<1>8. EndInv' /\ AskInv'
  BY <1>1, <1>3 DEF ApiInv, EndInv, AskInv
<1>9. ConsentInv'
  BY <1>1, <1>3 DEF ApiInv, ConsentInv
<1>. QED  BY <1>1, <1>4, <1>5, <1>6, <1>7, <1>8, <1>9 DEF ApiInv

\* The update moves the stream and leaves the approvals as they are.
LEMMA DrainContent ==
    ASSUME ApiInv, DrainUpdate, NEW m, Moves(shared.n, m),
           NEW S, S \subseteq 1 .. Len(answers),
           NEW waits \in BOOLEAN, waits => turn.phase = "done" /\ Len(updates) = 1,
           shared' = [n |-> m, pending |-> shared.pending, inProgress |-> shared.inProgress,
                      interrupted |-> shared.interrupted, sessions |-> S,
                      completionPending |-> waits, quit |-> shared.quit],
           Len(updates) > 1 /\ IsResultUpdate(updates[2]) => Announced(m, updates[2].v.id)
    PROVE  ApiInv'
<1>1. NormInv(m)
  BY DEF Moves
<1>2. AllFailed(shared.n.out, spent.errors) /\ ClosedBefore(shared.n.out)
  BY DrainFacts
<1>3. /\ Unended(shared.n.out) => Unended(m.out)
      /\ HasEnd(shared.n.out) => HasEnd(m.out)
      /\ AllFailed(m.out, spent.errors) /\ LastWord(m.out, spent.errors) /\ ClosedBefore(m.out)
      /\ \A c : HasApproval(shared.n.out, c) => HasApproval(m.out, c)
      /\ \A open : Balanced(shared.n.out, open) => Balanced(m.out, open)
  BY <1>2, MovesKeeps
<1>4. /\ shared.pending.ask \in 0 .. Len(answers) /\ Balanced(m.out, shared.pending.ask # 0)
      /\ shared.pending.ask # 0 /\ shared.pending.ask = turn.ask =>
            shared.pending.capability = turn.capability
  BY <1>3 DEF ApiInv, AskInv, SharedTypes
<1>. QED  BY <1>1, <1>3, <1>4, DrainMoves

\* The update ends the stream, for good or for an error inside it.
LEMMA DrainEnds ==
    ASSUME ApiInv, DrainUpdate, NEW status, NEW m, EndsStream(shared.n, m, status),
           IsEnd(updates[1]) \/ (IsFailure(updates[1]) /\ status = "failed"),
           shared' = [n |-> m, pending |-> shared.pending, inProgress |-> FALSE,
                      interrupted |-> shared.interrupted, sessions |-> {},
                      completionPending |-> FALSE, quit |-> TRUE]
    PROVE  ApiInv'
<1>1. /\ shared'.n = m /\ shared'.pending = shared.pending /\ shared'.sessions = {}
      /\ shared'.completionPending = FALSE /\ shared'.quit = TRUE
      /\ shared' = [n |-> shared'.n, pending |-> shared'.pending, inProgress |-> shared'.inProgress,
                    interrupted |-> shared'.interrupted, sessions |-> shared'.sessions,
                    completionPending |-> shared'.completionPending, quit |-> shared'.quit]
  OBVIOUS
<1>2. /\ IsSeq(updates) /\ updates # <<>> /\ Len(updates) \in Nat \ {0} /\ ~initial
      /\ turn.phase # "none" /\ GoodUpdate(updates[1], Len(answers), turn, spent.errors)
      /\ IsEnd(updates[1]) => Len(updates) = 1 /\ turn.phase = "done"
      /\ AllFailed(shared.n.out, spent.errors) /\ ClosedBefore(shared.n.out)
  BY DrainFacts
<1>3. /\ worker = "drain" /\ updates' = Tail(updates) /\ registered' = registered
      /\ worker' = worker /\ initial' = initial /\ inbox' = inbox /\ turn' = turn
      /\ cancelled' = cancelled /\ answers' = answers /\ spent' = spent
  BY DEF DrainUpdate
<1>4. NormInv(m) /\ m.openFinal = NoIndex
  BY DEF EndsStream
<1>5. /\ IsFailure(updates[1]) => spent.errors > 0
      /\ ~(Len(updates) > 1 /\ IsResultUpdate(updates[2]))
  <2>1. updates[1].k \in {"complete", "error"}
    BY DEF IsEnd, IsFailure
  <2>2. ~(Len(updates) > 1 /\ IsResultUpdate(updates[2]))
    BY <2>1, DrainFacts DEF IsCallUpdate
  <2>3. IsFailure(updates[1]) => spent.errors > 0
    BY <1>2 DEF GoodUpdate, IsFailure
  <2>. QED  BY <2>2, <2>3
<1>6. /\ HasEnd(m.out) /\ LastWord(m.out, spent.errors) /\ ClosedBefore(m.out)
      /\ spent.errors > 0 /\ status = "failed" => AllFailed(m.out, spent.errors)
      /\ \A c : HasApproval(shared.n.out, c) => HasApproval(m.out, c)
      /\ \A open : Balanced(shared.n.out, open) => Balanced(m.out, open)
  BY <1>2, EndsKeeps
<1>7. ApiTypes'
  BY <1>3 DEF ApiInv, ApiTypes
<1>8. SharedTypes'
  BY <1>1, <1>3 DEF ApiInv, SharedTypes
<1>9. QueueInv' /\ Len(updates') = Len(updates) - 1
  <2>1. QueueOK(Tail(updates), Len(answers), turn, m, spent.errors)
    BY <1>2, <1>5, QueueTail DEF ApiInv, QueueInv
  <2>2. Len(Tail(updates)) = Len(updates) - 1
    BY <1>2, SeqTail
  <2>. QED  BY <1>1, <1>3, <2>1, <2>2 DEF QueueInv
<1>10. PhaseInv'
  BY <1>1, <1>2, <1>3, <1>4, <1>9 DEF PhaseInv
<1>11. EndInv'
  <2>1. IsEnd(updates[1]) => AllSaid'
    BY <1>1, <1>2, <1>3, <1>9 DEF AllSaid
  <2>2. ~IsEnd(updates[1]) => AllFailed(m.out, spent.errors)
    BY <1>5, <1>6
  <2>. QED  BY <1>1, <1>3, <1>6, <2>1, <2>2 DEF EndInv
<1>12. AskInv'
  <2>1. Balanced(m.out, shared.pending.ask # 0)
    BY <1>6 DEF ApiInv, AskInv
  <2>. QED  BY <1>1, <2>1 DEF AskInv
<1>13. ConsentInv'
  BY <1>1, <1>3, <1>6 DEF ApiInv, ConsentInv
<1>. QED  BY <1>1, <1>4, <1>7, <1>8, <1>9, <1>10, <1>11, <1>12, <1>13 DEF ApiInv

LEMMA DrainStep ==
    ASSUME ApiInv, DrainUpdate
    PROVE  ApiInv'
<1>. DEFINE u == updates[1]
            T(m, p, S, c) == [n |-> m, pending |-> p, inProgress |-> shared.inProgress,
                              interrupted |-> shared.interrupted, sessions |-> S,
                              completionPending |-> c, quit |-> shared.quit]
            errors == spent.errors
<1>0. /\ Len(updates) \in Nat \ {0}
      /\ ~shared.completionPending /\ turn.phase # "none"
      /\ GoodUpdate(u, Len(answers), turn, errors)
      /\ AllFailed(shared.n.out, errors) /\ ClosedBefore(shared.n.out)
      /\ IsEnd(u) => Len(updates) = 1 /\ turn.phase = "done"
      /\ IsResultUpdate(u) => Announced(shared.n, u.v.id)
      /\ Len(updates) > 1 /\ IsResultUpdate(updates[2]) => IsCallUpdate(u, updates[2].v.id)
  BY DrainFacts
<1>1. shared' = OnModelUpdate(shared, u)
  BY DrainFacts DEF DrainUpdate
<1>2. /\ shared = T(shared.n, shared.pending, shared.sessions, FALSE)
      /\ shared.sessions \subseteq 1 .. Len(answers) /\ NormInv(shared.n)
      /\ IsNormalizer(shared.n) /\ shared.completionPending = FALSE
  BY <1>0 DEF ApiInv, SharedTypes, NormInv
<1>3. u.k # "block" => ~(Len(updates) > 1 /\ IsResultUpdate(updates[2]))
  BY <1>0 DEF IsCallUpdate
<1>. HIDE DEF u
<1>4. ASSUME NEW m, Moves(shared.n, m), u.k # "block",
             shared' = T(m, shared.pending, shared.sessions, FALSE)
      PROVE  ApiInv'
  BY <1>2, <1>3, <1>4, DrainContent
<1>5. CASE u.k = "line"
  <2>1. PICK m, line : line = "line" /\ m = TranscriptLine(shared.n, line)
    OBVIOUS
  <2>2. shared' = T(m, shared.pending, shared.sessions, FALSE)
    BY <1>1, <1>2, <1>5, <2>1 DEF OnModelUpdate
  <2>3. Moves(shared.n, m)
    BY <1>2, <2>1, LineMoves
  <2>. QED  BY <1>4, <1>5, <2>2, <2>3
<1>6. CASE u.k = "delta"
  <2>1. PICK m : m = StreamDelta(shared.n, u.v)
    OBVIOUS
  <2>2. shared' = T(m, shared.pending, shared.sessions, FALSE)
    BY <1>1, <1>2, <1>6, <2>1 DEF OnModelUpdate
  <2>3. Moves(shared.n, m)
    BY <1>2, <2>1, DeltaMoves
  <2>. QED  BY <1>4, <1>6, <2>2, <2>3
<1>7. CASE u.k = "block_complete"
  <2>1. PICK m : m = StreamBlockComplete(shared.n, u.i)
    OBVIOUS
  <2>2. shared' = T(m, shared.pending, shared.sessions, FALSE)
    BY <1>1, <1>2, <1>7, <2>1 DEF OnModelUpdate
  <2>3. Moves(shared.n, m)
    BY <1>2, <2>1, CompleteMoves
  <2>. QED  BY <1>4, <1>7, <2>2, <2>3
<1>8. CASE u.k = "block"
  <2>1. PICK m : m = StreamBlockStart(shared.n, u.i, u.v)
    OBVIOUS
  <2>2. shared' = T(m, shared.pending, shared.sessions, FALSE)
    BY <1>1, <1>2, <1>8, <2>1 DEF OnModelUpdate
  <2>3. u.i \in 1 .. 3 /\ u.v.k \in {"call", "result"}
    BY <1>0, <1>8 DEF GoodUpdate, IsFailure
  <2>4. u.v.k = "result" => Announced(shared.n, u.v.id)
    BY <1>0, <1>8 DEF IsResultUpdate
  <2>5. Moves(shared.n, m) /\ (u.v.k = "call" => Announced(m, u.v.id))
    BY <1>2, <2>1, <2>3, <2>4, BlockMoves
  <2>6. Len(updates) > 1 /\ IsResultUpdate(updates[2]) => Announced(m, updates[2].v.id)
    BY <1>0, <2>5 DEF IsCallUpdate
  <2>. QED  BY <1>2, <2>2, <2>5, <2>6, DrainContent
<1>9. CASE u.k \in {"session", "session_end"}
  <2>1. u.v \in 1 .. Len(answers)
    BY <1>0, <1>9 DEF GoodUpdate, IsFailure
  <2>2. PICK S : S \subseteq 1 .. Len(answers) /\ shared' = T(shared.n, shared.pending, S, FALSE)
    <3>1. CASE u.k = "session"
      <4>1. shared' = T(shared.n, shared.pending, shared.sessions \cup {u.v}, FALSE)
        BY <1>1, <1>2, <3>1 DEF OnModelUpdate
      <4>2. shared.sessions \cup {u.v} \subseteq 1 .. Len(answers)
        BY <1>2, <2>1
      <4>. QED  BY <4>1, <4>2
    <3>2. CASE u.k = "session_end"
      <4>1. PICK s : s = [shared EXCEPT !.sessions = @ \ {u.v}]
        OBVIOUS
      <4>2. shared' = CompleteTurnIfIdle(s)
        BY <1>1, <3>2, <4>1 DEF OnModelUpdate
      <4>3. s = T(shared.n, shared.pending, shared.sessions \ {u.v}, FALSE)
            /\ s.completionPending = FALSE
        BY <1>2, <4>1
      <4>4. shared' = s
        BY <4>2, <4>3 DEF CompleteTurnIfIdle
      <4>5. shared.sessions \ {u.v} \subseteq 1 .. Len(answers)
        BY <1>2
      <4>. QED  BY <4>3, <4>4, <4>5
    <3>. QED  BY <1>9, <3>1, <3>2
  <2>3. Moves(shared.n, shared.n)
    BY <1>2, GrowsReflexive DEF Moves, IsNormalizer
  <2>4. u.k # "block"
    BY <1>9
  <2>. QED  BY <1>3, <2>2, <2>3, <2>4, DrainContent
<1>10. CASE u.k = "ask"
  <2>1. PICK m : m = Emit(shared.n, "approval_request", NoIndex, u.v.capability)
    OBVIOUS
  <2>2. shared' = T(m, u.v, shared.sessions, FALSE)
    BY <1>1, <1>2, <1>10, <2>1 DEF OnModelUpdate
  <2>3. u.v.ask \in 1 .. Len(answers) /\ (u.v.ask = turn.ask => u.v.capability = turn.capability)
    BY <1>0, <1>10 DEF GoodUpdate, IsFailure
  <2>4. Emission(shared.n, m, "approval_request", NoIndex, u.v.capability)
    BY <1>2, <2>1, EmitIs, Zenon
  <2>5. OneEnvelope(shared.n, m) /\ m.out[Len(m.out)].t = "approval_request"
    BY <2>4 DEF Emission
  <2>6. NormInv(m)
    BY <1>2, <2>5, EnvelopeKeeps
  <2>7. PICK open : Balanced(shared.n.out, open)
    BY DEF ApiInv, AskInv
  <2>8. /\ Unended(shared.n.out) => Unended(m.out)
        /\ HasEnd(shared.n.out) => HasEnd(m.out)
        /\ \A e : AllFailed(shared.n.out, e) => AllFailed(m.out, e) /\ LastWord(m.out, e)
        /\ ClosedBefore(shared.n.out) => ClosedBefore(m.out)
        /\ \A c : HasApproval(shared.n.out, c) => HasApproval(m.out, c)
        /\ Balanced(m.out, m.out[Len(m.out)].t = "approval_request")
    BY <2>5, <2>7, AskKeeps
  <2>9. AllFailed(m.out, errors) /\ LastWord(m.out, errors) /\ ClosedBefore(m.out)
    BY <1>0, <2>8
  <2>10. Balanced(m.out, u.v.ask # 0) /\ u.v.ask \in 0 .. Len(answers)
    <3>1. (u.v.ask # 0) = (m.out[Len(m.out)].t = "approval_request")
      BY <2>3, <2>5
    <3>. QED  BY <2>3, <2>8, <3>1
  <2>. QED  BY <1>2, <1>3, <1>10, <2>2, <2>3, <2>6, <2>8, <2>9, <2>10, DrainMoves
<1>11. CASE u.k = "complete"
  <2>1. PICK s : s = [shared EXCEPT !.completionPending = TRUE]
    OBVIOUS
  <2>2. shared' = CompleteTurnIfIdle(s)
    BY <1>1, <1>11, <2>1 DEF OnModelUpdate
  <2>3. s = T(shared.n, shared.pending, shared.sessions, TRUE)
    BY <1>2, <2>1
  <2>4. IsEnd(u)
    BY <1>11 DEF IsEnd
  <2>5. CASE shared.sessions # {}
    <3>1. shared' = T(shared.n, shared.pending, shared.sessions, TRUE)
      BY <2>2, <2>3, <2>5 DEF CompleteTurnIfIdle
    <3>2. Moves(shared.n, shared.n)
      BY <1>2, GrowsReflexive DEF Moves, IsNormalizer
    <3>3. u.k # "block"
      BY <1>11
    <3>. QED  BY <1>0, <1>2, <1>3, <2>4, <3>1, <3>2, <3>3, DrainContent
  <2>6. CASE shared.sessions = {}
    <3>1. PICK m, status : /\ status = IF s.interrupted THEN "cancelled" ELSE "completed"
                           /\ m = FinishTurn(shared.n, status, {})
      OBVIOUS
    <3>2. shared' = [n |-> m, pending |-> shared.pending, inProgress |-> FALSE,
                     interrupted |-> shared.interrupted, sessions |-> {},
                     completionPending |-> FALSE, quit |-> TRUE]
      BY <2>2, <2>3, <2>6, <3>1 DEF CompleteTurnIfIdle
    <3>3. EndsStream(shared.n, m, status)
      BY <1>2, <3>1, FinishEnds
    <3>. QED  BY <2>4, <3>2, <3>3, DrainEnds DEF u
  <2>. QED  BY <2>5, <2>6
<1>12. CASE u.k = "error"
  <2>1. PICK m : m = EmitError(shared.n, FALSE, {})
    OBVIOUS
  <2>2. shared' = [n |-> m, pending |-> shared.pending, inProgress |-> FALSE,
                   interrupted |-> shared.interrupted, sessions |-> {},
                   completionPending |-> FALSE, quit |-> TRUE]
    BY <1>1, <1>2, <1>12, <2>1 DEF OnModelUpdate, OnError
  <2>3. EndsStream(shared.n, m, "failed")
    BY <1>2, <2>1, ErrorEnds
  <2>4. IsEnd(u) \/ IsFailure(u)
    BY <1>0, <1>12 DEF GoodUpdate, IsEnd, IsFailure
  <2>. QED  BY <2>2, <2>3, <2>4, DrainEnds DEF u
<1>. QED  BY <1>0, <1>5, <1>6, <1>7, <1>8, <1>9, <1>10, <1>11, <1>12 DEF GoodUpdate, IsFailure

-----------------------------------------------------------------------------
(* The turn sends its updates. *)

LEMMA TurnSends ==
    ASSUME ApiInv, shared' = shared,
           UNCHANGED <<registered, worker, initial, inbox, cancelled>>,
           turn.phase \in {"running", "asking", "tool"}, NEW us, updates' = updates \o us,
           BatchFits(us, Len(answers'), turn', spent'.errors),
           turn' \in [phase : {"running", "asking", "tool", "done"},
                      capability : Capabilities \cup {"none"}, ask : Nat],
           \/ answers' = answers /\ turn'.ask = turn.ask /\ turn'.capability = turn.capability
           \/ answers' = Append(answers, "none") /\ turn'.ask = Len(answers) + 1,
           turn'.phase \in {"asking", "tool"} => turn'.ask # 0,
           spent' \in [runs : Nat, content : Nat, requests : Nat, errors : Nat],
           spent'.requests = spent.requests, spent.errors <= spent'.errors,
           turn'.phase = "tool" => HasApproval(shared.n.out, turn'.capability),
           turn'.phase = "asking" => answers'[turn'.ask] = "none"
    PROVE  ApiInv'
<1>1. /\ answers \in Seq({"none", "yes", "no"}) /\ Len(answers) \in Nat
      /\ turn.ask \in Nat /\ turn.ask <= Len(answers)
  BY DEF ApiInv, ApiTypes
<1>2. /\ answers' \in Seq({"none", "yes", "no"}) /\ Len(answers') \in Nat
      /\ Len(answers) <= Len(answers') /\ turn'.ask \in Nat /\ turn'.ask <= Len(answers')
      /\ \/ turn'.ask = turn.ask /\ turn'.capability = turn.capability
         \/ turn'.ask > Len(answers)
  <2>1. CASE answers' = answers /\ turn'.ask = turn.ask /\ turn'.capability = turn.capability
    BY <1>1, <2>1
  <2>2. CASE answers' = Append(answers, "none") /\ turn'.ask = Len(answers) + 1
    <3>1. answers' \in Seq({"none", "yes", "no"}) /\ Len(answers') = Len(answers) + 1
      BY <1>1, <2>2
    <3>. QED  BY <1>1, <2>2, <3>1
  <2>. QED  BY <2>1, <2>2
<1>3. /\ ~initial /\ ~shared.completionPending /\ worker # "building"
      /\ AllFailed(shared.n.out, spent.errors)
  BY DEF ApiInv, PhaseInv, EndInv, AllSaid
<1>4. ApiTypes'
  BY <1>2 DEF ApiInv, ApiTypes
<1>5. SharedTypes'
  <2>1. shared.pending.ask \in 0 .. Len(answers')
    BY <1>1, <1>2 DEF ApiInv, SharedTypes
  <2>2. shared.sessions \subseteq 1 .. Len(answers')
    BY <1>1, <1>2 DEF ApiInv, SharedTypes
  <2>3. shared.pending.ask # 0 /\ shared.pending.ask = turn'.ask =>
            shared.pending.capability = turn'.capability
    BY <1>1, <1>2 DEF ApiInv, SharedTypes
  <2>. QED  BY <2>1, <2>2, <2>3 DEF ApiInv, SharedTypes
<1>6. QueueInv'
  <2>1. /\ QueueOK(updates, Len(answers), turn, shared.n, spent.errors) /\ turn.phase # "done"
        /\ spent.errors \in Nat /\ spent'.errors \in Nat
    BY DEF ApiInv, QueueInv, ApiTypes
  <2>2. QueueOK(updates \o us, Len(answers'), turn', shared.n, spent'.errors)
    BY <1>1, <1>2, <2>1, QueueGrows
  <2>. QED  BY <2>2 DEF QueueInv
<1>7. PhaseInv'
  BY <1>3 DEF ApiInv, PhaseInv
<1>8. EndInv' /\ AskInv' /\ NormInv(shared.n)'
  <2>1. AllFailed(shared.n.out, spent'.errors) /\ LastWord(shared.n.out, spent'.errors)
    <3>1. spent.errors \in Nat /\ spent'.errors \in Nat
      BY DEF ApiInv, ApiTypes
    <3>2. spent.errors > 0 => spent'.errors > 0
      BY <3>1
    <3>3. ASSUME NEW i \in 1 .. Len(shared.n.out), shared.n.out[i].t = "pulse_end"
          PROVE  spent'.errors > 0 /\ shared.n.out[i].v.status = "failed"
      BY <1>3, <3>2, <3>3 DEF AllFailed
    <3>. QED  BY ONLY <3>3 DEF AllFailed, LastWord
  <2>. QED  BY <2>1 DEF ApiInv, EndInv, AskInv
<1>9. ConsentInv'
  BY DEF ConsentInv
<1>. QED  BY <1>4, <1>5, <1>6, <1>7, <1>8, <1>9 DEF ApiInv

\* The turn changes its phase at most, and sends.
LEMMA TurnGoesOn ==
    ASSUME ApiInv, NEW us, Send(us), TurnOnly, turn.phase \in {"running", "asking", "tool"},
           BatchFits(us, Len(answers), turn', spent'.errors),
           NEW phase \in {"running", "tool", "done"}, turn' = [turn EXCEPT !.phase = phase],
           spent' \in [runs : Nat, content : Nat, requests : Nat, errors : Nat],
           spent'.requests = spent.requests, spent.errors <= spent'.errors,
           phase = "tool" => turn.ask # 0 /\ HasApproval(shared.n.out, turn.capability)
    PROVE  ApiInv'
<1>1. turn \in [phase : {"none", "running", "asking", "tool", "done"},
                capability : Capabilities \cup {"none"}, ask : Nat]
  BY DEF ApiInv, ApiTypes
<1>2. /\ turn' \in [phase : {"running", "asking", "tool", "done"},
                    capability : Capabilities \cup {"none"}, ask : Nat]
      /\ turn'.phase = phase /\ turn'.ask = turn.ask /\ turn'.capability = turn.capability
  BY <1>1
<1>3. /\ shared' = shared /\ updates' = updates \o us /\ answers' = answers
      /\ UNCHANGED <<registered, worker, initial, inbox, cancelled>>
  BY DEF Send, TurnOnly
<1>4. turn'.phase \in {"asking", "tool"} => turn'.ask # 0
  BY <1>2
<1>5. turn'.phase = "tool" => HasApproval(shared.n.out, turn'.capability)
  BY <1>2
<1>6. turn'.phase # "asking"
  BY <1>2
<1>7. BatchFits(us, Len(answers'), turn', spent'.errors)
  BY <1>3
<1>. QED  BY <1>2, <1>3, <1>4, <1>5, <1>6, <1>7, TurnSends

LEMMA FitsOne ==
    ASSUME NEW u, NEW asked, NEW tn, NEW errors,
           GoodUpdate(u, asked, tn, errors), IsEnd(u) => tn.phase = "done",
           ~IsResultUpdate(u)
    PROVE  BatchFits(<<u>>, asked, tn, errors)
<1>1. IsSeq(<<u>>) /\ Len(<<u>>) = 1 /\ <<u>>[1] = u
  BY SeqShort
<1>. QED  BY <1>1 DEF BatchFits

\* Two batches, of a turn that is not over.
LEMMA FitsBoth ==
    ASSUME NEW us, NEW vs, NEW asked, NEW tn, NEW errors,
           BatchFits(us, asked, tn, errors), BatchFits(vs, asked, tn, errors),
           tn.phase # "done"
    PROVE  BatchFits(us \o vs, asked, tn, errors)
<1>1. PICK r : r = us \o vs
  OBVIOUS
<1>2. /\ IsSeq(r) /\ Len(us) \in Nat /\ Len(vs) \in Nat /\ Len(r) = Len(us) + Len(vs)
      /\ \A i \in 1 .. Len(us) : r[i] = us[i]
      /\ \A i \in 1 .. Len(vs) : r[Len(us) + i] = vs[i]
  BY <1>1, SeqConcat DEF BatchFits
<1>3. ASSUME NEW i \in 1 .. Len(r)
      PROVE  /\ GoodUpdate(r[i], asked, tn, errors)
             /\ IsEnd(r[i]) => i = Len(r) /\ tn.phase = "done"
             /\ IsResultUpdate(r[i]) => i # 1 /\ IsCallUpdate(r[i - 1], r[i].v.id)
  <2>1. CASE i \in 1 .. Len(us)
    <3>1. i # 1 => r[i - 1] = us[i - 1]
      BY <1>2, <2>1
    <3>2. /\ GoodUpdate(us[i], asked, tn, errors) /\ r[i] = us[i] /\ ~IsEnd(us[i])
          /\ IsResultUpdate(us[i]) => i # 1 /\ IsCallUpdate(us[i - 1], us[i].v.id)
      BY <1>2, <2>1 DEF BatchFits
    <3>. QED  BY <3>1, <3>2
  <2>2. CASE i \in (Len(us) + 1) .. (Len(us) + Len(vs))
    <3>1. PICK j \in 1 .. Len(vs) : i = Len(us) + j
      <4>1. i - Len(us) \in 1 .. Len(vs) /\ i = Len(us) + (i - Len(us))
        BY <1>2, <2>2
      <4>. QED  BY <4>1
    <3>2. /\ GoodUpdate(vs[j], asked, tn, errors) /\ r[i] = vs[j]
          /\ IsEnd(vs[j]) => j = Len(vs) /\ tn.phase = "done"
          /\ IsResultUpdate(vs[j]) => j # 1 /\ IsCallUpdate(vs[j - 1], vs[j].v.id)
      BY <1>2, <3>1 DEF BatchFits
    <3>3. j # 1 => r[i - 1] = vs[j - 1] /\ i # 1
      <4>1. j # 1 => j - 1 \in 1 .. Len(vs) /\ i - 1 = Len(us) + (j - 1) /\ i # 1
        BY <1>2, <3>1
      <4>. QED  BY <1>2, <4>1
    <3>. QED  BY <1>2, <3>1, <3>2, <3>3
  <2>. QED  BY <1>2, <2>1, <2>2
<1>4. BatchFits(r, asked, tn, errors)
  BY <1>2, <1>3 DEF BatchFits
<1>. QED  BY <1>1, <1>4

\* Work: one more act of the turn, and an error of the stream when it is one.
LEMMA WorkDone ==
    ASSUME NEW s, NEW t, NEW e \in Nat,
           s \in [runs : Nat, content : Nat, requests : Nat, errors : Nat],
           t = [s EXCEPT !.content = @ + 1, !.errors = @ + e]
    PROVE  /\ t \in [runs : Nat, content : Nat, requests : Nat, errors : Nat]
           /\ t.requests = s.requests /\ t.errors = s.errors + e /\ s.errors <= t.errors
<1>1. /\ s.runs \in Nat /\ s.content \in Nat /\ s.requests \in Nat /\ s.errors \in Nat
  OBVIOUS
<1>2. PICK m : m = [s EXCEPT !.content = @ + 1]
  OBVIOUS
<1>3. /\ m \in [runs : Nat, content : Nat, requests : Nat, errors : Nat]
      /\ m.requests = s.requests /\ m.errors = s.errors
  BY <1>1, <1>2
<1>4. t = [m EXCEPT !.errors = @ + e]
  BY <1>2
<1>5. m.errors + e \in Nat /\ m.errors <= m.errors + e
  BY <1>1, <1>3
<1>. QED  BY ONLY <1>3, <1>4, <1>5

LEMMA SayStep ==
    ASSUME ApiInv, NEW u, NEW e \in {0, 1}, u.k \in {"line", "delta"} \/ (IsFailure(u) /\ e = 1),
           Work(e), Send(<<u>>), turn' = turn, TurnOnly
    PROVE  ApiInv'
<1>1. turn.phase = "running" /\ spent' = [spent EXCEPT !.content = @ + 1, !.errors = @ + e]
  BY DEF Work
<1>2. spent \in [runs : Nat, content : Nat, requests : Nat, errors : Nat]
  BY DEF ApiInv, ApiTypes
<1>3. /\ spent' \in [runs : Nat, content : Nat, requests : Nat, errors : Nat]
      /\ spent'.requests = spent.requests /\ spent'.errors = spent.errors + e
      /\ spent.errors <= spent'.errors /\ (e = 1 => spent'.errors > 0)
  <2>1. /\ spent' \in [runs : Nat, content : Nat, requests : Nat, errors : Nat]
        /\ spent'.requests = spent.requests /\ spent'.errors = spent.errors + e
        /\ spent.errors <= spent'.errors
    <3>1. e \in Nat
      OBVIOUS
    <3>. QED  BY <1>1, <1>2, <3>1, WorkDone
  <2>2. spent.errors \in Nat
    BY <1>2
  <2>. QED  BY <2>1, <2>2
<1>4. PICK phase : phase = "running" /\ turn' = [turn EXCEPT !.phase = phase]
  <2>1. turn \in [phase : {"none", "running", "asking", "tool", "done"},
                  capability : Capabilities \cup {"none"}, ask : Nat]
    BY DEF ApiInv, ApiTypes
  <2>. QED  BY <1>1, <2>1
<1>5. BatchFits(<<u>>, Len(answers), turn', spent'.errors)
  <2>1. GoodUpdate(u, Len(answers), turn', spent'.errors) /\ ~IsEnd(u) /\ ~IsResultUpdate(u)
    BY <1>3 DEF GoodUpdate, IsEnd, IsFailure, IsResultUpdate
  <2>. QED  BY <2>1, FitsOne
<1>. QED  BY <1>1, <1>3, <1>4, <1>5, TurnGoesOn

LEMMA EndStep ==
    ASSUME ApiInv, NEW u, IsEnd(u), turn.phase \in {"running", "asking", "tool"},
           turn' = [turn EXCEPT !.phase = "done"], Send(<<u>>), UNCHANGED spent, TurnOnly
    PROVE  ApiInv'
<1>1. PICK phase : phase = "done" /\ turn' = [turn EXCEPT !.phase = phase]
  OBVIOUS
<1>2. turn'.phase = "done"
  BY DEF ApiInv, ApiTypes
<1>3. BatchFits(<<u>>, Len(answers), turn', spent'.errors)
  <2>1. GoodUpdate(u, Len(answers), turn', spent'.errors) /\ ~IsResultUpdate(u)
    BY DEF GoodUpdate, IsEnd, IsResultUpdate
  <2>. QED  BY <1>2, <2>1, FitsOne
<1>4. /\ spent' \in [runs : Nat, content : Nat, requests : Nat, errors : Nat]
      /\ spent'.requests = spent.requests /\ spent.errors <= spent'.errors
  BY DEF ApiInv, ApiTypes
<1>. QED  BY <1>1, <1>3, <1>4, TurnGoesOn

\* The announcements and the results of a call.
LEMMA CallUpdates ==
    ASSUME NEW c, NEW asked, NEW tn, NEW errors, NEW i \in 1 .. 3, NEW u, u = Update("block", i, CallBlock(c))
    PROVE  /\ GoodUpdate(u, asked, tn, errors) /\ ~IsEnd(u) /\ ~IsResultUpdate(u)
           /\ IsCallUpdate(u, c.id)
<1>1. u.k = "block" /\ u.i = i /\ u.v.k = "call" /\ u.v.id = c.id
  BY DEF Update, CallBlock
<1>. QED  BY <1>1 DEF GoodUpdate, IsEnd, IsResultUpdate, IsCallUpdate

LEMMA ResultUpdates ==
    ASSUME NEW c, NEW err, NEW asked, NEW tn, NEW errors, NEW u, u = Update("block", 3, ResultBlock(c, err))
    PROVE  GoodUpdate(u, asked, tn, errors) /\ ~IsEnd(u) /\ u.v.id = c.id
<1>1. u.k = "block" /\ u.i = 3 /\ u.v.k = "result" /\ u.v.id = c.id
  BY DEF Update, ResultBlock
<1>. QED  BY <1>1 DEF GoodUpdate, IsEnd

LEMMA CompleteUpdates ==
    ASSUME NEW asked, NEW tn, NEW errors, NEW i \in 1 .. 3, NEW u, u = Update("block_complete", i, 0)
    PROVE  GoodUpdate(u, asked, tn, errors) /\ ~IsEnd(u) /\ ~IsResultUpdate(u)
<1>1. u.k = "block_complete" /\ u.i = i
  BY DEF Update
<1>. QED  BY <1>1 DEF GoodUpdate, IsEnd, IsResultUpdate

LEMMA CallToolStep ==
    ASSUME ApiInv, NEW capability \in Capabilities, NEW fails \in BOOLEAN,
           CallTool(capability, fails)
    PROVE  ApiInv'
<1>. DEFINE l == Len(answers) + 1
<1>1. PICK ask, call, a, b, f, c, d, fs, n :
        /\ ask = [capability |-> capability, ask |-> l] /\ call = TheCall(capability, l)
        /\ a = Update("block", 1, CallBlock(call)) /\ b = Update("block_complete", 1, 0)
        /\ c = Update("block", 2, CallBlock(call)) /\ d = Update("ask", 0, ask)
        /\ f = Update("error", 0, 1) /\ fs = (IF fails THEN <<f>> ELSE <<>>)
        /\ n = IF fails THEN 1 ELSE 0
  OBVIOUS
<1>2. /\ turn.phase = "running" /\ spent' = [spent EXCEPT !.content = @ + 1, !.errors = @ + n]
      /\ turn' = [phase |-> "asking", capability |-> capability, ask |-> l]
      /\ updates' = updates \o (<<a, b>> \o fs \o <<c>> \o <<d>>)
      /\ answers' = Append(answers, "none") /\ shared' = shared
      /\ UNCHANGED <<registered, worker, initial, inbox, cancelled>>
  BY <1>1 DEF CallTool, Work, Send, CallStreamed, StreamError, SetToolCallStatus, ApprovalAsk
<1>3. /\ Len(answers) \in Nat /\ answers \in Seq({"none", "yes", "no"})
      /\ spent \in [runs : Nat, content : Nat, requests : Nat, errors : Nat]
  BY DEF ApiInv, ApiTypes
<1>4. /\ l \in Nat /\ l # 0 /\ Len(answers') = l /\ answers'[l] = "none"
      /\ spent' \in [runs : Nat, content : Nat, requests : Nat, errors : Nat]
      /\ spent'.requests = spent.requests /\ spent.errors <= spent'.errors
      /\ fails => spent'.errors > 0
  <2>1. Len(answers') = l /\ answers'[l] = "none"
    BY <1>2, <1>3
  <2>2. /\ spent' \in [runs : Nat, content : Nat, requests : Nat, errors : Nat]
        /\ spent'.requests = spent.requests /\ spent.errors <= spent'.errors
        /\ fails => spent'.errors > 0
    <3>1. spent' = [spent EXCEPT !.content = @ + 1, !.errors = @ + n]
      BY <1>2
    <3>2. spent \in [runs : Nat, content : Nat, requests : Nat, errors : Nat]
      BY <1>3
    <3>3. n \in Nat /\ (fails => n = 1)
      <4>1. CASE fails
        BY <1>1, <4>1
      <4>2. CASE ~fails
        BY <1>1, <4>2
      <4>. QED  BY <4>1, <4>2
    <3>4. /\ spent' \in [runs : Nat, content : Nat, requests : Nat, errors : Nat]
          /\ spent'.requests = spent.requests /\ spent'.errors = spent.errors + n
          /\ spent.errors <= spent'.errors
      BY <3>1, <3>2, <3>3, WorkDone
    <3>5. spent.errors \in Nat
      BY <3>2
    <3>. QED  BY <3>3, <3>4, <3>5
  <2>. QED  BY <1>3, <2>1, <2>2
<1>5. /\ turn' \in [phase : {"running", "asking", "tool", "done"},
                    capability : Capabilities \cup {"none"}, ask : Nat]
      /\ turn'.phase = "asking" /\ turn'.capability = capability /\ turn'.ask = l
  BY <1>2, <1>4
<1>. HIDE DEF l
<1>6. PICK us : us = <<a, b>> \o fs \o <<c>> \o <<d>> /\ updates' = updates \o us
  BY <1>2
<1>7. BatchFits(us, Len(answers'), turn', spent'.errors)
  <2>1. turn'.phase # "done"
    BY <1>5
  <2>2. GoodUpdate(a, Len(answers'), turn', spent'.errors) /\ ~IsEnd(a) /\ ~IsResultUpdate(a)
    <3>1. 1 \in 1 .. 3
      OBVIOUS
    <3>. QED  BY <1>1, <3>1, CallUpdates
  <2>3. GoodUpdate(b, Len(answers'), turn', spent'.errors) /\ ~IsEnd(b) /\ ~IsResultUpdate(b)
    BY <1>1, CompleteUpdates
  <2>4. GoodUpdate(c, Len(answers'), turn', spent'.errors) /\ ~IsEnd(c) /\ ~IsResultUpdate(c)
    BY <1>1, CallUpdates
  <2>5. GoodUpdate(d, Len(answers'), turn', spent'.errors) /\ ~IsEnd(d) /\ ~IsResultUpdate(d)
    <3>1. d.k = "ask" /\ d.v.ask = l /\ d.v.capability = capability /\ l \in 1 .. l
      BY <1>1, <1>4 DEF Update
    <3>. QED  BY <1>4, <1>5, <3>1 DEF GoodUpdate, IsEnd, IsResultUpdate
  <2>6. BatchFits(<<a, b>>, Len(answers'), turn', spent'.errors)
    <3>1. IsSeq(<<a, b>>) /\ Len(<<a, b>>) = 2 /\ <<a, b>>[1] = a /\ <<a, b>>[2] = b
      BY SeqShort
    <3>. QED  BY <2>2, <2>3, <3>1 DEF BatchFits
  <2>7. BatchFits(<<c>>, Len(answers'), turn', spent'.errors) /\ BatchFits(<<d>>, Len(answers'), turn', spent'.errors)
    BY <2>4, <2>5, FitsOne
  <2>8. BatchFits(fs, Len(answers'), turn', spent'.errors)
    <3>1. CASE fails
      <4>1. GoodUpdate(f, Len(answers'), turn', spent'.errors) /\ ~IsEnd(f) /\ ~IsResultUpdate(f)
        BY <1>1, <1>4, <3>1 DEF Update, GoodUpdate, IsFailure, IsEnd, IsResultUpdate
      <4>2. BatchFits(<<f>>, Len(answers'), turn', spent'.errors)
        BY <4>1, FitsOne
      <4>. QED  BY <1>1, <3>1, <4>2
    <3>2. CASE ~fails
      <4>1. IsSeq(fs) /\ Len(fs) = 0
        BY <1>1, <3>2, SeqShort
      <4>. QED  BY <4>1 DEF BatchFits
    <3>. QED  BY <3>1, <3>2
  <2>9. BatchFits(<<a, b>> \o fs, Len(answers'), turn', spent'.errors)
    BY <2>1, <2>6, <2>8, FitsBoth
  <2>10. BatchFits(<<a, b>> \o fs \o <<c>>, Len(answers'), turn', spent'.errors)
    BY <2>1, <2>7, <2>9, FitsBoth
  <2>. QED  BY <1>6, <2>1, <2>7, <2>10, FitsBoth
<1>8. turn.phase \in {"running", "asking", "tool"}
  BY <1>2
<1>9. turn'.phase # "tool" /\ turn'.ask # 0 /\ turn'.ask = Len(answers) + 1
      /\ answers'[turn'.ask] = "none"
  BY <1>4, <1>5 DEF l
<1>. QED  BY <1>2, <1>4, <1>5, <1>6, <1>7, <1>8, <1>9, TurnSends

\* The call's announcement, its result and the end of the result's block.
LEMMA FitsResult ==
    ASSUME NEW c, NEW err, NEW asked, NEW tn, NEW errors
    PROVE  BatchFits(SetToolCallStatus(c) \o PushToolResultBlock(c, err), asked, tn, errors)
<1>1. PICK x, y, z : /\ x = Update("block", 2, CallBlock(c))
                     /\ y = Update("block", 3, ResultBlock(c, err))
                     /\ z = Update("block_complete", 3, 0)
  OBVIOUS
<1>2. PICK us : us = <<x>> \o <<y, z>> /\ us = SetToolCallStatus(c) \o PushToolResultBlock(c, err)
  BY <1>1 DEF SetToolCallStatus, PushToolResultBlock
<1>3. IsSeq(us) /\ Len(us) = 3 /\ us[1] = x /\ us[2] = y /\ us[3] = z
  <2>1. PICK p, q : p = <<x>> /\ q = <<y, z>>
    OBVIOUS
  <2>2. /\ IsSeq(p) /\ Len(p) = 1 /\ IsSeq(q) /\ Len(q) = 2
        /\ p[1] = x /\ q[1] = y /\ q[2] = z
    BY <2>1, SeqShort
  <2>3. /\ IsSeq(us) /\ Len(us) = 3
        /\ \A i \in 1 .. 1 : us[i] = p[i]
        /\ \A i \in 1 .. 2 : us[1 + i] = q[i]
    BY <1>2, <2>1, <2>2, SeqConcat
  <2>4. us[1] = p[1] /\ us[1 + 1] = q[1] /\ us[1 + 2] = q[2]
    BY <2>3
  <2>. QED  BY <2>2, <2>3, <2>4
<1>4. GoodUpdate(x, asked, tn, errors) /\ ~IsEnd(x) /\ ~IsResultUpdate(x) /\ IsCallUpdate(x, c.id)
  BY <1>1, CallUpdates
<1>5. GoodUpdate(y, asked, tn, errors) /\ ~IsEnd(y) /\ y.v.id = c.id
  BY <1>1, ResultUpdates
<1>6. GoodUpdate(z, asked, tn, errors) /\ ~IsEnd(z) /\ ~IsResultUpdate(z)
  BY <1>1, CompleteUpdates
<1>7. ASSUME NEW i \in 1 .. Len(us)
      PROVE  /\ GoodUpdate(us[i], asked, tn, errors) /\ ~IsEnd(us[i])
             /\ IsResultUpdate(us[i]) => i # 1 /\ IsCallUpdate(us[i - 1], us[i].v.id)
  <2>1. i = 1 \/ i = 2 \/ i = 3
    BY <1>3
  <2>2. 2 - 1 = 1
    OBVIOUS
  <2>. QED  BY <1>3, <1>4, <1>5, <1>6, <2>1, <2>2
<1>8. BatchFits(us, asked, tn, errors)
  BY <1>3, <1>7 DEF BatchFits
<1>. QED  BY <1>2, <1>8

LEMMA DeniedStep ==
    ASSUME ApiInv, Denied
    PROVE  ApiInv'
<1>1. PICK us, phase :
        /\ us = SetToolCallStatus(TheCall(turn.capability, turn.ask))
                  \o PushToolResultBlock(TheCall(turn.capability, turn.ask), TRUE)
        /\ phase = "running" /\ turn' = [turn EXCEPT !.phase = phase]
        /\ Send(us) /\ TurnOnly /\ spent' = spent /\ turn.phase = "asking"
  BY DEF Denied
<1>2. BatchFits(us, Len(answers), turn', spent'.errors)
  BY <1>1, FitsResult
<1>3. /\ spent' \in [runs : Nat, content : Nat, requests : Nat, errors : Nat]
      /\ spent'.requests = spent.requests /\ spent.errors <= spent'.errors
  BY <1>1 DEF ApiInv, ApiTypes
<1>. QED  BY <1>1, <1>2, <1>3, TurnGoesOn

LEMMA ExecutesStep ==
    ASSUME ApiInv, Executes
    PROVE  ApiInv'
<1>1. PICK call, u, ws, us, phase :
        /\ call = TheCall(turn.capability, turn.ask)
        /\ u = Update("block", 2, CallBlock(call))
        /\ ws = (IF turn.capability = "run" THEN <<Update("session", 0, turn.ask)>> ELSE <<>>)
        /\ us = <<u>> \o ws
        /\ phase = "tool" /\ turn' = [turn EXCEPT !.phase = phase]
        /\ Send(us) /\ TurnOnly /\ spent' = spent
        /\ turn.phase = "asking" /\ answers[turn.ask] = "yes"
  BY DEF Executes, SetToolCallStatus
<1>2. /\ turn.ask \in 1 .. Len(answers) /\ HasApproval(shared.n.out, turn.capability)
      /\ turn'.phase = "tool"
  BY <1>1 DEF ApiInv, ApiTypes, ConsentInv
<1>3. BatchFits(us, Len(answers), turn', spent'.errors)
  <2>1. GoodUpdate(u, Len(answers), turn', spent'.errors) /\ ~IsEnd(u) /\ ~IsResultUpdate(u)
    BY <1>1, CallUpdates
  <2>2. BatchFits(<<u>>, Len(answers), turn', spent'.errors)
    BY <2>1, FitsOne
  <2>3. BatchFits(ws, Len(answers), turn', spent'.errors)
    <3>1. CASE turn.capability = "run"
      <4>1. PICK w : w = Update("session", 0, turn.ask) /\ ws = <<w>>
        BY <1>1, <3>1
      <4>2. GoodUpdate(w, Len(answers), turn', spent'.errors) /\ ~IsEnd(w) /\ ~IsResultUpdate(w)
        BY <1>2, <4>1 DEF GoodUpdate, IsEnd, IsResultUpdate, Update
      <4>3. BatchFits(<<w>>, Len(answers), turn', spent'.errors)
        BY <4>2, FitsOne
      <4>. QED  BY <4>1, <4>3
    <3>2. CASE turn.capability # "run"
      <4>1. IsSeq(ws) /\ Len(ws) = 0
        BY <1>1, <3>2, SeqShort
      <4>. QED  BY <4>1 DEF BatchFits
    <3>. QED  BY <3>1, <3>2
  <2>4. turn'.phase # "done"
    BY <1>2
  <2>5. BatchFits(<<u>> \o ws, Len(answers), turn', spent'.errors)
    BY <2>2, <2>3, <2>4, FitsBoth
  <2>. QED  BY <1>1, <2>5
<1>4. /\ spent' \in [runs : Nat, content : Nat, requests : Nat, errors : Nat]
      /\ spent'.requests = spent.requests /\ spent.errors <= spent'.errors
  BY <1>1 DEF ApiInv, ApiTypes
<1>5. turn.ask # 0
  BY <1>2
<1>. QED  BY <1>1, <1>2, <1>3, <1>4, <1>5, TurnGoesOn

LEMMA ToolReturnsStep ==
    ASSUME ApiInv, NEW err, ToolReturns(err)
    PROVE  ApiInv'
<1>1. PICK call, ws, rs, ps, us, phase :
        /\ call = TheCall(turn.capability, turn.ask)
        /\ ws = (IF turn.capability = "run" THEN <<Update("session_end", 0, turn.ask)>> ELSE <<>>)
        /\ rs = SetToolCallStatus(call) /\ ps = PushToolResultBlock(call, err)
        /\ us = ws \o rs \o ps
        /\ phase = "running" /\ turn' = [turn EXCEPT !.phase = phase]
        /\ Send(us) /\ TurnOnly /\ spent' = spent /\ turn.phase = "tool"
  BY DEF ToolReturns
<1>2. turn.ask \in 1 .. Len(answers) /\ turn'.phase = "running"
  BY <1>1 DEF ApiInv, ApiTypes
<1>3. BatchFits(us, Len(answers), turn', spent'.errors)
  <2>1. BatchFits(ws, Len(answers), turn', spent'.errors)
    <3>1. CASE turn.capability = "run"
      <4>1. PICK w : w = Update("session_end", 0, turn.ask) /\ ws = <<w>>
        BY <1>1, <3>1
      <4>2. GoodUpdate(w, Len(answers), turn', spent'.errors) /\ ~IsEnd(w) /\ ~IsResultUpdate(w)
        BY <1>2, <4>1 DEF GoodUpdate, IsEnd, IsResultUpdate, Update
      <4>3. BatchFits(<<w>>, Len(answers), turn', spent'.errors)
        BY <4>2, FitsOne
      <4>. QED  BY <4>1, <4>3
    <3>2. CASE turn.capability # "run"
      <4>1. IsSeq(ws) /\ Len(ws) = 0
        BY <1>1, <3>2, SeqShort
      <4>. QED  BY <4>1 DEF BatchFits
    <3>. QED  BY <3>1, <3>2
  <2>2. BatchFits(rs \o ps, Len(answers), turn', spent'.errors)
    BY <1>1, FitsResult
  <2>3. BatchFits(ws \o (rs \o ps), Len(answers), turn', spent'.errors)
    <3>1. turn'.phase # "done"
      BY <1>2
    <3>. QED  BY <2>1, <2>2, <3>1, FitsBoth
  <2>4. ws \o rs \o ps = ws \o (rs \o ps)
    <3>1. IsSeq(ws) /\ IsSeq(rs) /\ IsSeq(ps)
      BY <1>1, <2>1, SeqShort DEF BatchFits, SetToolCallStatus, PushToolResultBlock
    <3>. QED  BY <3>1, SeqAssociative
  <2>. QED  BY <1>1, <2>3, <2>4
<1>4. /\ spent' \in [runs : Nat, content : Nat, requests : Nat, errors : Nat]
      /\ spent'.requests = spent.requests /\ spent.errors <= spent'.errors
  BY <1>1 DEF ApiInv, ApiTypes
<1>. QED  BY <1>1, <1>3, <1>4, TurnGoesOn

LEMMA ApiStep ==
    ASSUME ApiInv, ApiNext
    PROVE  ApiInv'
<1>1. CASE Turns
  BY <1>1, TurnsStep
<1>2. CASE Interrupt \/ Built \/ PollNothing \/ Drained \/ Quit \/ ShutDown \/ Unregister
  BY <1>2, PlainSteps
<1>3. ASSUME NEW c \in Capabilities, NEW approved \in BOOLEAN, Approve(c, approved) PROVE ApiInv'
  BY <1>3, ApproveStep
<1>4. CASE BuildFails
  BY <1>4, BuildFailsStep
<1>5. CASE PollCommand
  BY <1>5, PollCommandStep
<1>6. CASE PollInput
  BY <1>6, PollInputStep
<1>7. CASE DrainUpdate
  BY <1>7, DrainStep
<1>8. CASE Cancelled
  <2>1. PICK u : u = Update("complete", 0, 0) /\ PulseComplete = <<u>>
    BY DEF PulseComplete
  <2>2. IsEnd(u)
    BY <2>1 DEF IsEnd, Update
  <2>. QED  BY <1>8, <2>1, <2>2, EndStep DEF Cancelled
<1>9. CASE Say(<<Update("line", 0, 0)>>)
  <2>1. PICK u : u = Update("line", 0, 0)
    OBVIOUS
  <2>2. u.k = "line" /\ Work(0) /\ Send(<<u>>) /\ turn' = turn /\ TurnOnly
    BY <1>9, <2>1 DEF Update, Say
  <2>. QED  BY <2>2, SayStep
<1>10. CASE Say(TextUpdate(<<"x">>))
  <2>1. PICK u : u = Update("delta", 0, <<"x">>) /\ TextUpdate(<<"x">>) = <<u>>
    BY DEF TextUpdate
  <2>2. u.k = "delta" /\ Work(0) /\ Send(<<u>>) /\ turn' = turn /\ TurnOnly
    BY <1>10, <2>1 DEF Update, Say
  <2>. QED  BY <2>2, SayStep
<1>a. CASE StreamFails
  <2>1. PICK u : u = Update("error", 0, 1) /\ StreamError = <<u>>
    BY DEF StreamError
  <2>2. IsFailure(u) /\ Work(1) /\ Send(<<u>>) /\ turn' = turn /\ TurnOnly
    BY <1>a, <2>1 DEF Update, StreamFails, IsFailure
  <2>. QED  BY <2>2, SayStep
<1>11. ASSUME NEW c \in Capabilities, NEW fails \in BOOLEAN, CallTool(c, fails) PROVE ApiInv'
  BY <1>11, CallToolStep
<1>12. CASE Denied
  BY <1>12, DeniedStep
<1>13. CASE Executes
  BY <1>13, ExecutesStep
<1>14. ASSUME NEW err \in BOOLEAN, ToolReturns(err) PROVE ApiInv'
  BY <1>14, ToolReturnsStep
<1>15. CASE Finish(PulseComplete)
  <2>1. PICK u : u = Update("complete", 0, 0) /\ PulseComplete = <<u>>
    BY DEF PulseComplete
  <2>2. IsEnd(u)
    BY <2>1 DEF IsEnd, Update
  <2>. QED  BY <1>15, <2>1, <2>2, EndStep DEF Finish
<1>16. CASE Finish(PulseError)
  <2>1. PICK u : u = Update("error", 0, 0) /\ PulseError = <<u>>
    BY DEF PulseError
  <2>2. IsEnd(u)
    BY <2>1 DEF IsEnd, Update
  <2>. QED  BY <1>16, <2>1, <2>2, EndStep DEF Finish
<1>17. \/ Turns \/ Interrupt \/ BuildFails \/ Cancelled \/ Denied \/ Executes
       \/ \E c \in Capabilities, approved \in BOOLEAN : Approve(c, approved)
       \/ Built \/ PollCommand \/ PollInput \/ PollNothing \/ DrainUpdate \/ Drained
       \/ Quit \/ ShutDown \/ Unregister
       \/ Say(<<Update("line", 0, 0)>>) \/ Say(TextUpdate(<<"x">>))
       \/ StreamFails \/ \E c \in Capabilities, fails \in BOOLEAN : CallTool(c, fails)
       \/ \E err \in BOOLEAN : ToolReturns(err)
       \/ Finish(PulseComplete) \/ Finish(PulseError)
  BY DEF ApiNext, Worker, TurnStep
<1>. QED
  BY <1>1, <1>2, <1>3, <1>4, <1>5, <1>6, <1>7, <1>8, <1>9, <1>10, <1>a, <1>11, <1>12, <1>13, <1>14,
     <1>15, <1>16, <1>17

LEMMA ApiSame ==
    ASSUME ApiInv, UNCHANGED apiVars
    PROVE  ApiInv'
<1>1. /\ registered' = registered /\ worker' = worker /\ initial' = initial /\ inbox' = inbox
      /\ shared' = shared /\ updates' = updates /\ turn' = turn /\ cancelled' = cancelled
      /\ answers' = answers /\ spent' = spent
  BY DEF apiVars
<1>. QED
  BY <1>1 DEF ApiInv, ApiTypes, SharedTypes, QueueInv, PhaseInv, EndInv, AllSaid, AskInv,
          ConsentInv

-----------------------------------------------------------------------------
(* What the invariant says to the clients. *)

LEMMA StreamEnds ==
    ASSUME ApiInv
    PROVE  Len(shared.n.out) \in Nat /\ DOMAIN shared.n.out = 1 .. Len(shared.n.out)
  BY SeqLen DEF ApiInv, NormInv, IsNormalizer

LEMMA ApiGivesOneEnd == ApiInv => OneEnd
<1>. SUFFICES ASSUME ApiInv PROVE OneEnd
  OBVIOUS
<1>1. PICK out : out = shared.n.out
  OBVIOUS
<1>2. Len(out) \in Nat /\ DOMAIN out = 1 .. Len(out)
  BY <1>1, StreamEnds
<1>3. worker \in {"shutdown", "remove"} => Ends(out) # {}
  <2>1. worker \in {"shutdown", "remove"} => HasEnd(out)
    BY <1>1 DEF ApiInv, PhaseInv, EndInv
  <2>. QED  BY <1>2, <2>1 DEF Ends, HasEnd
<1>4. ASSUME NEW i \in Ends(out), NEW j \in DOMAIN out, j > i, out[j].t # "approval_resolved"
      PROVE  spent.errors > 0 /\ out[i].v.status = "failed"
  <2>1. i \in 1 .. Len(out) /\ out[i].t = "pulse_end" /\ j \in (i + 1) .. Len(out)
    BY <1>2, <1>4 DEF Ends
  <2>2. LastWord(out, spent.errors)
    BY <1>1 DEF ApiInv, EndInv
  <2>. QED  BY <1>4, <2>1, <2>2 DEF LastWord
<1>. QED  BY <1>1, <1>3, <1>4 DEF OneEnd

LEMMA ApiGivesTextClosed == ApiInv => TextClosedAtEnd
<1>. SUFFICES ASSUME ApiInv PROVE TextClosedAtEnd
  OBVIOUS
<1>1. PICK out : out = shared.n.out
  OBVIOUS
<1>2. Len(out) \in Nat /\ DOMAIN out = 1 .. Len(out) /\ ClosedBefore(out)
  BY <1>1, StreamEnds DEF ApiInv, EndInv
<1>3. ASSUME NEW e \in Ends(out), NEW i \in DOMAIN out, i < e,
             out[i].t = "block_start", out[i].i >= SyntheticStart
      PROVE  \E j \in (i + 1) .. (e - 1) : out[j].t = "block_complete" /\ out[j].i = out[i].i
  <2>1. e \in 1 .. Len(out) /\ out[e].t = "pulse_end" /\ i \in 1 .. (e - 1)
    BY <1>2, <1>3 DEF Ends
  <2>2. ClosedAt(out, e)
    BY <1>2, <2>1 DEF ClosedBefore
  <2>. QED  BY <1>3, <2>1, <2>2 DEF ClosedAt
<1>. QED  BY <1>1, <1>3 DEF TextClosedAtEnd

LEMMA ApiGivesAnsweredOnce == ApiInv => AnsweredOnce
<1>. SUFFICES ASSUME ApiInv PROVE AnsweredOnce
  OBVIOUS
<1>1. ASSUME NEW i \in DOMAIN shared.n.out
      PROVE  CountOf(shared.n.out, "approval_resolved", i)
                <= CountOf(shared.n.out, "approval_request", i)
  <2>1. i \in 0 .. Len(shared.n.out)
    BY StreamEnds
  <2>. QED  BY <2>1 DEF ApiInv, AskInv, Balanced
<1>. QED  BY <1>1 DEF AnsweredOnce, CountOf

LEMMA ApiGivesApproval == ApiInv => CommandApproved
<1>. SUFFICES ASSUME ApiInv, turn.phase = "tool", turn.capability = "run" PROVE CommandApproved
  BY DEF CommandApproved
<1>1. HasApproval(shared.n.out, turn.capability)
  BY DEF ApiInv, ConsentInv
<1>2. DOMAIN shared.n.out = 1 .. Len(shared.n.out)
  BY StreamEnds
<1>. QED  BY <1>1, <1>2 DEF CommandApproved, HasApproval

LEMMA ApiGivesCalls == ApiInv => ResultsNameTheirCall
<1>. SUFFICES ASSUME ApiInv PROVE ResultsNameTheirCall
  OBVIOUS
<1>1. PICK out : out = shared.n.out
  OBVIOUS
<1>2. ASSUME NEW i \in DOMAIN out, IsResultOf(out[i])
      PROVE  /\ LastStartBefore(out, i, out[i].i)
             /\ \A j \in 1 .. (i - 1) : IsResultOf(out[j]) => out[j].i # out[i].i
  <2>1. i \in 1 .. Len(out)
    BY <1>1, StreamEnds
  <2>2. CallAt(out, shared.n.ids, i)
    BY <1>1, <2>1 DEF ApiInv, NormInv
  <2>. QED  BY <1>2, <2>2 DEF CallAt
<1>. QED  BY <1>1, <1>2 DEF ResultsNameTheirCall, IsResultOf, IsStartOf, LastStartBefore

LEMMA ApiInvImplies ==
    ApiInv => /\ ApiTypeOK /\ OneEnd /\ TextClosedAtEnd /\ AnsweredOnce /\ CommandApproved
              /\ ResultsNameTheirCall
<1>1. ASSUME ApiInv PROVE ApiTypeOK
  <2>1. /\ Len(answers) \in Nat /\ turn.ask \in 0 .. Len(answers) /\ inbox \in 0 .. MaxRequests
        /\ \A i \in DOMAIN answers : answers[i] \in {"none", "yes", "no"}
    BY <1>1, ApiAssumption DEF ApiInv, ApiTypes
  <2>2. /\ registered \in BOOLEAN /\ initial \in BOOLEAN /\ cancelled \in BOOLEAN
        /\ worker \in {"none", "building", "poll", "drain", "shutdown", "remove"}
        /\ registered = (worker # "none")
        /\ turn.phase \in {"none", "running", "asking", "tool", "done"}
        /\ turn.capability \in Capabilities \cup {"none"}
    BY <1>1 DEF ApiInv, ApiTypes
  <2>3. shared.sessions \subseteq 1 .. Len(answers) /\ shared.pending.ask \in 0 .. Len(answers)
    BY <1>1 DEF ApiInv, SharedTypes
  <2>. QED  BY <2>1, <2>2, <2>3 DEF ApiTypeOK
<1>. QED
  BY <1>1, ApiGivesOneEnd, ApiGivesTextClosed, ApiGivesAnsweredOnce, ApiGivesApproval,
     ApiGivesCalls

\* Whatever the capabilities, the watched tasks and the bounds are: the stream of a steered
\* task has its pulse_end, after every open text block was completed and with only answers
\* to approvals behind it unless it told of an error inside the stream, no approval is
\* answered twice, a command runs only after its own capability was approved and a result
\* names the call announced last (complete_turn_if_idle, approve_handler, record_tool_call);
\* and a watcher is told nothing after a terminal state nor anything newer than the record,
\* and has missed no rollup when it has read all without lagging (watch_session_task_handler).
THEOREM ServedTasksAreSound == Spec => []ServedTasksSound
<1>1. Init => ApiInv /\ WatchInv
  BY ApiInitially, WatchInitially DEF Init
<1>2. ApiInv /\ [Next]_vars => ApiInv'
  <2>1. ASSUME ApiInv, Api PROVE ApiInv'
    BY <2>1, ApiStep DEF Api
  <2>2. ASSUME Surfaces \/ Watch \/ Accumulator \/ Batch \/ UNCHANGED vars PROVE UNCHANGED apiVars
    BY <2>2 DEF Surfaces, Watch, Accumulator, Batch, vars
  <2>. QED  BY <2>1, <2>2, ApiSame DEF Next
<1>3. WatchInv /\ [Next]_vars => WatchInv'
  <2>1. ASSUME WatchInv, Watch PROVE WatchInv'
    BY <2>1, WatchStep DEF Watch
  <2>2. ASSUME Surfaces \/ Api \/ Accumulator \/ Batch \/ UNCHANGED vars PROVE UNCHANGED watchVars
    BY <2>2 DEF Surfaces, Api, Accumulator, Batch, vars
  <2>. QED  BY <2>1, <2>2, WatchSame DEF Next
<1>4. ApiInv /\ WatchInv => ServedTasksSound
  BY ApiInvImplies, WatchInvImplies DEF ServedTasksSound
<1>. QED  BY <1>1, <1>2, <1>3, <1>4, PTL DEF Spec
=============================================================================
