--------------------------- MODULE SyncSessionProofs ---------------------------
(***************************************************************************)
(* Proofs about SyncSession: nothing that somebody waits for is left       *)
(* behind, a handler is called at most once and is lost in two named cases *)
(* only, a session that ends because its uploads are complete has uploaded *)
(* everything, and what a wait tells the handlers it was begun for is      *)
(* true.  That what is waited for comes about (WaitsEnd) is checked by TLC *)
(* only.                                                                   *)
(***************************************************************************)
EXTENDS SyncSession, TLAPS

-------------------------------------------------------------------------------
\* The inductive invariant.

\* What the client may have to call back about.
Wait == [id : Nat, kind : {"completion", "death"}, sync : Nat \ {0},
         tag : Nat, upTo : Nat, ws : SUBSET Waiters, due : Nat]

ClientType ==
  [made : 0 .. MaxSessions, begun : 0 .. MaxWaits, waits : SUBSET Wait,
   ending : SUBSET (1 .. MaxSessions), running : BOOLEAN]

LoopType ==
  [at : {"idle", "act", "restore"}, kind : ErrorKinds \cup {"none"},
   old : BOOLEAN, aside : SUBSET Waiters]

\* The shapes of the client and of the event loop thread, and what bounds the
\* count of deaths: each begins a wait.
ShapesOK ==
  /\ client \in ClientType /\ loop \in LoopType
  /\ self.deathCount <= client.begun

\* A session that is up has its sync::Session and no commit put off, an
\* inactive one has none; a dying one has no external reference, nor will a
\* session have one when it is closed late.
StatesAreSound ==
  /\ Up => self.sync # 0 /\ self.deferredCommit = 0
  /\ self.state = "inactive" => self.sync = 0
  /\ self.state = "dying" => ~open
  /\ self.state = "waiting" /\ self.deferredClose => ~open

\* Versions are uploaded after they are announced and announced after they are
\* committed; what the client was told of is all there is while the session is
\* up, and all but the commit put off while it waits for a new token.
VersionsAreSound ==
  /\ uploaded <= announced /\ announced <= committed
  /\ Up => announced = committed
  /\ self.state = "waiting" /\ self.sync # 0 =>
       committed = (IF self.deferredCommit = 0 THEN announced ELSE self.deferredCommit)

\* No wait is ahead of the counter it was numbered with; the wait of the death
\* that a session is dying is about its sync::Session and all commits.
WaitsAreSound ==
  \A op \in client.waits :
    /\ op.kind = "completion" => op.tag <= self.resyncCounter
    /\ op.kind = "death" => op.tag <= self.deathCount
    /\ Dies(op) => op.sync = self.sync /\ op.upTo = committed

\* Handlers are set aside only by a client resync that is under way; no handler
\* is both set aside and waiting, and none of them was told anything.
HandlersAreSound ==
  /\ loop.at # "restore" => loop.aside = {}
  /\ self.handlers \cap loop.aside = {}
  /\ \A w \in self.handlers \cup loop.aside : told[w] = "nothing"

\* A wait is about no less than was committed when it began.  One begun for
\* handlers that are there still is a wait on the sync::Session of now, or one that
\* a client resync has silenced; those set aside have silenced ones only.
WaitersAreSound ==
  \A op \in client.waits :
    /\ op.due <= op.upTo
    /\ op.kind = "death" => op.ws = {}
    /\ op.ws \cap loop.aside # {} => op.tag < self.resyncCounter
    /\ op.ws \cap self.handlers # {} =>
         op.sync = self.sync \/ op.tag < self.resyncCounter

SessionInv ==
  /\ NothingIsLeftBehind
  /\ ShapesOK /\ StatesAreSound /\ VersionsAreSound
  /\ WaitsAreSound /\ HandlersAreSound /\ WaitersAreSound

-------------------------------------------------------------------------------
\* What the invariant says of each variable, and operators field by field.

SessionType ==
  [state : States, sync : 0 .. MaxSessions, deferredClose : BOOLEAN,
   deferredCommit : 0 .. MaxCommits, deathCount : 0 .. MaxWaits,
   resyncCounter : Nat, handlers : SUBSET Waiters, registered : BOOLEAN,
   stopPolicy : StopPolicies \cup {"Immediately"}]

Kinds == {"completion", "death"}

ToldType == [Waiters -> {"nothing", "ok", "aborted", "twice"}]

Typed ==
  /\ self \in SessionType /\ client \in ClientType /\ loop \in LoopType
  /\ open \in BOOLEAN /\ aborted \in BOOLEAN /\ requests \in 0 .. MaxRequests
  /\ committed \in 0 .. MaxCommits /\ announced \in 0 .. MaxCommits
  /\ uploaded \in 0 .. MaxCommits /\ told \in ToldType /\ overtaken \subseteq Waiters

\* The constants that bound counters are numbers.
LEMMA Numbers ==
  MaxSessions \in Nat /\ MaxWaits \in Nat /\ MaxCommits \in Nat /\ MaxRequests \in Nat
BY SessionAssumption DEF SessionAssumption

\* The invariant types the variables.
LEMMA InvTyped == ASSUME SessionInv PROVE Typed
BY DEF SessionInv, NothingIsLeftBehind, TypeOK, ShapesOK, Typed, SessionType,
       ToldType, Fresh

\* Variables of these types and shapes are of the right type for the model.
LEMMA TypedOK ==
  ASSUME Typed PROVE TypeOK
<1>1. \A op \in client.waits : op.kind \in {"completion", "death"} /\ op.sync > 0
  <2>1. client.waits \subseteq Wait
    BY DEF Typed, ClientType
  <2>2. \A op \in Wait : op.kind \in {"completion", "death"} /\ op.sync > 0
    BY DEF Wait
  <2> QED
    BY <2>1, <2>2
<1>2. client.made \in 0 .. MaxSessions /\ client.begun \in 0 .. MaxWaits
      /\ client.ending \subseteq 1 .. MaxSessions /\ client.running \in BOOLEAN
  BY DEF Typed, ClientType
<1>3. loop.at \in {"idle", "act", "restore"} /\ loop.aside \subseteq Waiters
  BY DEF Typed, LoopType
<1>4. told \in [Waiters -> {"nothing", "ok", "aborted", "twice"}]
      /\ overtaken \subseteq Waiters
  BY DEF Typed, ToldType
<1>5. {committed, announced, uploaded} \subseteq 0 .. MaxCommits
  BY DEF Typed
<1>6. Fresh.stopPolicy = "Immediately"
  BY DEF Fresh
<1>7. self \in [state : States, sync : 0 .. MaxSessions, deferredClose : BOOLEAN,
               deferredCommit : 0 .. MaxCommits, deathCount : 0 .. MaxWaits,
               resyncCounter : Nat, handlers : SUBSET Waiters,
               registered : BOOLEAN,
               stopPolicy : StopPolicies \cup {Fresh.stopPolicy}]
  BY <1>6 DEF Typed, SessionType
<1>8. open \in BOOLEAN /\ aborted \in BOOLEAN /\ requests \in 0 .. MaxRequests
  BY DEF Typed
<1> QED
  BY <1>1, <1>2, <1>3, <1>4, <1>5, <1>7, <1>8 DEF TypeOK

\* The types of the fields.
LEMMA Fields ==
  ASSUME Typed
  PROVE  /\ self.state \in States /\ self.sync \in 0 .. MaxSessions
         /\ self.deferredCommit \in 0 .. MaxCommits /\ self.deathCount \in 0 .. MaxWaits
         /\ self.resyncCounter \in Nat /\ self.handlers \subseteq Waiters
         /\ self.registered \in BOOLEAN /\ self.deferredClose \in BOOLEAN
         /\ client.made \in 0 .. MaxSessions /\ client.begun \in 0 .. MaxWaits
         /\ client.waits \subseteq Wait /\ client.ending \subseteq 1 .. MaxSessions
         /\ client.running \in BOOLEAN
         /\ loop.at \in {"idle", "act", "restore"} /\ loop.aside \subseteq Waiters
         /\ loop.old \in BOOLEAN /\ loop.kind \in ErrorKinds \cup {"none"}
<1>1. /\ self.state \in States /\ self.sync \in 0 .. MaxSessions
      /\ self.deferredCommit \in 0 .. MaxCommits /\ self.deathCount \in 0 .. MaxWaits
      /\ self.resyncCounter \in Nat /\ self.handlers \subseteq Waiters
      /\ self.registered \in BOOLEAN /\ self.deferredClose \in BOOLEAN
  BY DEF Typed, SessionType
<1>2. /\ client.made \in 0 .. MaxSessions /\ client.begun \in 0 .. MaxWaits
      /\ client.waits \subseteq Wait /\ client.ending \subseteq 1 .. MaxSessions
      /\ client.running \in BOOLEAN
  BY DEF Typed, ClientType
<1>3. /\ loop.at \in {"idle", "act", "restore"} /\ loop.aside \subseteq Waiters
      /\ loop.old \in BOOLEAN /\ loop.kind \in ErrorKinds \cup {"none"}
  BY DEF Typed, LoopType
<1> QED
  BY <1>1, <1>2, <1>3

\* The fields of a wait.
LEMMA WaitFields ==
  ASSUME NEW op \in Wait
  PROVE  /\ op.kind \in Kinds /\ op.sync \in Nat \ {0} /\ op.tag \in Nat
         /\ op.upTo \in Nat /\ op.ws \subseteq Waiters /\ op.due \in Nat
BY DEF Wait, Kinds

\* Waiting adds one wait and counts it.
LEMMA WaitingAdds ==
  ASSUME NEW c \in ClientType, NEW kind \in Kinds, NEW s \in Nat \ {0},
         NEW tag \in Nat, NEW upTo \in Nat, NEW ws \in SUBSET Waiters,
         committed \in Nat, Waiting(c, kind, s, tag, upTo, ws).begun <= MaxWaits
  PROVE  /\ Waiting(c, kind, s, tag, upTo, ws) \in ClientType
         /\ Waiting(c, kind, s, tag, upTo, ws).begun = c.begun + 1
         /\ Waiting(c, kind, s, tag, upTo, ws).made = c.made
         /\ Waiting(c, kind, s, tag, upTo, ws).ending = c.ending
         /\ Waiting(c, kind, s, tag, upTo, ws).running = c.running
         /\ \E op \in Wait :
              /\ op.kind = kind /\ op.sync = s /\ op.tag = tag /\ op.upTo = upTo
              /\ op.ws = ws /\ op.due = committed
              /\ Waiting(c, kind, s, tag, upTo, ws).waits = c.waits \cup {op}
<1> DEFINE op == [id |-> c.begun + 1, kind |-> kind, sync |-> s, tag |-> tag,
                  upTo |-> upTo, ws |-> ws, due |-> committed]
           n == Waiting(c, kind, s, tag, upTo, ws)
<1>1. c.begun \in 0 .. MaxWaits /\ c.waits \subseteq Wait
  BY DEF ClientType
<1>2. op \in Wait
  BY <1>1, Numbers DEF Wait, Kinds
<1>3. n = [c EXCEPT !.begun = c.begun + 1, !.waits = c.waits \cup {op}]
  BY DEF Waiting
<1>4. n.begun = c.begun + 1 /\ n.waits = c.waits \cup {op}
      /\ n.made = c.made /\ n.ending = c.ending /\ n.running = c.running
  BY <1>3 DEF ClientType
<1>5. c.begun + 1 \in 0 .. MaxWaits /\ c.waits \cup {op} \in SUBSET Wait
  BY <1>1, <1>2, <1>4, Numbers
<1>6. n \in ClientType
  BY <1>3, <1>5 DEF ClientType
<1>7. op.kind = kind /\ op.sync = s /\ op.tag = tag /\ op.upTo = upTo
      /\ op.ws = ws /\ op.due = committed
  OBVIOUS
<1> HIDE DEF op
<1> QED
  BY <1>2, <1>4, <1>6, <1>7

\* What Active::enter_state registers: at most one wait, for the handlers, with
\* the sync::Session of now.
LEMMA WatchingAdds ==
  ASSUME NEW c \in ClientType, NEW o \in SessionType, o.sync # 0, NEW upTo \in Nat,
         committed \in Nat, Watching(c, o, upTo).begun <= MaxWaits
  PROVE  /\ Watching(c, o, upTo) \in ClientType
         /\ Watching(c, o, upTo).begun >= c.begun
         /\ c.waits \subseteq Watching(c, o, upTo).waits
         /\ \A op \in Watching(c, o, upTo).waits \ c.waits :
              /\ op.kind = "completion" /\ op.tag = o.resyncCounter /\ op.sync = o.sync
              /\ op.ws = o.handlers /\ op.due = committed /\ op.upTo = upTo
         /\ o.handlers # {} =>
              \E op \in Watching(c, o, upTo).waits :
                op.kind = "completion" /\ op.sync = o.sync /\ op.tag = o.resyncCounter
<1>1. c.begun \in Int
  BY DEF ClientType
<1>2. o.sync \in Nat \ {0} /\ o.resyncCounter \in Nat /\ o.handlers \in SUBSET Waiters
  BY Numbers DEF SessionType
<1>3. CASE o.handlers = {}
  <2>1. Watching(c, o, upTo) = c
    BY <1>3 DEF Watching
  <2> QED
    BY <2>1, <1>1, <1>3
<1>4. CASE o.handlers # {}
  <2> DEFINE n == Waiting(c, "completion", o.sync, o.resyncCounter, upTo, o.handlers)
  <2>1. Watching(c, o, upTo) = n
    BY <1>4 DEF Watching
  <2>3. Waiting(c, "completion", o.sync, o.resyncCounter, upTo, o.handlers).begun <= MaxWaits
    BY <2>1
  <2>4. "completion" \in Kinds
    BY DEF Kinds
  <2>2. n \in ClientType /\ n.begun = c.begun + 1
        /\ \E op \in Wait :
             /\ op.kind = "completion" /\ op.sync = o.sync
             /\ op.tag = o.resyncCounter /\ op.upTo = upTo
             /\ op.ws = o.handlers /\ op.due = committed
             /\ n.waits = c.waits \cup {op}
    BY <1>2, <2>3, <2>4, WaitingAdds
  <2> HIDE DEF n
  <2> QED
    BY <2>1, <2>2, <1>1
<1> QED
  BY <1>3, <1>4

\* What Dying::enter_state registers: a wait for all that was announced.
LEMMA DeathAdds ==
  ASSUME NEW c \in ClientType, NEW o \in SessionType, o.sync # 0, NEW upTo \in Nat,
         committed \in Nat, Death(c, o, upTo).begun <= MaxWaits
  PROVE  /\ Death(c, o, upTo) \in ClientType
         /\ Death(c, o, upTo).begun = c.begun + 1
         /\ c.waits \subseteq Death(c, o, upTo).waits
         /\ \A op \in Death(c, o, upTo).waits \ c.waits :
              /\ op.kind = "death" /\ op.sync = o.sync
              /\ op.tag = o.deathCount + 1 /\ op.upTo = upTo
              /\ op.ws = {} /\ op.due = committed
<1>1. o.sync \in Nat \ {0} /\ o.deathCount + 1 \in Nat /\ {} \in SUBSET Waiters
  BY Numbers DEF SessionType
<1> DEFINE n == Waiting(c, "death", o.sync, o.deathCount + 1, upTo, {})
<1>2. Death(c, o, upTo) = n
  BY DEF Death
<1>4. Waiting(c, "death", o.sync, o.deathCount + 1, upTo, {}).begun <= MaxWaits
  BY <1>2
<1>5. "death" \in Kinds
  BY DEF Kinds
<1>3. n \in ClientType /\ n.begun = c.begun + 1
      /\ \E op \in Wait :
           /\ op.kind = "death" /\ op.sync = o.sync
           /\ op.tag = o.deathCount + 1 /\ op.upTo = upTo
           /\ op.ws = {} /\ op.due = committed
           /\ n.waits = c.waits \cup {op}
  BY <1>1, <1>4, <1>5, WaitingAdds
<1> HIDE DEF n
<1> QED
  BY <1>2, <1>3

-------------------------------------------------------------------------------
\* What more than one action does.

\* What numbers a wait.
LEMMA CountersTyped ==
  Typed => /\ self.resyncCounter \in Int /\ self.deathCount \in Int
           /\ client.waits \subseteq Wait
BY Fields, Numbers

\* Waits that were sound stay so when counters grow and no death that is under
\* way changes; waits that are added are sound by their own numbers.
LEMMA WaitsKept ==
  ASSUME SessionInv, Typed',
         self'.resyncCounter >= self.resyncCounter,
         self'.deathCount >= self.deathCount,
         self'.state = "dying" =>
           \/ /\ self.state = "dying" /\ self'.sync = self.sync
              /\ committed' = committed /\ self'.deathCount = self.deathCount
           \/ self'.deathCount = self.deathCount + 1,
         \A op \in client'.waits \ client.waits :
           \/ op.kind = "completion" /\ op.tag <= self'.resyncCounter
           \/ /\ op.kind = "death" /\ op.tag <= self'.deathCount
              /\ op.sync = self'.sync /\ op.upTo = committed'
  PROVE  WaitsAreSound'
<1>1. Typed
  BY InvTyped
<1>2. /\ self.resyncCounter \in Int /\ self.deathCount \in Int
      /\ client.waits \subseteq Wait
  BY <1>1, CountersTyped
<1>3. /\ self'.resyncCounter \in Int /\ self'.deathCount \in Int
      /\ client'.waits \subseteq Wait
  <2>1. (Typed => /\ self.resyncCounter \in Int /\ self.deathCount \in Int
                  /\ client.waits \subseteq Wait)'
    BY CountersTyped, PTL
  <2> QED
    BY <2>1
<1>4. WaitsAreSound
  BY DEF SessionInv
<1> SUFFICES ASSUME NEW op \in client'.waits
             PROVE  /\ op.kind = "completion" => op.tag <= self'.resyncCounter
                    /\ op.kind = "death" => op.tag <= self'.deathCount
                    /\ op.kind = "death" /\ self'.state = "dying" /\ op.tag = self'.deathCount
                         => op.sync = self'.sync /\ op.upTo = committed'
  BY DEF WaitsAreSound, Dies
<1>5. op.tag \in Int /\ op.kind \in Kinds
  BY <1>3, WaitFields
<1>6. CASE op \in client.waits
  <2>1. /\ op.kind = "completion" => op.tag <= self.resyncCounter
        /\ op.kind = "death" => op.tag <= self.deathCount
        /\ op.kind = "death" /\ self.state = "dying" /\ op.tag = self.deathCount
             => op.sync = self.sync /\ op.upTo = committed
    BY <1>4, <1>6 DEF WaitsAreSound, Dies
  <2> QED
    BY <2>1, <1>2, <1>3, <1>5
<1>7. CASE op \notin client.waits
  BY <1>7
<1> QED
  BY <1>6, <1>7

\* Waits stay sound for the handlers they were begun for when those stay, leave
\* or come back from aside, and only a client resync moves them aside.
LEMMA WaitersKept ==
  ASSUME SessionInv, Typed', HandlersAreSound',
         self'.resyncCounter >= self.resyncCounter,
         loop'.aside \subseteq loop.aside \/ self'.resyncCounter > self.resyncCounter,
         \A op \in client.waits :
           op.ws \cap self'.handlers \subseteq self.handlers \cup loop.aside,
         self'.handlers = {} \/ self'.sync = self.sync \/ self.sync = 0,
         \A op \in client'.waits \ client.waits :
           /\ op.sync = self'.sync /\ op.due <= op.upTo
           /\ op.ws = self'.handlers \/ op.ws = {}
           /\ op.kind = "death" => op.ws = {}
  PROVE  WaitersAreSound'
<1>1. Typed /\ WaitsAreSound /\ WaitersAreSound
  BY InvTyped DEF SessionInv
<1>2. self.resyncCounter \in Int /\ client.waits \subseteq Wait
  BY <1>1, CountersTyped
<1>3. self'.resyncCounter \in Int /\ client'.waits \subseteq Wait
  <2>1. (Typed => /\ self.resyncCounter \in Int /\ self.deathCount \in Int
                  /\ client.waits \subseteq Wait)'
    BY CountersTyped, PTL
  <2> QED
    BY <2>1
<1> SUFFICES ASSUME NEW op \in client'.waits
             PROVE  /\ op.due <= op.upTo
                    /\ op.kind = "death" => op.ws = {}
                    /\ op.ws \cap loop'.aside # {} => op.tag < self'.resyncCounter
                    /\ op.ws \cap self'.handlers # {} =>
                         op.sync = self'.sync \/ op.tag < self'.resyncCounter
  BY DEF WaitersAreSound
<1>4. op.tag \in Int /\ op.kind \in Kinds /\ op.sync # 0
  BY <1>3, WaitFields
<1>5. CASE op \in client.waits
  <2>1. /\ op.due <= op.upTo
        /\ op.kind = "death" => op.ws = {}
        /\ op.ws \cap loop.aside # {} => op.tag < self.resyncCounter
        /\ op.ws \cap self.handlers # {} =>
             op.sync = self.sync \/ op.tag < self.resyncCounter
        /\ op.kind = "completion" => op.tag <= self.resyncCounter
    BY <1>1, <1>5 DEF WaitersAreSound, WaitsAreSound
  <2>2. op.ws \cap loop'.aside # {} => op.tag < self'.resyncCounter
    <3>1. CASE loop'.aside \subseteq loop.aside
      <4>1. op.ws \cap loop'.aside # {} => op.tag < self.resyncCounter
        BY <2>1, <3>1
      <4> QED
        BY <4>1, <1>2, <1>3, <1>4
    <3>2. CASE self'.resyncCounter > self.resyncCounter
      BY <2>1, <3>2, <1>2, <1>3, <1>4 DEF Kinds
    <3> QED
      BY <3>1, <3>2
  <2>3. op.ws \cap self'.handlers # {} =>
          op.sync = self'.sync \/ op.tag < self'.resyncCounter
    <3> SUFFICES ASSUME op.ws \cap self'.handlers # {}
                 PROVE  op.sync = self'.sync \/ op.tag < self'.resyncCounter
      OBVIOUS
    <3>1. op.ws \cap self.handlers # {} \/ op.ws \cap loop.aside # {}
      BY <1>5
    <3>2. op.sync = self.sync \/ op.tag < self.resyncCounter
      BY <3>1, <2>1
    <3>3. self'.sync = self.sync \/ self.sync = 0
      OBVIOUS
    <3> QED
      BY <3>2, <3>3, <1>2, <1>3, <1>4
  <2> QED
    BY <2>1, <2>2, <2>3
<1>6. CASE op \notin client.waits
  <2>1. /\ op.sync = self'.sync /\ op.due <= op.upTo
        /\ op.ws = self'.handlers \/ op.ws = {}
        /\ op.kind = "death" => op.ws = {}
    BY <1>6
  <2>2. op.ws \cap loop'.aside = {}
    BY <2>1 DEF HandlersAreSound
  <2> QED
    BY <2>1, <2>2
<1> QED
  BY <1>5, <1>6

\* A session that becomes inactive: its handlers are told, or set aside by a
\* client resync.
LEMMA InactiveKeeps ==
  ASSUME SessionInv, NEW c \in ClientType, NEW o, NEW hold,
         c.waits \subseteq client.waits, c.begun = client.begun,
         EnterInactive(c, o, hold), open' \in BOOLEAN, loop' \in LoopType,
         UNCHANGED versions, overtaken' = overtaken,
         \/ /\ o = self /\ hold = {} /\ loop'.aside = loop.aside
            /\ loop'.at = "restore" <=> loop.at = "restore"
         \/ /\ o = [self EXCEPT !.resyncCounter = @ + 1] /\ hold = self.handlers
            /\ loop'.at = "restore" /\ loop'.aside = self.handlers
  PROVE  SessionInv'
<1>1. Typed
  BY InvTyped
<1>2. o \in SessionType
      /\ o.handlers = self.handlers /\ o.sync = self.sync /\ o.deathCount = self.deathCount
      /\ o.resyncCounter \in {self.resyncCounter, self.resyncCounter + 1}
  BY <1>1 DEF Typed, SessionType
<1>3. self' = [o EXCEPT !.state = "inactive", !.sync = 0, !.handlers = {},
                        !.registered = open']
  BY DEF EnterInactive
<1>4. /\ self'.state = "inactive" /\ self'.sync = 0 /\ self'.handlers = {}
      /\ self'.deathCount = self.deathCount /\ self'.resyncCounter = o.resyncCounter
  BY <1>2, <1>3 DEF SessionType
<1>5. self' \in SessionType
  <2>1. "inactive" \in States /\ 0 \in 0 .. MaxSessions /\ {} \in SUBSET Waiters
        /\ open' \in BOOLEAN
    BY Numbers DEF States
  <2> QED
    BY <1>2, <1>3, <2>1 DEF SessionType
<1>6. c.ending \cup (IF o.sync = 0 THEN {} ELSE {o.sync}) \subseteq 1 .. MaxSessions
  <2>1. c.ending \subseteq 1 .. MaxSessions
    BY DEF ClientType
  <2>2. o.sync \in 0 .. MaxSessions
    BY <1>2 DEF SessionType
  <2> QED
    BY <2>1, <2>2, Numbers
<1>7. client' = [c EXCEPT !.running = FALSE,
                          !.ending = IF o.sync = 0 THEN @ ELSE @ \cup {o.sync}]
  BY DEF EnterInactive
<1>8. client' \in ClientType /\ client'.waits = c.waits /\ client'.begun = client.begun
  BY <1>6, <1>7 DEF ClientType
<1>9. told' = Told(self.handlers \ hold, "aborted") /\ requests' = requests
      /\ aborted' = aborted
  BY <1>2 DEF EnterInactive
<1>10. told' \in ToldType
  BY <1>1, <1>9 DEF Typed, ToldType, Told
<1>11. committed' = committed /\ announced' = announced /\ uploaded' = uploaded
  BY DEF versions
<1>12. Typed'
  BY <1>1, <1>5, <1>8, <1>9, <1>10, <1>11 DEF Typed
<1>13. TypeOK'
  <2>1. (Typed => TypeOK)'
    BY TypedOK, PTL
  <2> QED
    BY <2>1, <1>12
<1>14. /\ self.resyncCounter \in Int /\ self.deathCount \in Int
  BY <1>1, Fields, Numbers
<1>15. ShapesOK'
  BY <1>4, <1>5, <1>8 DEF SessionInv, ShapesOK
<1>16. StatesAreSound'
  BY <1>4 DEF StatesAreSound, Up
<1>17. VersionsAreSound'
  BY <1>4, <1>11 DEF SessionInv, VersionsAreSound, Up
<1>18. WaitsAreSound'
  BY <1>2, <1>4, <1>8, <1>12, <1>14, WaitsKept
<1>19. HandlersAreSound'
  <2>0. HandlersAreSound /\ self.handlers \subseteq Waiters /\ loop.aside \subseteq Waiters
    BY <1>1, Fields DEF SessionInv
  <2>1. \A w \in Waiters \ (self.handlers \ hold) : told'[w] = told[w]
    BY <1>9 DEF Told
  <2>2. CASE hold = {} /\ loop'.aside = loop.aside /\ o = self
             /\ (loop'.at = "restore" <=> loop.at = "restore")
    <3>1. self'.handlers \cap loop'.aside = {}
      BY <1>4
    <3>2. \A w \in self'.handlers \cup loop'.aside : told'[w] = "nothing"
      BY <2>0, <2>1, <2>2, <1>4 DEF HandlersAreSound
    <3> QED
      BY <2>0, <2>2, <3>1, <3>2 DEF HandlersAreSound
  <2>3. CASE hold = self.handlers /\ loop'.at = "restore" /\ loop'.aside = self.handlers
             /\ o = [self EXCEPT !.resyncCounter = @ + 1]
    <3>2. \A w \in self'.handlers \cup loop'.aside : told'[w] = "nothing"
      BY <2>0, <2>1, <2>3, <1>4 DEF HandlersAreSound
    <3> QED
      BY <2>3, <3>2, <1>4 DEF HandlersAreSound
  <2> QED
    BY <2>2, <2>3
<1>20. HandlersAreWatched' /\ TokenIsAskedFor' /\ CommitsAreAnnounced'
  BY <1>4 DEF HandlersAreWatched, TokenIsAskedFor, CommitsAreAnnounced, Up
<1>21. WaitersAreSound'
  <2>1. loop'.aside \subseteq loop.aside \/ self'.resyncCounter > self.resyncCounter
    <3>1. CASE o = [self EXCEPT !.resyncCounter = @ + 1]
      <4>1. o.resyncCounter = self.resyncCounter + 1
        BY <1>1, <3>1 DEF Typed, SessionType
      <4> QED
        BY <4>1, <1>4, <1>14
    <3> QED
      BY <3>1
  <2>2. self'.resyncCounter >= self.resyncCounter
    BY <1>2, <1>4, <1>14
  <2>3. client'.waits \ client.waits = {}
    BY <1>8
  <2> QED
    BY <1>4, <1>12, <1>19, <2>1, <2>2, <2>3, WaitersKept
<1> QED
  BY <1>13, <1>15, <1>16, <1>17, <1>18, <1>19, <1>20, <1>21
     DEF SessionInv, NothingIsLeftBehind

\* A session is revived, with its handlers or with those set aside: nothing but
\* its state changes, and a dying session that comes back is watched.
LEMMA ReviveKeeps ==
  ASSUME SessionInv, NEW o \in SessionType, Revive(o), Bounded,
         o.state = self.state, o.sync = self.sync, o.deferredClose = self.deferredClose,
         o.deferredCommit = self.deferredCommit, o.deathCount = self.deathCount,
         o.resyncCounter = self.resyncCounter,
         \/ o.handlers = self.handlers /\ overtaken' = overtaken
         \/ /\ o.handlers = loop.aside
            /\ self.state = "active" => loop.aside \subseteq overtaken',
         UNCHANGED versions, open' \in BOOLEAN, aborted' \in BOOLEAN,
         loop' \in LoopType, loop'.aside \subseteq loop.aside,
         told' \in ToldType, overtaken' \subseteq Waiters,
         self'.handlers = o.handlers /\ self'.resyncCounter = o.resyncCounter
           => HandlersAreSound'
  PROVE  SessionInv'
<1>1. Typed
  BY InvTyped
<1>2. committed' = committed /\ announced' = announced /\ uploaded' = uploaded
  BY DEF versions
<1>3. o.state \in States /\ o.sync \in 0 .. MaxSessions /\ o.resyncCounter \in Int
      /\ o.deathCount \in Int /\ client.begun \in Int /\ requests \in 0 .. MaxRequests
      /\ client \in ClientType /\ committed \in Nat
  BY <1>1, Numbers DEF SessionType, Typed, ClientType
<1>4. client'.begun <= MaxWaits /\ requests' <= MaxRequests
  BY DEF Bounded
<1>5. /\ self'.sync = o.sync /\ self'.deathCount = o.deathCount
      /\ self'.resyncCounter = o.resyncCounter /\ self'.handlers = o.handlers
      /\ self'.deferredCommit = o.deferredCommit /\ self' \in SessionType
      /\ self'.state = "waiting" => ~self'.deferredClose
      /\ \/ o.state = "inactive" /\ self'.state = "waiting" /\ client' = client
            /\ requests' = requests + 1
         \/ o.state = "waiting" /\ self'.state = "waiting" /\ client' = client
            /\ requests' = requests
         \/ o.state = "dying" /\ self'.state = "active"
            /\ client' = Watching(client, o, announced) /\ requests' = requests
         \/ o.state = "active" /\ self'.state = "active" /\ client' = client
            /\ requests' = requests
  <2>1. CASE o.state = "inactive" /\ EnterWaiting(o)
    BY <2>1 DEF EnterWaiting, SessionType, States
  <2>2. CASE o.state = "waiting" /\ self' = [o EXCEPT !.deferredClose = FALSE]
             /\ UNCHANGED <<requests, client>>
    BY <2>2 DEF SessionType, States
  <2>3. CASE o.state = "dying" /\ self' = [o EXCEPT !.state = "active"]
             /\ client' = Watching(client, o, announced) /\ UNCHANGED requests
    BY <2>3 DEF SessionType, States
  <2>4. CASE o.state = "active" /\ self' = o /\ UNCHANGED <<requests, client>>
    BY <2>4 DEF SessionType, States
  <2> QED
    BY <2>1, <2>2, <2>3, <2>4 DEF Revive
<1>6. /\ client' \in ClientType /\ client'.begun >= client.begun
      /\ client.waits \subseteq client'.waits
      /\ \A op \in client'.waits \ client.waits :
           /\ op.kind = "completion" /\ op.tag = o.resyncCounter /\ op.sync = o.sync
           /\ op.ws = o.handlers /\ op.due = committed /\ op.upTo = announced
           /\ self.state = "dying"
      /\ self'.state = "active" /\ o.handlers # {} =>
           \/ client' = client /\ self.state = "active"
           \/ \E op \in client'.waits :
                op.kind = "completion" /\ op.sync = o.sync /\ op.tag = o.resyncCounter
  <2>1. CASE client' = client /\ (self'.state = "active" => self.state = "active")
    BY <2>1, <1>3
  <2>2. CASE o.state = "dying" /\ client' = Watching(client, o, announced)
    <3>1. o.sync # 0
      BY <2>2 DEF SessionInv, StatesAreSound, Up
    <3>2. announced \in Nat
      BY <1>1, Numbers DEF Typed
    <3>3. Watching(client, o, announced).begun <= MaxWaits
      BY <2>2, <1>4
    <3> QED
      BY <2>2, <3>1, <3>2, <3>3, <1>3, WatchingAdds
  <2> QED
    BY <2>1, <2>2, <1>5
<1>7. requests' \in 0 .. MaxRequests
  BY <1>3, <1>4, <1>5, Numbers
<1>8. Typed'
  BY <1>1, <1>2, <1>5, <1>6, <1>7 DEF Typed
<1>9. TypeOK'
  <2>1. (Typed => TypeOK)'
    BY TypedOK, PTL
  <2> QED
    BY <2>1, <1>8
<1>10. ShapesOK'
  <2>1. client'.begun \in Int
    BY <1>6 DEF ClientType
  <2> QED
    BY <2>1, <1>3, <1>5, <1>6 DEF SessionInv, ShapesOK
<1>11. StatesAreSound'
  BY <1>5 DEF SessionInv, StatesAreSound, Up
<1>12. VersionsAreSound'
  <2>1. VersionsAreSound /\ StatesAreSound
    BY DEF SessionInv
  <2> QED
    BY <2>1, <1>2, <1>5 DEF VersionsAreSound, StatesAreSound, Up
<1>13. WaitsAreSound'
  <2>1. self'.state # "dying"
    BY <1>5
  <2> QED
    BY <2>1, <1>3, <1>5, <1>6, <1>8, WaitsKept
<1>14. HandlersAreSound'
  BY <1>5
<1>15. TokenIsAskedFor'
  BY <1>3, <1>5 DEF SessionInv, NothingIsLeftBehind, TokenIsAskedFor
<1>16. CommitsAreAnnounced'
  BY <1>12 DEF VersionsAreSound, CommitsAreAnnounced, Up
<1>17. HandlersAreWatched'
  <2> SUFFICES ASSUME Up', self'.handlers # {}, self'.handlers \cap overtaken' = {}
               PROVE  \E op \in client'.waits :
                        /\ op.kind = "completion" /\ op.sync = self'.sync
                        /\ op.tag = self'.resyncCounter
    BY DEF HandlersAreWatched
  <2>1. self'.state = "active" /\ o.handlers # {} /\ o.handlers \cap overtaken' = {}
    BY <1>3, <1>5 DEF Up
  <2>2. HandlersAreWatched
    BY DEF SessionInv, NothingIsLeftBehind
  <2>3. CASE client' = client /\ self.state = "active"
    <3>1. o.handlers = self.handlers /\ overtaken' = overtaken
      BY <2>1, <2>3
    <3> QED
      BY <2>1, <2>2, <2>3, <3>1, <1>5 DEF HandlersAreWatched, Up
  <2>4. CASE \E op \in client'.waits :
               op.kind = "completion" /\ op.sync = o.sync /\ op.tag = o.resyncCounter
    BY <2>4, <1>5
  <2> QED
    BY <2>1, <2>3, <2>4, <1>6
<1>18. WaitersAreSound'
  <2>1. self.state = "dying" => announced = committed
    BY DEF SessionInv, VersionsAreSound, Up
  <2>2. self'.resyncCounter >= self.resyncCounter
    BY <1>3, <1>5
  <2>3. self'.handlers \subseteq self.handlers \cup loop.aside
    BY <1>5
  <2>4. \A op \in client'.waits \ client.waits :
          /\ op.sync = self'.sync /\ op.due <= op.upTo
          /\ op.ws = self'.handlers \/ op.ws = {}
          /\ op.kind = "death" => op.ws = {}
    BY <2>1, <1>3, <1>5, <1>6
  <2> QED
    BY <2>2, <2>3, <2>4, <1>5, <1>8, <1>14, WaitersKept
<1> QED
  BY <1>9, <1>10, <1>11, <1>12, <1>13, <1>14, <1>15, <1>16, <1>17, <1>18
     DEF SessionInv, NothingIsLeftBehind

\* The session stays in its state with its sync::Session and its counters, and
\* nothing is committed or announced.
LEMMA SteadyKeeps ==
  ASSUME SessionInv, Typed', HandlersAreWatched', HandlersAreSound',
         self'.state = self.state, self'.sync = self.sync,
         self'.deferredCommit = self.deferredCommit,
         self'.deathCount = self.deathCount, self'.resyncCounter = self.resyncCounter,
         self.state = "dying" => ~open',
         self.state = "waiting" /\ self'.deferredClose => ~open',
         committed' = committed, announced' = announced, uploaded' <= announced,
         self.state = "waiting" => requests' >= requests,
         client'.begun >= client.begun, loop'.aside \subseteq loop.aside,
         \A op \in client.waits : op.ws \cap self'.handlers \subseteq self.handlers,
         \A op \in client'.waits \ client.waits :
           /\ op.kind = "completion" /\ op.tag = self.resyncCounter
           /\ op.sync = self.sync /\ op.ws = self'.handlers /\ op.due <= op.upTo
  PROVE  SessionInv'
<1>1. Typed
  BY InvTyped
<1>2. TypeOK'
  <2>1. (Typed => TypeOK)'
    BY TypedOK, PTL
  <2> QED
    BY <2>1
<1>3. self.resyncCounter \in Int /\ self.deathCount \in Int
  BY <1>1, CountersTyped
<1>4. client'.begun \in Int /\ client.begun \in Int /\ requests \in Int /\ requests' \in Int
      /\ client' \in ClientType /\ loop' \in LoopType
  BY <1>1, Numbers DEF Typed, ClientType
<1>5. ShapesOK'
  BY <1>3, <1>4 DEF SessionInv, ShapesOK
<1>6. StatesAreSound'
  BY DEF SessionInv, StatesAreSound, Up
<1>7. VersionsAreSound'
  BY DEF SessionInv, VersionsAreSound, Up
<1>8. WaitsAreSound'
  BY <1>3, WaitsKept
<1>9. TokenIsAskedFor'
  BY <1>4 DEF SessionInv, NothingIsLeftBehind, TokenIsAskedFor
<1>10. CommitsAreAnnounced'
  BY <1>7 DEF VersionsAreSound, CommitsAreAnnounced, Up
<1>11. WaitersAreSound'
  <2>1. self'.resyncCounter >= self.resyncCounter
    BY <1>3
  <2>2. \A op \in client.waits :
          op.ws \cap self'.handlers \subseteq self.handlers \cup loop.aside
    OBVIOUS
  <2>3. \A op \in client'.waits \ client.waits :
          /\ op.sync = self'.sync /\ op.due <= op.upTo
          /\ op.ws = self'.handlers \/ op.ws = {}
          /\ op.kind = "death" => op.ws = {}
    OBVIOUS
  <2> QED
    BY <2>1, <2>2, <2>3, WaitersKept
<1> QED
  BY <1>2, <1>5, <1>6, <1>7, <1>8, <1>9, <1>10, <1>11 DEF SessionInv, NothingIsLeftBehind

\* Handlers stay watched while the waits that answer them are kept.
LEMMA SteadyWatch ==
  ASSUME SessionInv, self'.state = self.state, self'.sync = self.sync,
         self'.resyncCounter = self.resyncCounter, overtaken' = overtaken,
         \/ self'.handlers = {}
         \/ /\ self'.handlers = self.handlers
            /\ \A op \in client.waits :
                 op.kind = "completion" /\ op.tag = self.resyncCounter
                   => op \in client'.waits
  PROVE  HandlersAreWatched'
<1>1. HandlersAreWatched
  BY DEF SessionInv, NothingIsLeftBehind
<1>2. CASE self'.handlers = {}
  BY <1>2 DEF HandlersAreWatched
<1>3. CASE self'.handlers # {}
  <2> SUFFICES ASSUME Up', self'.handlers \cap overtaken' = {}
               PROVE  \E op \in client'.waits :
                        /\ op.kind = "completion" /\ op.sync = self'.sync
                        /\ op.tag = self'.resyncCounter
    BY DEF HandlersAreWatched
  <2>1. Up /\ self.handlers # {} /\ self.handlers \cap overtaken = {}
    BY <1>3 DEF Up
  <2>2. PICK op \in client.waits :
          op.kind = "completion" /\ op.sync = self.sync /\ op.tag = self.resyncCounter
    BY <1>1, <2>1 DEF HandlersAreWatched
  <2> QED
    BY <1>3, <2>2
<1> QED
  BY <1>2, <1>3

\* Handlers that stay where they are and are told nothing stay sound.
LEMMA SteadyHandlers ==
  ASSUME SessionInv, self'.handlers \subseteq self.handlers,
         \A w \in self'.handlers \cup loop.aside : told'[w] = told[w],
         \/ loop' = loop
         \/ loop.at # "restore" /\ loop'.at # "restore" /\ loop'.aside = {}
  PROVE  HandlersAreSound'
<1>1. HandlersAreSound
  BY DEF SessionInv
<1>2. CASE loop' = loop
  BY <1>1, <1>2 DEF HandlersAreSound
<1>3. CASE loop.at # "restore" /\ loop'.at # "restore" /\ loop'.aside = {}
  BY <1>1, <1>3 DEF HandlersAreSound
<1> QED
  BY <1>2, <1>3

-------------------------------------------------------------------------------
\* The invariant holds at first.

LEMMA InitInv == Init => SessionInv
<1> SUFFICES ASSUME Init PROVE SessionInv
  OBVIOUS
<1>1. self = Fresh /\ client = ClientInit /\ loop = Idle /\ open = FALSE
      /\ requests = 0 /\ committed = 0 /\ announced = 0 /\ uploaded = 0
      /\ told = [w \in Waiters |-> "nothing"] /\ aborted = FALSE /\ overtaken = {}
  BY DEF Init
<1>2. self \in SessionType
  BY <1>1, Numbers DEF Fresh, SessionType, States
<1>3. client \in ClientType
  BY <1>1, Numbers DEF ClientInit, ClientType
<1>4. loop \in LoopType
  BY <1>1 DEF Idle, LoopType
<1>5. Typed
  <2>1. told \in ToldType
    BY <1>1 DEF ToldType
  <2>2. open \in BOOLEAN /\ aborted \in BOOLEAN /\ overtaken \subseteq Waiters
    BY <1>1
  <2>3. /\ requests \in 0 .. MaxRequests /\ committed \in 0 .. MaxCommits
        /\ announced \in 0 .. MaxCommits /\ uploaded \in 0 .. MaxCommits
    BY <1>1, Numbers
  <2> QED
    BY <1>2, <1>3, <1>4, <2>1, <2>2, <2>3 DEF Typed
<1>6. self.state = "inactive" /\ self.sync = 0 /\ self.handlers = {}
      /\ self.deathCount = 0 /\ client.begun = 0 /\ client.waits = {}
      /\ loop.at = "idle" /\ loop.aside = {}
  BY <1>1 DEF Fresh, ClientInit, Idle
<1>7. ShapesOK /\ StatesAreSound /\ WaitsAreSound /\ WaitersAreSound
  BY <1>3, <1>4, <1>6 DEF ShapesOK, StatesAreSound, WaitsAreSound, WaitersAreSound, Up
<1>8. VersionsAreSound /\ HandlersAreSound
  BY <1>1, <1>6 DEF VersionsAreSound, HandlersAreSound, Up
<1>9. HandlersAreWatched /\ TokenIsAskedFor /\ CommitsAreAnnounced
  BY <1>6 DEF HandlersAreWatched, TokenIsAskedFor, CommitsAreAnnounced, Up
<1> QED
  BY <1>5, <1>7, <1>8, <1>9, TypedOK DEF SessionInv, NothingIsLeftBehind

-------------------------------------------------------------------------------
\* What the binding does keeps the invariant.

LEMMA OpenRealmKeeps ==
  ASSUME SessionInv, OpenRealm, Bounded PROVE SessionInv'
<1>1. Typed /\ HandlersAreSound
  BY InvTyped DEF SessionInv
<1>2. open' = TRUE /\ committed' = committed /\ announced' = announced
      /\ uploaded' = uploaded /\ told' = told /\ aborted' = aborted
      /\ overtaken' = overtaken
  BY DEF OpenRealm, versions
<1>3. CASE self.registered /\ Revive(self) /\ UNCHANGED loop
  <2>1. self'.handlers = self.handlers /\ self'.resyncCounter = self.resyncCounter
          => HandlersAreSound'
    BY <1>1, <1>2, <1>3 DEF HandlersAreSound
  <2> QED
    BY <1>1, <1>2, <1>3, <2>1, ReviveKeeps DEF Typed, versions
<1>4. CASE ~self.registered /\ self.state = "inactive"
  <2>1. PICK policy \in StopPolicies :
          self' = [Fresh EXCEPT !.state = "waiting", !.registered = TRUE,
                                !.stopPolicy = policy]
    BY <1>4 DEF OpenRealm, EnterWaiting, Revive
  <2>2. requests' = 1 /\ client' = [client EXCEPT !.waits = {}, !.ending = {}]
        /\ loop' = [loop EXCEPT !.old = loop # Idle]
    BY <1>4 DEF OpenRealm
  <2>3. self'.state = "waiting" /\ self'.sync = 0 /\ self'.deferredClose = FALSE
        /\ self'.deathCount = 0 /\ self'.handlers = {} /\ self'.resyncCounter = 0
    BY <2>1 DEF Fresh
  <2>4. self' \in SessionType
    <3>1. self' =
            [state |-> "waiting", sync |-> 0, deferredClose |-> FALSE,
             deferredCommit |-> 0, deathCount |-> 0, resyncCounter |-> 0,
             handlers |-> {}, registered |-> TRUE, stopPolicy |-> policy]
      BY <2>1 DEF Fresh
    <3>2. "waiting" \in States /\ 0 \in 0 .. MaxSessions /\ 0 \in 0 .. MaxCommits
          /\ 0 \in 0 .. MaxWaits /\ {} \in SUBSET Waiters
      BY Numbers DEF States
    <3> QED
      BY <3>1, <3>2 DEF SessionType
  <2>5. client' \in ClientType /\ client'.waits = {} /\ client'.begun = client.begun
    BY <1>1, <2>2 DEF Typed, ClientType
  <2>6. loop' \in LoopType /\ loop'.at = loop.at /\ loop'.aside = loop.aside
    BY <1>1, <2>2 DEF Typed, LoopType
  <2>7. requests' \in 0 .. MaxRequests
    BY <2>2, Numbers DEF Bounded
  <2>8. Typed'
    BY <1>1, <1>2, <2>4, <2>5, <2>6, <2>7 DEF Typed
  <2>9. TypeOK'
    <3>1. (Typed => TypeOK)'
      BY TypedOK, PTL
    <3> QED
      BY <3>1, <2>8
  <2>10. client.begun \in 0 .. MaxWaits
    BY <1>1 DEF Typed, ClientType
  <2>11. ShapesOK' /\ StatesAreSound' /\ WaitsAreSound' /\ WaitersAreSound'
    BY <2>3, <2>5, <2>6, <2>10, Numbers
       DEF ShapesOK, StatesAreSound, WaitsAreSound, WaitersAreSound, Up
  <2>12. VersionsAreSound'
    BY <1>2, <2>3 DEF SessionInv, VersionsAreSound, Up
  <2>13. HandlersAreSound'
    BY <1>1, <1>2, <2>3, <2>6 DEF HandlersAreSound
  <2>14. HandlersAreWatched' /\ TokenIsAskedFor' /\ CommitsAreAnnounced'
    BY <2>2, <2>3 DEF HandlersAreWatched, TokenIsAskedFor, CommitsAreAnnounced, Up
  <2> QED
    BY <2>9, <2>11, <2>12, <2>13, <2>14 DEF SessionInv, NothingIsLeftBehind
<1> QED
  BY <1>3, <1>4 DEF OpenRealm

LEMMA CloseRealmKeeps ==
  ASSUME SessionInv, CloseRealm, Bounded PROVE SessionInv'
<1>1. Typed /\ HandlersAreSound /\ StatesAreSound /\ VersionsAreSound
  BY InvTyped DEF SessionInv
<1>2. open' = FALSE /\ loop' = loop /\ committed' = committed /\ announced' = announced
      /\ uploaded' = uploaded /\ overtaken' = overtaken
  BY DEF CloseRealm, versions
<1>3. client \in ClientType /\ loop \in LoopType /\ self \in SessionType
  BY <1>1 DEF Typed
<1>4. uploaded <= announced
  BY <1>1 DEF VersionsAreSound
<1>5. client.begun \in Int /\ requests \in Int
  BY <1>1 DEF Typed, ClientType
<1>6. CASE EnterInactive(client, self, {})
  BY <1>2, <1>3, <1>6, InactiveKeeps DEF versions
<1>7. CASE /\ \/ self' = [self EXCEPT !.deferredClose = TRUE]
              \/ self' = self
              \/ self' = [self EXCEPT !.registered = FALSE]
           /\ UNCHANGED <<requests, client, told, aborted>>
  <2>1. self' \in SessionType /\ self'.state = self.state /\ self'.sync = self.sync
        /\ self'.deferredCommit = self.deferredCommit
        /\ self'.deathCount = self.deathCount
        /\ self'.resyncCounter = self.resyncCounter
        /\ self'.handlers = self.handlers
    BY <1>3, <1>7 DEF SessionType
  <2>2. Typed'
    BY <1>1, <1>2, <1>7, <2>1 DEF Typed
  <2>3. HandlersAreWatched' /\ HandlersAreSound'
    BY <1>2, <1>7, <2>1, SteadyWatch, SteadyHandlers
  <2> QED
    BY <1>2, <1>4, <1>5, <1>7, <2>1, <2>2, <2>3, SteadyKeeps
<1>8. CASE /\ self.state = "active"
           /\ self' = [self EXCEPT !.state = "dying", !.deathCount = @ + 1]
           /\ client' = Death(client, self, announced)
           /\ UNCHANGED <<requests, told, aborted>>
  <2>1. self.sync # 0
    BY <1>1, <1>8 DEF StatesAreSound, Up
  <2>2. announced \in Nat /\ committed \in Nat
    BY <1>1, Numbers DEF Typed
  <2>3. client'.begun <= MaxWaits
    BY DEF Bounded
  <2>4. /\ client' \in ClientType /\ client'.begun = client.begun + 1
        /\ client.waits \subseteq client'.waits
        /\ \A op \in client'.waits \ client.waits :
             /\ op.kind = "death" /\ op.sync = self.sync
             /\ op.tag = self.deathCount + 1 /\ op.upTo = announced
             /\ op.ws = {} /\ op.due = committed
    BY <1>3, <1>8, <2>1, <2>2, <2>3, DeathAdds
  <2>5. self'.state = "dying" /\ self'.sync = self.sync /\ self'.handlers = self.handlers
        /\ self'.deathCount = self.deathCount + 1
        /\ self'.resyncCounter = self.resyncCounter
        /\ self'.deferredCommit = self.deferredCommit
    BY <1>3, <1>8 DEF SessionType
  <2>6. self.deathCount \in 0 .. MaxWaits /\ self.deathCount <= client.begun
    BY <1>1, Fields DEF SessionInv, ShapesOK
  <2>7. self' \in SessionType
    <3>1. self.deathCount + 1 \in 0 .. MaxWaits
      BY <1>5, <2>3, <2>4, <2>6, Numbers
    <3> QED
      BY <1>3, <1>8, <3>1 DEF SessionType, States
  <2>8. Typed'
    BY <1>1, <1>2, <1>8, <2>4, <2>7 DEF Typed
  <2>9. TypeOK'
    <3>1. (Typed => TypeOK)'
      BY TypedOK, PTL
    <3> QED
      BY <3>1, <2>8
  <2>10. ShapesOK'
    BY <1>2, <1>3, <1>5, <2>4, <2>5, <2>6 DEF ShapesOK
  <2>11. StatesAreSound' /\ VersionsAreSound'
    BY <1>1, <1>2, <1>8, <2>5 DEF StatesAreSound, VersionsAreSound, Up
  <2>12. WaitsAreSound'
    <3>1. announced = committed
      BY <1>1, <1>8 DEF VersionsAreSound, Up
    <3>2. self.resyncCounter \in Int /\ self.deathCount \in Int
      BY <1>1, CountersTyped
    <3> QED
      BY <1>2, <2>4, <2>5, <2>8, <3>1, <3>2, WaitsKept
  <2>13. HandlersAreSound'
    BY <1>2, <1>8, <2>5, SteadyHandlers
  <2>14. TokenIsAskedFor' /\ CommitsAreAnnounced'
    BY <2>5 DEF TokenIsAskedFor, CommitsAreAnnounced
  <2>15. HandlersAreWatched'
    BY <1>2, <1>8, <2>4, <2>5 DEF SessionInv, NothingIsLeftBehind, HandlersAreWatched, Up
  <2>16. WaitersAreSound'
    <3>1. announced = committed
      BY <1>1, <1>8 DEF VersionsAreSound, Up
    <3>2. self'.resyncCounter >= self.resyncCounter
      BY <1>1, <2>5, CountersTyped
    <3>3. \A op \in client'.waits \ client.waits :
            /\ op.sync = self'.sync /\ op.due <= op.upTo
            /\ op.ws = self'.handlers \/ op.ws = {}
            /\ op.kind = "death" => op.ws = {}
      BY <2>2, <2>4, <2>5, <3>1
    <3> QED
      BY <1>2, <2>5, <2>8, <2>13, <3>2, <3>3, WaitersKept
  <2> QED
    BY <2>9, <2>10, <2>11, <2>12, <2>13, <2>14, <2>15, <2>16
       DEF SessionInv, NothingIsLeftBehind
<1> QED
  BY <1>6, <1>7, <1>8 DEF CloseRealm

LEMMA LogOutKeeps ==
  ASSUME SessionInv, LogOut PROVE SessionInv'
<1>1. Typed
  BY InvTyped
<1>2. client \in ClientType /\ loop \in LoopType /\ open' \in BOOLEAN
      /\ loop' = loop /\ UNCHANGED versions /\ EnterInactive(client, self, {})
      /\ overtaken' = overtaken
  BY <1>1 DEF Typed, LogOut
<1> QED
  BY <1>2, InactiveKeeps

LEMMA ResumeKeeps ==
  ASSUME SessionInv, Resume, Bounded PROVE SessionInv'
<1>1. Typed /\ HandlersAreSound
  BY InvTyped DEF SessionInv
<1>2. Revive(self) /\ UNCHANGED <<open, loop, versions, told, overtaken, aborted>>
  BY DEF Resume
<1>3. self'.handlers = self.handlers /\ self'.resyncCounter = self.resyncCounter
        => HandlersAreSound'
  BY <1>1, <1>2 DEF HandlersAreSound
<1> QED
  BY <1>1, <1>2, <1>3, ReviveKeeps DEF Typed

\* A step that leaves the session alone and neither commits nor announces.
LEMMA SessionAlone ==
  ASSUME SessionInv, UNCHANGED <<self, open, loop, committed, announced, told>>,
         UNCHANGED <<overtaken, aborted>>,
         uploaded' \in 0 .. MaxCommits, uploaded' <= announced,
         client' \in ClientType, client'.begun = client.begun,
         client'.waits = client.waits, requests' \in 0 .. MaxRequests,
         self.state = "waiting" => requests' >= requests
  PROVE  SessionInv'
<1>1. Typed /\ StatesAreSound
  BY InvTyped DEF SessionInv
<1>2. Typed'
  BY <1>1 DEF Typed
<1>3. HandlersAreWatched' /\ HandlersAreSound'
  BY SteadyWatch, SteadyHandlers
<1>4. client.begun \in Int
  BY <1>1 DEF Typed, ClientType
<1>5. self.state = "dying" => ~open'
  BY <1>1 DEF StatesAreSound
<1>6. self.state = "waiting" /\ self'.deferredClose => ~open'
  BY <1>1 DEF StatesAreSound
<1> QED
  BY <1>2, <1>3, <1>4, <1>5, <1>6, SteadyKeeps

LEMMA HandleReconnectKeeps ==
  ASSUME SessionInv, HandleReconnect, Bounded PROVE SessionInv'
<1>1. Typed /\ VersionsAreSound
  BY InvTyped DEF SessionInv
<1>2. requests' = requests + 1 /\ requests' <= MaxRequests /\ requests \in 0 .. MaxRequests
  BY <1>1 DEF HandleReconnect, Bounded, Typed
<1>3. requests' \in 0 .. MaxRequests /\ requests' >= requests
  BY <1>2, Numbers
<1> QED
  BY <1>1, <1>3, SessionAlone DEF HandleReconnect, versions, Typed, VersionsAreSound

\* What the client knows of when the session becomes active is all there is.
LEMMA AnnouncesAll ==
  ASSUME SessionInv, self.state = "waiting" PROVE AnnouncedWhenActive = committed
BY DEF SessionInv, VersionsAreSound, AnnouncedWhenActive

\* Waits that are begun leave the count of sessions alone and are counted.
LEMMA WaitingCounts ==
  ASSUME NEW c, NEW kind, NEW s, NEW tag, NEW upTo, NEW ws,
         "made" \in DOMAIN c, "begun" \in DOMAIN c
  PROVE  /\ Waiting(c, kind, s, tag, upTo, ws).made = c.made
         /\ Waiting(c, kind, s, tag, upTo, ws).begun = c.begun + 1
         /\ DOMAIN Waiting(c, kind, s, tag, upTo, ws) = DOMAIN c
BY DEF Waiting

\* The session after it was bound or refreshed: it has a sync::Session, its
\* handlers are watched and all is announced, whether it goes on or dies.
LEMMA ActivateShapes ==
  ASSUME SessionInv, self.state = "waiting", Activate, Bounded, requests' <= MaxRequests
  PROVE  /\ self' \in SessionType /\ client' \in ClientType
         /\ self'.deathCount <= client'.begun
         /\ self'.handlers = self.handlers /\ self'.resyncCounter = self.resyncCounter
         /\ self'.sync # 0 /\ self'.deferredCommit = 0
         /\ announced' = committed
         /\ \/ self'.state = "active" /\ self'.deathCount = self.deathCount
            \/ /\ self'.state = "dying" /\ self'.deathCount = self.deathCount + 1
               /\ self.deferredClose
         /\ self.sync # 0 => self'.sync = self.sync
         /\ \A op \in client'.waits \ client.waits :
              /\ op.sync = self'.sync /\ op.due = committed /\ op.upTo = committed
              /\ \/ /\ op.kind = "completion" /\ op.tag = self.resyncCounter
                    /\ op.ws = self.handlers
                 \/ op.kind = "death" /\ op.tag = self'.deathCount /\ op.ws = {}
         /\ self.handlers # {} =>
              \E op \in client'.waits :
                /\ op.kind = "completion" /\ op.sync = self'.sync
                /\ op.tag = self.resyncCounter
<1>1. Typed
  BY InvTyped
<1> DEFINE sync == IF self.sync = 0 THEN client.made + 1 ELSE self.sync
           active == [self EXCEPT !.state = "active", !.sync = sync,
                                  !.deferredCommit = 0]
           running == [client EXCEPT !.made = IF self.sync = 0 THEN sync ELSE @,
                                     !.running = TRUE]
           watched == Watching(running, active, committed)
<1>2. /\ announced' = committed
      /\ \/ /\ self.deferredClose
            /\ self' = [active EXCEPT !.state = "dying", !.deathCount = @ + 1]
            /\ client' = Death(watched, active, committed)
         \/ self' = active /\ client' = watched
  BY AnnouncesAll DEF Activate
<1>3. self \in SessionType /\ client \in ClientType /\ committed \in Nat
  BY <1>1, Numbers DEF Typed
<1>4. client'.made <= MaxSessions /\ client'.begun <= MaxWaits
  BY DEF Bounded
<1>5. client.made \in 0 .. MaxSessions /\ client.begun \in 0 .. MaxWaits
      /\ self.sync \in 0 .. MaxSessions /\ self.deathCount \in 0 .. MaxWaits
      /\ self.deathCount <= client.begun
  BY <1>1, Fields DEF SessionInv, ShapesOK
<1>6. "made" \in DOMAIN running /\ "begun" \in DOMAIN running
      /\ running.made = (IF self.sync = 0 THEN sync ELSE client.made)
      /\ running.begun = client.begun /\ running.waits = client.waits
  BY <1>3 DEF ClientType
<1>7. watched.made = running.made /\ "made" \in DOMAIN watched /\ "begun" \in DOMAIN watched
  <2> HIDE DEF active, running
  <2>1. CASE active.handlers = {}
    BY <2>1, <1>6 DEF Watching
  <2>2. CASE active.handlers # {}
    BY <2>2, <1>6, WaitingCounts DEF Watching
  <2> QED
    BY <2>1, <2>2
<1>8. client'.made = running.made
  <2>1. CASE client' = watched
    BY <2>1, <1>7
  <2>2. CASE client' = Death(watched, active, committed)
    BY <2>2, <1>7, WaitingCounts DEF Death
  <2> QED
    BY <2>1, <2>2, <1>2
<1>9. sync \in 1 .. MaxSessions
  BY <1>4, <1>5, <1>6, <1>8, Numbers
<1>10. active \in SessionType /\ active.sync = sync /\ active.sync # 0
       /\ active.handlers = self.handlers /\ active.resyncCounter = self.resyncCounter
       /\ active.deathCount = self.deathCount /\ active.deferredCommit = 0
       /\ active.state = "active"
  <2>1. "active" \in States /\ sync \in 0 .. MaxSessions /\ 0 \in 0 .. MaxCommits /\ sync # 0
    BY <1>9, Numbers DEF States
  <2> HIDE DEF sync
  <2> QED
    BY <2>1, <1>3 DEF SessionType
<1>11. running \in ClientType
  <2>1. (IF self.sync = 0 THEN sync ELSE client.made) \in 0 .. MaxSessions
    BY <1>5, <1>9, Numbers
  <2> HIDE DEF sync
  <2> QED
    BY <2>1, <1>3 DEF ClientType
<1>17. self.sync # 0 => sync = self.sync
  OBVIOUS
<1> HIDE DEF sync, active, running
<1>12. watched.begun <= MaxWaits
  <2>1. CASE client' = watched
    BY <2>1, <1>4
  <2>2. CASE client' = Death(watched, active, committed)
    <3>1. client'.begun = watched.begun + 1
      BY <2>2, <1>7, WaitingCounts DEF Death
    <3>2. watched.begun \in Int
      <4>1. CASE active.handlers = {}
        BY <4>1, <1>5, <1>6 DEF Watching
      <4>2. CASE active.handlers # {}
        BY <4>2, <1>5, <1>6, WaitingCounts DEF Watching
      <4> QED
        BY <4>1, <4>2
    <3> QED
      BY <3>1, <3>2, <1>4, Numbers
  <2> QED
    BY <2>1, <2>2, <1>2
<1>13. /\ watched \in ClientType
       /\ watched.begun >= client.begun
       /\ client.waits \subseteq watched.waits
       /\ \A op \in watched.waits \ client.waits :
            /\ op.kind = "completion" /\ op.tag = self.resyncCounter /\ op.sync = sync
            /\ op.ws = self.handlers /\ op.due = committed /\ op.upTo = committed
       /\ self.handlers # {} =>
            \E op \in watched.waits :
              op.kind = "completion" /\ op.sync = sync /\ op.tag = self.resyncCounter
  BY <1>3, <1>6, <1>10, <1>11, <1>12, WatchingAdds
<1>14. watched.begun \in 0 .. MaxWaits
  BY <1>13 DEF ClientType
<1> HIDE DEF watched
<1>15. CASE self' = active /\ client' = watched
  BY <1>2, <1>5, <1>10, <1>13, <1>14, <1>15, <1>17
<1>16. CASE /\ self.deferredClose
            /\ self' = [active EXCEPT !.state = "dying", !.deathCount = @ + 1]
            /\ client' = Death(watched, active, committed)
  <2>1. /\ client' \in ClientType /\ client'.begun = watched.begun + 1
        /\ watched.waits \subseteq client'.waits
        /\ \A op \in client'.waits \ watched.waits :
             /\ op.kind = "death" /\ op.sync = active.sync
             /\ op.tag = active.deathCount + 1 /\ op.upTo = committed
             /\ op.ws = {} /\ op.due = committed
    BY <1>3, <1>4, <1>10, <1>13, <1>16, DeathAdds
  <2>2. self'.state = "dying" /\ self'.sync = sync /\ self'.handlers = self.handlers
        /\ self'.deathCount = self.deathCount + 1
        /\ self'.resyncCounter = self.resyncCounter /\ self'.deferredCommit = 0
    BY <1>10, <1>16 DEF SessionType
  <2>3. self.deathCount + 1 \in 0 .. MaxWaits
    BY <1>4, <1>5, <1>13, <1>14, <2>1, Numbers
  <2>4. self' \in SessionType
    <3>1. "dying" \in States /\ active.deathCount + 1 \in 0 .. MaxWaits
      BY <2>3, <1>10 DEF States
    <3> QED
      BY <3>1, <1>10, <1>16 DEF SessionType
  <2>5. self'.deathCount <= client'.begun
    BY <1>5, <1>13, <1>14, <2>1, <2>2
  <2>6. \A op \in client'.waits \ client.waits :
          /\ op.sync = self'.sync /\ op.due = committed /\ op.upTo = committed
          /\ \/ /\ op.kind = "completion" /\ op.tag = self.resyncCounter
                /\ op.ws = self.handlers
             \/ op.kind = "death" /\ op.tag = self'.deathCount /\ op.ws = {}
    BY <1>10, <1>13, <2>1, <2>2
  <2>7. self.handlers # {} =>
          \E op \in client'.waits :
            op.kind = "completion" /\ op.sync = self'.sync /\ op.tag = self.resyncCounter
    BY <1>13, <2>1, <2>2
  <2> QED
    BY <1>2, <1>10, <1>16, <1>17, <2>1, <2>2, <2>4, <2>5, <2>6, <2>7
<1> QED
  BY <1>2, <1>15, <1>16

LEMMA RefreshAccessTokenKeeps ==
  ASSUME SessionInv, RefreshAccessToken, Bounded PROVE SessionInv'
<1>1. Typed /\ HandlersAreSound /\ StatesAreSound /\ VersionsAreSound
  BY InvTyped DEF SessionInv
<1>2. requests > 0 /\ requests' = requests - 1
      /\ open' = open /\ loop' = loop /\ committed' = committed /\ uploaded' = uploaded
      /\ told' = told /\ aborted' = aborted /\ overtaken' = overtaken
  BY DEF RefreshAccessToken
<1>3. requests' \in 0 .. MaxRequests
  BY <1>1, <1>2, Numbers DEF Typed
<1>4. uploaded <= announced /\ announced <= committed /\ uploaded \in Int
      /\ announced \in Int /\ committed \in 0 .. MaxCommits
  BY <1>1 DEF Typed, VersionsAreSound
<1>5. CASE self.state = "waiting" /\ Activate
  <2>1. /\ self' \in SessionType /\ client' \in ClientType
        /\ self'.deathCount <= client'.begun
        /\ self'.handlers = self.handlers /\ self'.resyncCounter = self.resyncCounter
        /\ self'.sync # 0 /\ self'.deferredCommit = 0
        /\ announced' = committed
        /\ \/ self'.state = "active" /\ self'.deathCount = self.deathCount
           \/ /\ self'.state = "dying" /\ self'.deathCount = self.deathCount + 1
              /\ self.deferredClose
        /\ self.sync # 0 => self'.sync = self.sync
        /\ \A op \in client'.waits \ client.waits :
             /\ op.sync = self'.sync /\ op.due = committed /\ op.upTo = committed
             /\ \/ /\ op.kind = "completion" /\ op.tag = self.resyncCounter
                   /\ op.ws = self.handlers
                \/ op.kind = "death" /\ op.tag = self'.deathCount /\ op.ws = {}
        /\ self.handlers # {} =>
             \E op \in client'.waits :
               /\ op.kind = "completion" /\ op.sync = self'.sync
               /\ op.tag = self.resyncCounter
    BY <1>3, <1>5, ActivateShapes
  <2>2. Typed'
    BY <1>1, <1>2, <1>3, <1>4, <2>1 DEF Typed
  <2>3. TypeOK'
    <3>1. (Typed => TypeOK)'
      BY TypedOK, PTL
    <3> QED
      BY <3>1, <2>2
  <2>4. ShapesOK' /\ TokenIsAskedFor'
    BY <2>1, <2>2 DEF ShapesOK, Typed, TokenIsAskedFor
  <2>5. StatesAreSound'
    BY <1>1, <1>2, <1>5, <2>1 DEF StatesAreSound, Up
  <2>6. VersionsAreSound' /\ CommitsAreAnnounced'
    BY <1>2, <1>4, <2>1 DEF VersionsAreSound, CommitsAreAnnounced, Up
  <2>7. WaitsAreSound'
    <3>1. self.resyncCounter \in Int /\ self.deathCount \in Int
      BY <1>1, CountersTyped
    <3> QED
      BY <1>2, <2>1, <2>2, <3>1, WaitsKept
  <2>8. HandlersAreSound'
    BY <1>2, <2>1, SteadyHandlers
  <2>9. HandlersAreWatched'
    BY <2>1 DEF HandlersAreWatched
  <2>10. WaitersAreSound'
    <3>1. self'.resyncCounter >= self.resyncCounter
      BY <1>1, <2>1, CountersTyped
    <3>2. \A op \in client'.waits \ client.waits :
            /\ op.sync = self'.sync /\ op.due <= op.upTo
            /\ op.ws = self'.handlers \/ op.ws = {}
            /\ op.kind = "death" => op.ws = {}
      BY <1>4, <2>1
    <3>3. loop'.aside \subseteq loop.aside
      BY <1>2
    <3>4. \A op \in client.waits :
            op.ws \cap self'.handlers \subseteq self.handlers \cup loop.aside
      BY <2>1
    <3> QED
      BY <2>1, <2>2, <2>8, <3>1, <3>2, <3>3, <3>4, WaitersKept
  <2> QED
    BY <2>3, <2>4, <2>5, <2>6, <2>7, <2>8, <2>9, <2>10 DEF SessionInv, NothingIsLeftBehind
<1>6. CASE /\ self.state # "waiting" /\ UNCHANGED <<self, announced>>
           /\ client' = client \/ client' = [client EXCEPT !.running = TRUE]
  <2>1. client' \in ClientType /\ client'.begun = client.begun
        /\ client'.waits = client.waits
    BY <1>1, <1>6 DEF Typed, ClientType
  <2> QED
    BY <1>1, <1>2, <1>3, <1>4, <1>6, <2>1, SessionAlone DEF Typed
<1> QED
  BY <1>5, <1>6 DEF RefreshAccessToken

LEMMA CommitKeeps ==
  ASSUME SessionInv, Commit PROVE SessionInv'
<1>1. Typed /\ StatesAreSound /\ VersionsAreSound /\ WaitsAreSound
  BY InvTyped DEF SessionInv
<1>2. /\ open /\ committed < MaxCommits /\ committed' = committed + 1
      /\ self' = (IF self.state = "waiting"
                  THEN [self EXCEPT !.deferredCommit = committed'] ELSE self)
      /\ announced' = (IF self.state = "active" THEN committed' ELSE announced)
      /\ open' = open /\ requests' = requests /\ client' = client /\ loop' = loop
      /\ uploaded' = uploaded /\ told' = told /\ aborted' = aborted
      /\ overtaken' = overtaken
  BY DEF Commit
<1>3. uploaded <= announced /\ announced <= committed /\ uploaded \in 0 .. MaxCommits
      /\ announced \in 0 .. MaxCommits /\ committed \in 0 .. MaxCommits
  BY <1>1 DEF Typed, VersionsAreSound
<1>4. committed' \in 0 .. MaxCommits /\ committed' # 0 /\ announced' \in 0 .. MaxCommits
      /\ uploaded' <= announced' /\ announced' <= committed'
  BY <1>2, <1>3, Numbers
<1>5. /\ self' \in SessionType
      /\ self'.state = self.state /\ self'.sync = self.sync
      /\ self'.deferredClose = self.deferredClose
      /\ self'.deathCount = self.deathCount /\ self'.resyncCounter = self.resyncCounter
      /\ self'.handlers = self.handlers
      /\ self'.deferredCommit =
           (IF self.state = "waiting" THEN committed' ELSE self.deferredCommit)
  <2>1. self \in SessionType
    BY <1>1 DEF Typed
  <2>2. CASE self.state = "waiting"
    BY <1>2, <1>4, <2>1, <2>2 DEF SessionType
  <2>3. CASE self.state # "waiting"
    BY <1>2, <2>1, <2>3
  <2> QED
    BY <2>2, <2>3
<1>6. Typed'
  BY <1>1, <1>2, <1>3, <1>4, <1>5 DEF Typed
<1>7. TypeOK'
  <2>1. (Typed => TypeOK)'
    BY TypedOK, PTL
  <2> QED
    BY <2>1, <1>6
<1>8. self.state # "dying"
  BY <1>1, <1>2 DEF StatesAreSound
<1>9. ShapesOK'
  BY <1>2, <1>5, <1>6 DEF SessionInv, ShapesOK, Typed
<1>10. StatesAreSound'
  BY <1>1, <1>2, <1>5, <1>8 DEF StatesAreSound, Up
<1>11. VersionsAreSound'
  BY <1>1, <1>2, <1>4, <1>5, <1>8 DEF VersionsAreSound, Up
<1>12. WaitsAreSound' /\ WaitersAreSound'
  BY <1>1, <1>2, <1>5, <1>8 DEF SessionInv, WaitsAreSound, WaitersAreSound, Dies
<1>13. HandlersAreSound'
  BY <1>2, <1>5, SteadyHandlers
<1>14. HandlersAreWatched'
  BY <1>2, <1>5, SteadyWatch
<1>15. TokenIsAskedFor' /\ CommitsAreAnnounced'
  BY <1>2, <1>5, <1>11
     DEF SessionInv, NothingIsLeftBehind, TokenIsAskedFor, CommitsAreAnnounced
<1> QED
  BY <1>7, <1>9, <1>10, <1>11, <1>12, <1>13, <1>14, <1>15 DEF SessionInv, NothingIsLeftBehind

LEMMA WaitForUploadKeeps ==
  ASSUME SessionInv, NEW w \in Waiters, WaitForUpload(w), Bounded PROVE SessionInv'
<1>1. Typed /\ StatesAreSound /\ HandlersAreSound /\ VersionsAreSound
  BY InvTyped DEF SessionInv
<1>2. /\ told[w] = "nothing" /\ w \notin self.handlers \cup loop.aside
      /\ self' = [self EXCEPT !.handlers = @ \cup {w}]
      /\ open' = open /\ requests' = requests /\ loop' = loop /\ told' = told
      /\ committed' = committed /\ announced' = announced /\ uploaded' = uploaded
      /\ aborted' = aborted /\ overtaken' = overtaken
      /\ \A op \in client.waits : w \notin op.ws
  BY DEF WaitForUpload, versions
<1>3. self \in SessionType /\ client \in ClientType /\ announced \in Nat
      /\ client.begun \in Int /\ committed \in Nat
  BY <1>1, Numbers DEF Typed, ClientType
<1>4. /\ self' \in SessionType
      /\ self'.state = self.state /\ self'.sync = self.sync
      /\ self'.deferredClose = self.deferredClose
      /\ self'.deferredCommit = self.deferredCommit
      /\ self'.deathCount = self.deathCount /\ self'.resyncCounter = self.resyncCounter
      /\ self'.handlers = self.handlers \cup {w}
  BY <1>2, <1>3 DEF SessionType
<1>5. /\ client' \in ClientType /\ client'.begun >= client.begun
      /\ client.waits \subseteq client'.waits
      /\ \A op \in client'.waits \ client.waits :
           /\ op.kind = "completion" /\ op.tag = self.resyncCounter
           /\ op.sync = self.sync /\ op.ws = {w} /\ op.due = committed
           /\ op.upTo = announced /\ Up /\ self.handlers = {}
      /\ self.handlers = {} /\ Up =>
           \E op \in client'.waits :
             /\ op.kind = "completion" /\ op.sync = self.sync
             /\ op.tag = self.resyncCounter
  <2> DEFINE ws == {w}
             n == Waiting(client, "completion", self.sync, self.resyncCounter,
                          announced, ws)
  <2>1. CASE self.handlers = {} /\ Up
    <3>1. client' = n
      BY <2>1 DEF WaitForUpload
    <3>2. n.begun <= MaxWaits
      BY <3>1 DEF Bounded
    <3>3. self.sync \in Nat \ {0} /\ self.resyncCounter \in Nat
      BY <1>1, <1>3, <2>1, Numbers DEF StatesAreSound, SessionType
    <3>4. "completion" \in Kinds
      BY DEF Kinds
    <3>5. client \in ClientType /\ announced \in Nat /\ "completion" \in Kinds
          /\ self.sync \in Nat \ {0} /\ self.resyncCounter \in Nat
          /\ n.begun <= MaxWaits /\ committed \in Nat /\ ws \in SUBSET Waiters
      BY <1>3, <3>2, <3>3, <3>4
    <3>7. ws = {w}
      OBVIOUS
    <3> HIDE DEF ws
    <3>6. /\ n \in ClientType
          /\ n.begun = client.begun + 1
          /\ n.made = client.made /\ n.ending = client.ending
          /\ n.running = client.running
          /\ \E op \in Wait :
               /\ op.kind = "completion" /\ op.sync = self.sync
               /\ op.tag = self.resyncCounter /\ op.upTo = announced
               /\ op.ws = ws /\ op.due = committed
               /\ n.waits = client.waits \cup {op}
      BY ONLY <3>5, WaitingAdds
    <3> HIDE DEF n
    <3> QED
      BY <1>3, <2>1, <3>1, <3>6, <3>7
  <2>2. CASE ~(self.handlers = {} /\ Up)
    BY <1>3, <2>2 DEF WaitForUpload
  <2> QED
    BY <2>1, <2>2
<1>6. Typed'
  BY <1>1, <1>2, <1>4, <1>5 DEF Typed
<1>7. HandlersAreSound'
  BY <1>1, <1>2, <1>4 DEF HandlersAreSound
<1>8. HandlersAreWatched'
  <2>1. CASE self.handlers = {}
    BY <2>1, <1>4, <1>5 DEF HandlersAreWatched, Up
  <2>2. CASE self.handlers # {}
    BY <2>2, <1>2, <1>4, <1>5 DEF SessionInv, NothingIsLeftBehind, HandlersAreWatched, Up
  <2> QED
    BY <2>1, <2>2
<1>9. self.state = "dying" => ~open'
  BY <1>1, <1>2 DEF StatesAreSound
<1>10. self.state = "waiting" /\ self'.deferredClose => ~open'
  BY <1>1, <1>2, <1>4 DEF StatesAreSound
<1>11. uploaded' <= announced /\ requests' >= requests
  BY <1>1, <1>2 DEF VersionsAreSound, Typed
<1>12. \A op \in client.waits : op.ws \cap self'.handlers \subseteq self.handlers
  BY <1>2, <1>4
<1>13. \A op \in client'.waits \ client.waits :
         /\ op.kind = "completion" /\ op.tag = self.resyncCounter
         /\ op.sync = self.sync /\ op.ws = self'.handlers /\ op.due <= op.upTo
  <2>1. Up => announced = committed
    BY <1>1 DEF VersionsAreSound
  <2> QED
    BY <2>1, <1>3, <1>4, <1>5
<1>14. loop'.aside \subseteq loop.aside
  BY <1>2
<1> QED
  BY <1>2, <1>4, <1>5, <1>6, <1>7, <1>8, <1>9, <1>10, <1>11, <1>12, <1>13, <1>14, SteadyKeeps

-------------------------------------------------------------------------------
\* What the event loop thread does keeps the invariant.

LEMMA UploadKeeps ==
  ASSUME SessionInv, Upload PROVE SessionInv'
<1>1. Typed
  BY InvTyped
<1>2. uploaded < announced /\ uploaded' = uploaded + 1
  BY DEF Upload
<1>3. uploaded' \in 0 .. MaxCommits /\ uploaded' <= announced
  BY <1>1, <1>2, Numbers DEF Typed
<1> QED
  BY <1>1, <1>3, SessionAlone DEF Upload, Typed

LEMMA TerminateKeeps ==
  ASSUME SessionInv, Terminate PROVE SessionInv'
<1>1. Typed /\ VersionsAreSound
  BY InvTyped DEF SessionInv
<1>2. PICK s \in client.ending : client' = [client EXCEPT !.ending = @ \ {s}]
  BY DEF Terminate
<1>3. client' \in ClientType /\ client'.begun = client.begun
      /\ client'.waits = client.waits
  BY <1>1, <1>2 DEF Typed, ClientType
<1> QED
  BY <1>1, <1>3, SessionAlone DEF Terminate, versions, Typed, VersionsAreSound

\* What remains of the client when a wait was called back.
LEMMA WithoutType ==
  ASSUME Typed, NEW op
  PROVE  /\ Without(op) \in ClientType /\ Without(op).begun = client.begun
         /\ Without(op).waits = client.waits \ {op}
BY DEF Typed, ClientType, Without

LEMMA DeathComesKeeps ==
  ASSUME SessionInv, NEW op \in client.waits, DeathComes(op) PROVE SessionInv'
<1>1. Typed /\ VersionsAreSound /\ StatesAreSound
  BY InvTyped DEF SessionInv
<1>2. /\ Without(op) \in ClientType /\ Without(op).begun = client.begun
      /\ Without(op).waits = client.waits \ {op}
  BY <1>1, WithoutType
<1>3. op.kind = "death" /\ open' = open /\ loop' = loop /\ overtaken' = overtaken
      /\ committed' = committed /\ announced' = announced /\ uploaded' = uploaded
  BY DEF DeathComes, versions
<1>4. CASE Dies(op)
  <2>1. EnterInactive(Without(op), self, {})
    BY <1>4 DEF DeathComes
  <2> QED
    BY <1>1, <1>2, <1>3, <2>1, InactiveKeeps DEF Typed, versions
<1>5. CASE ~Dies(op)
  <2>1. client' = Without(op) /\ self' = self /\ requests' = requests /\ told' = told
        /\ aborted' = aborted
    BY <1>5 DEF DeathComes
  <2>2. Typed'
    BY <1>1, <1>2, <1>3, <2>1 DEF Typed
  <2>3. HandlersAreWatched' /\ HandlersAreSound'
    BY <1>2, <1>3, <2>1, SteadyWatch, SteadyHandlers
  <2>4. self.state = "dying" => ~open'
    BY <1>1, <1>3 DEF StatesAreSound
  <2>5. self.state = "waiting" /\ self'.deferredClose => ~open'
    BY <1>1, <1>3, <2>1 DEF StatesAreSound
  <2>6. uploaded' <= announced /\ requests' >= requests /\ client'.begun >= client.begun
    BY <1>1, <1>2, <1>3, <2>1 DEF VersionsAreSound, Typed, ClientType
  <2> QED
    BY <1>2, <1>3, <2>1, <2>2, <2>3, <2>4, <2>5, <2>6, SteadyKeeps
<1> QED
  BY <1>4, <1>5

LEMMA CompletionComesKeeps ==
  ASSUME SessionInv, loop = Idle, NEW op \in client.waits, CompletionComes(op)
  PROVE  SessionInv'
<1>1. Typed /\ VersionsAreSound /\ StatesAreSound /\ HandlersAreSound /\ WaitsAreSound
  BY InvTyped DEF SessionInv
<1>2. /\ Without(op) \in ClientType /\ Without(op).begun = client.begun
      /\ Without(op).waits = client.waits \ {op}
  BY <1>1, WithoutType
<1>3. op.kind = "completion" /\ open' = open /\ loop' = loop /\ requests' = requests
      /\ committed' = committed /\ announced' = announced /\ uploaded' = uploaded
      /\ aborted' = aborted /\ overtaken' = overtaken /\ client' = Without(op)
      /\ self' = (IF Answers(op) THEN [self EXCEPT !.handlers = {}] ELSE self)
  BY DEF CompletionComes, versions
<1>4. loop.at # "restore" /\ loop.aside = {}
  BY DEF Idle
<1>5. /\ self' \in SessionType
      /\ self'.state = self.state /\ self'.sync = self.sync
      /\ self'.deferredClose = self.deferredClose
      /\ self'.deferredCommit = self.deferredCommit
      /\ self'.deathCount = self.deathCount /\ self'.resyncCounter = self.resyncCounter
      /\ self'.handlers = IF Answers(op) THEN {} ELSE self.handlers
  BY <1>1, <1>3 DEF Typed, SessionType
<1>6. told' \in ToldType /\ (~Answers(op) => told' = told)
  <2>1. PICK outcome \in Outcomes(op) :
          told' = IF Answers(op) THEN Told(self.handlers, outcome) ELSE told
    BY DEF CompletionComes
  <2>2. outcome \in {"ok", "aborted"}
    BY <2>1 DEF Outcomes
  <2> QED
    BY <1>1, <2>1, <2>2 DEF Typed, ToldType, Told
<1>7. Typed'
  BY <1>1, <1>2, <1>3, <1>5, <1>6 DEF Typed
<1>8. HandlersAreSound'
  BY <1>3, <1>4, <1>5, <1>6, SteadyHandlers
<1>9. HandlersAreWatched'
  <2>1. CASE Answers(op)
    BY <1>3, <1>5, <2>1, SteadyWatch
  <2>2. CASE ~Answers(op)
    <3>1. op.tag # self.resyncCounter
      BY <2>2 DEF Answers
    <3>2. \A e \in client.waits : e.tag = self.resyncCounter => e \in client'.waits
      BY <1>2, <1>3, <3>1
    <3> QED
      BY <1>3, <1>5, <2>2, <3>2, SteadyWatch
  <2> QED
    BY <2>1, <2>2
<1>10. self.state = "dying" => ~open'
  BY <1>1, <1>3 DEF StatesAreSound
<1>11. self.state = "waiting" /\ self'.deferredClose => ~open'
  BY <1>1, <1>3, <1>5 DEF StatesAreSound
<1>12. uploaded' <= announced /\ requests' >= requests /\ client'.begun >= client.begun
  BY <1>1, <1>2, <1>3 DEF VersionsAreSound, Typed, ClientType
<1> QED
  BY <1>2, <1>3, <1>5, <1>7, <1>8, <1>9, <1>10, <1>11, <1>12, SteadyKeeps

LEMMA WaitEndsKeeps ==
  ASSUME SessionInv, WaitEnds PROVE SessionInv'
BY DeathComesKeeps, CompletionComesKeeps DEF WaitEnds

LEMMA TakeErrorKeeps ==
  ASSUME SessionInv, NEW kind \in ErrorKinds, TakeError(kind) PROVE SessionInv'
<1>1. Typed /\ VersionsAreSound /\ StatesAreSound /\ HandlersAreSound
  BY InvTyped DEF SessionInv
<1>2. open' = open /\ committed' = committed /\ announced' = announced
      /\ uploaded' = uploaded /\ loop = Idle /\ overtaken' = overtaken
  BY DEF TakeError, versions
<1>3. loop.at # "restore" /\ loop.aside = {}
  BY <1>2 DEF Idle
<1>4. CASE self.state = "dying" /\ kind # "token_expired"
  <2>1. EnterInactive(client, self, {}) /\ loop' = loop
    BY <1>4 DEF TakeError
  <2> QED
    BY <1>1, <1>2, <2>1, InactiveKeeps DEF Typed, versions
<1>5. CASE ~(self.state = "dying" /\ kind # "token_expired")
  <2>1. client' = [client EXCEPT !.running = FALSE] /\ self' = self
        /\ requests' = requests /\ told' = told /\ aborted' = aborted
        /\ loop' = (IF self.state = "dying" THEN Idle
                    ELSE [Idle EXCEPT !.at = "act", !.kind = kind])
    BY <1>5 DEF TakeError
  <2>2. client' \in ClientType /\ client'.begun = client.begun
        /\ client'.waits = client.waits
    BY <1>1, <2>1 DEF Typed, ClientType
  <2>3. loop' \in LoopType /\ loop'.at # "restore" /\ loop'.aside = {}
    BY <2>1 DEF Idle, LoopType
  <2>4. Typed'
    BY <1>1, <1>2, <2>1, <2>2, <2>3 DEF Typed
  <2>5. HandlersAreWatched' /\ HandlersAreSound'
    BY <1>2, <1>3, <2>1, <2>2, <2>3, SteadyWatch, SteadyHandlers
  <2>6. self.state = "dying" => ~open'
    BY <1>1, <1>2 DEF StatesAreSound
  <2>7. self.state = "waiting" /\ self'.deferredClose => ~open'
    BY <1>1, <1>2, <2>1 DEF StatesAreSound
  <2>8. uploaded' <= announced /\ requests' >= requests /\ client'.begun >= client.begun
    BY <1>1, <1>2, <2>1, <2>2 DEF VersionsAreSound, Typed, ClientType
  <2> QED
    BY <1>2, <2>1, <2>2, <2>4, <2>5, <2>6, <2>7, <2>8, SteadyKeeps
<1> QED
  BY <1>4, <1>5

\* A step of handle_error that leaves the session where it is: the object was
\* replaced, has closed meanwhile, or only its handlers are cancelled.
LEMMA ErrorPasses ==
  ASSUME SessionInv, loop.at = "act", loop' = Idle, UNCHANGED <<open, versions, overtaken>>,
         UNCHANGED <<requests, client>>, aborted' \in BOOLEAN,
         \/ self' = self /\ told' = told
         \/ /\ self' = [self EXCEPT !.handlers = {}]
            /\ told' = Told(self.handlers, "aborted")
  PROVE  SessionInv'
<1>1. Typed /\ VersionsAreSound /\ StatesAreSound /\ HandlersAreSound
  BY InvTyped DEF SessionInv
<1>2. open' = open /\ committed' = committed /\ announced' = announced
      /\ uploaded' = uploaded /\ requests' = requests /\ client' = client
      /\ overtaken' = overtaken
  BY DEF versions
<1>3. /\ self' \in SessionType
      /\ self'.state = self.state /\ self'.sync = self.sync
      /\ self'.deferredClose = self.deferredClose
      /\ self'.deferredCommit = self.deferredCommit
      /\ self'.deathCount = self.deathCount /\ self'.resyncCounter = self.resyncCounter
      /\ \/ self'.handlers = self.handlers /\ told' = told
         \/ self'.handlers = {}
  BY <1>1 DEF Typed, SessionType
<1>4. told' \in ToldType
  BY <1>1 DEF Typed, ToldType, Told
<1>5. loop.aside = {} /\ loop' \in LoopType /\ loop'.at # "restore" /\ loop'.aside = {}
  BY <1>1 DEF HandlersAreSound, Idle, LoopType
<1>6. Typed'
  BY <1>1, <1>2, <1>3, <1>4, <1>5 DEF Typed
<1>7. HandlersAreWatched'
  BY <1>2, <1>3, SteadyWatch
<1>8. HandlersAreSound'
  BY <1>3, <1>5, SteadyHandlers
<1>9. self.state = "dying" => ~open'
  BY <1>1, <1>2 DEF StatesAreSound
<1>10. self.state = "waiting" /\ self'.deferredClose => ~open'
  BY <1>1, <1>2, <1>3 DEF StatesAreSound
<1>11. uploaded' <= announced /\ requests' >= requests /\ client'.begun >= client.begun
  BY <1>1, <1>2 DEF VersionsAreSound, Typed, ClientType
<1> QED
  BY <1>2, <1>3, <1>5, <1>6, <1>7, <1>8, <1>9, <1>10, <1>11, SteadyKeeps

\* A token that expired: the session waits for a new one with what it has.
LEMMA ExpireKeeps ==
  ASSUME SessionInv, Bounded, loop' = Idle, loop.at = "act",
         UNCHANGED <<open, versions, told, overtaken, aborted>>,
         self.state = "active", EnterWaiting(self)
  PROVE  SessionInv'
<1>1. Typed /\ VersionsAreSound /\ StatesAreSound /\ HandlersAreSound
  BY InvTyped DEF SessionInv
<1>2. open' = open /\ committed' = committed /\ announced' = announced
      /\ uploaded' = uploaded /\ told' = told /\ aborted' = aborted
      /\ client' = client /\ requests' = requests + 1 /\ requests' <= MaxRequests
      /\ overtaken' = overtaken
      /\ self' = [self EXCEPT !.state = "waiting", !.deferredClose = FALSE]
  BY DEF versions, EnterWaiting, Bounded
<1>3. /\ self' \in SessionType
      /\ self'.state = "waiting" /\ self'.sync = self.sync /\ ~self'.deferredClose
      /\ self'.deferredCommit = self.deferredCommit /\ self'.handlers = self.handlers
      /\ self'.deathCount = self.deathCount /\ self'.resyncCounter = self.resyncCounter
  BY <1>1, <1>2 DEF Typed, SessionType, States
<1>4. requests \in 0 .. MaxRequests /\ requests' \in 0 .. MaxRequests /\ requests' > 0
  BY <1>1, <1>2, Numbers DEF Typed
<1>5. loop.aside = {} /\ loop' \in LoopType /\ loop'.at # "restore" /\ loop'.aside = {}
  BY <1>1 DEF HandlersAreSound, Idle, LoopType
<1>6. Typed'
  BY <1>1, <1>2, <1>3, <1>4, <1>5 DEF Typed
<1>7. TypeOK'
  <2>1. (Typed => TypeOK)'
    BY TypedOK, PTL
  <2> QED
    BY <2>1, <1>6
<1>8. ShapesOK'
  BY <1>2, <1>3, <1>6 DEF SessionInv, ShapesOK, Typed
<1>9. StatesAreSound' /\ HandlersAreWatched' /\ TokenIsAskedFor' /\ CommitsAreAnnounced'
  BY <1>3, <1>4
     DEF StatesAreSound, HandlersAreWatched, TokenIsAskedFor, CommitsAreAnnounced, Up
<1>10. VersionsAreSound'
  BY <1>1, <1>2, <1>3 DEF VersionsAreSound, StatesAreSound, Up
<1>11. WaitsAreSound'
  <2>1. self.resyncCounter \in Int /\ self.deathCount \in Int
    BY <1>1, CountersTyped
  <2> QED
    BY <1>2, <1>3, <1>6, <2>1, WaitsKept
<1>12. HandlersAreSound'
  BY <1>2, <1>3, <1>5, SteadyHandlers
<1>13. WaitersAreSound'
  BY <1>2, <1>3, <1>5 DEF SessionInv, WaitersAreSound
<1> QED
  BY <1>7, <1>8, <1>9, <1>10, <1>11, <1>12, <1>13 DEF SessionInv, NothingIsLeftBehind

LEMMA ActOnErrorKeeps ==
  ASSUME SessionInv, ActOnError, Bounded PROVE SessionInv'
<1>1. Typed /\ HandlersAreSound
  BY InvTyped DEF SessionInv
<1>2. loop.at = "act" /\ UNCHANGED <<open, versions, overtaken>> /\ loop.aside = {}
  BY <1>1 DEF ActOnError, HandlersAreSound
<1>3. client \in ClientType /\ open' \in BOOLEAN
  BY <1>1, <1>2 DEF Typed
<1> DEFINE resyncs == loop.kind = "client_reset" /\ ResyncMode = "Recover"
<1>4. /\ loop' = (IF resyncs /\ ~Gone
                  THEN [Idle EXCEPT !.at = "restore", !.aside = self.handlers] ELSE Idle)
      /\ \/ loop.kind = "token_expired" /\ Expire
         \/ loop.kind = "fatal" /\ CancelWaits
         \/ resyncs /\ Resync
         \/ ~resyncs /\ Deny
  BY DEF ActOnError
<1>5. CASE loop.kind = "token_expired" /\ Expire
  <2>1. loop' = Idle /\ told' = told /\ aborted' = aborted
    BY <1>4, <1>5 DEF Expire
  <2>2. CASE self.state = "active" /\ EnterWaiting(self)
    BY <1>2, <2>1, <2>2, ExpireKeeps
  <2>3. CASE UNCHANGED <<self, requests, client>>
    BY <1>1, <1>2, <2>1, <2>3, ErrorPasses DEF Typed
  <2> QED
    BY <1>5, <2>2, <2>3 DEF Expire
<1>6. CASE loop.kind = "fatal" /\ CancelWaits
  <2>1. loop' = Idle
    BY <1>4, <1>6
  <2>2. UNCHANGED <<requests, client>> /\ aborted' \in BOOLEAN
    BY <1>1, <1>6 DEF CancelWaits, Typed
  <2>3. \/ self' = self /\ told' = told
        \/ /\ self' = [self EXCEPT !.handlers = {}]
           /\ told' = Told(self.handlers, "aborted")
    <3>1. CASE loop.old
      <4>1. self' = [self EXCEPT !.handlers = self.handlers] /\ told' = Told({}, "aborted")
        BY <1>6, <3>1 DEF CancelWaits
      <4>2. self' = self
        BY <1>1, <4>1 DEF Typed, SessionType
      <4>3. told' = told
        BY <1>1, <4>1 DEF Typed, ToldType, Told
      <4> QED
        BY <4>2, <4>3
    <3>2. CASE ~loop.old
      BY <1>6, <3>2 DEF CancelWaits
    <3> QED
      BY <3>1, <3>2
  <2> QED
    BY <1>2, <2>1, <2>2, <2>3, ErrorPasses
<1>7. CASE Gone /\ Abort
  <2>1. loop' = Idle
    BY <1>4, <1>7
  <2> QED
    BY <1>2, <1>7, <2>1, ErrorPasses DEF Abort
<1>8. CASE ~Gone /\ ~resyncs /\ EnterInactive(client, self, {})
  <2>1. loop' = Idle
    BY <1>4, <1>8
  <2>2. loop' \in LoopType /\ loop'.aside = loop.aside
        /\ (loop'.at = "restore" <=> loop.at = "restore")
    BY <1>1, <1>2, <2>1 DEF Idle, LoopType, Typed
  <2> QED
    BY <1>2, <1>3, <1>8, <2>2, InactiveKeeps
<1>9. CASE /\ ~Gone /\ resyncs
           /\ EnterInactive(client, [self EXCEPT !.resyncCounter = @ + 1], self.handlers)
  <2>1. loop' = [Idle EXCEPT !.at = "restore", !.aside = self.handlers]
    BY <1>4, <1>9
  <2>2. loop' \in LoopType /\ loop'.at = "restore" /\ loop'.aside = self.handlers
    BY <1>1, <2>1, Fields DEF Idle, LoopType
  <2>3. client.waits \subseteq client.waits /\ client.begun = client.begun
    OBVIOUS
  <2> QED
    BY <1>2, <1>3, <1>9, <2>2, <2>3, InactiveKeeps
<1> QED
  BY <1>4, <1>5, <1>6, <1>7, <1>8, <1>9 DEF Resync, Deny

LEMMA RestoreKeeps ==
  ASSUME SessionInv, Restore, Bounded PROVE SessionInv'
<1>1. Typed /\ HandlersAreSound /\ VersionsAreSound /\ StatesAreSound
  BY InvTyped DEF SessionInv
<1>2. loop.at = "restore" /\ loop' = Idle /\ open' = open /\ aborted' = aborted
      /\ committed' = committed /\ announced' = announced /\ uploaded' = uploaded
  BY DEF Restore, versions
<1>3. loop' \in LoopType /\ loop'.at # "restore" /\ loop'.aside = {}
  BY <1>2 DEF Idle, LoopType
<1>4. CASE loop.old
  <2>1. self' = self /\ requests' = requests /\ client' = client /\ told' = told
        /\ overtaken' = overtaken
    BY <1>2, <1>4 DEF Restore
  <2>2. Typed'
    BY <1>1, <1>2, <1>3, <2>1 DEF Typed
  <2>3. HandlersAreWatched'
    BY <2>1, SteadyWatch
  <2>4. HandlersAreSound'
    BY <1>1, <1>3, <2>1 DEF HandlersAreSound
  <2>5. self.state = "dying" => ~open'
    BY <1>1, <1>2 DEF StatesAreSound
  <2>6. self.state = "waiting" /\ self'.deferredClose => ~open'
    BY <1>1, <1>2, <2>1 DEF StatesAreSound
  <2>7. uploaded' <= announced /\ requests' >= requests /\ client'.begun >= client.begun
    BY <1>1, <1>2, <2>1 DEF VersionsAreSound, Typed, ClientType
  <2> QED
    BY <1>2, <1>3, <2>1, <2>2, <2>3, <2>4, <2>5, <2>6, <2>7, SteadyKeeps
<1>5. CASE ~loop.old
  <2> DEFINE o == [self EXCEPT !.handlers = loop.aside]
  <2>1. Revive(o) /\ told' = told
    BY <1>2, <1>5 DEF Restore
  <2>2. /\ o \in SessionType /\ o.state = self.state /\ o.sync = self.sync
        /\ o.deferredClose = self.deferredClose
        /\ o.deferredCommit = self.deferredCommit /\ o.deathCount = self.deathCount
        /\ o.resyncCounter = self.resyncCounter /\ o.handlers = loop.aside
    BY <1>1, Fields DEF Typed, SessionType
  <2>3. /\ self.state = "active" => loop.aside \subseteq overtaken'
        /\ overtaken' \subseteq Waiters
    BY <1>1, <1>5, Fields DEF Restore, Typed
  <2>4. told' \in ToldType /\ loop'.aside \subseteq loop.aside
    BY <1>1, <1>3, <2>1 DEF Typed
  <2>5. self'.handlers = o.handlers => HandlersAreSound'
    <3>1. \A w \in loop.aside : told'[w] = "nothing"
      BY <1>1, <2>1 DEF HandlersAreSound
    <3> QED
      BY <1>3, <2>2, <3>1 DEF HandlersAreSound
  <2>6. UNCHANGED versions /\ open' \in BOOLEAN /\ aborted' \in BOOLEAN
    BY <1>1, <1>2 DEF Typed, versions
  <2> HIDE DEF o
  <2> QED
    BY <1>3, <2>1, <2>2, <2>3, <2>4, <2>5, <2>6, ReviveKeeps
<1> QED
  BY <1>4, <1>5

LEMMA NextKeeps ==
  SessionInv /\ [Next]_vars => SessionInv'
<1> SUFFICES ASSUME SessionInv, [Next]_vars PROVE SessionInv'
  OBVIOUS
<1>1. CASE OpenRealm /\ Bounded
  BY <1>1, OpenRealmKeeps
<1>2. CASE CloseRealm /\ Bounded
  BY <1>2, CloseRealmKeeps
<1>3. CASE LogOut
  BY <1>3, LogOutKeeps
<1>4. CASE Resume /\ Bounded
  BY <1>4, ResumeKeeps
<1>5. CASE HandleReconnect /\ Bounded
  BY <1>5, HandleReconnectKeeps
<1>6. CASE RefreshAccessToken /\ Bounded
  BY <1>6, RefreshAccessTokenKeeps
<1>7. CASE Commit
  BY <1>7, CommitKeeps
<1>8. CASE Bounded /\ \E w \in Waiters : WaitForUpload(w)
  BY <1>8, WaitForUploadKeeps
<1>9. CASE Upload
  BY <1>9, UploadKeeps
<1>10. CASE WaitEnds
  BY <1>10, WaitEndsKeeps
<1>11. CASE Terminate
  BY <1>11, TerminateKeeps
<1>12. CASE \E kind \in ErrorKinds : TakeError(kind)
  BY <1>12, TakeErrorKeeps
<1>13. CASE ActOnError /\ Bounded
  BY <1>13, ActOnErrorKeeps
<1>14. CASE Restore /\ Bounded
  BY <1>14, RestoreKeeps
<1>15. CASE UNCHANGED vars
  BY <1>15
     DEF vars, versions, SessionInv, NothingIsLeftBehind, TypeOK, HandlersAreWatched,
         TokenIsAskedFor, CommitsAreAnnounced, ShapesOK, StatesAreSound,
         VersionsAreSound, WaitsAreSound, HandlersAreSound, WaitersAreSound, Up, Dies
<1> QED
  BY <1>1, <1>2, <1>3, <1>4, <1>5, <1>6, <1>7, <1>8, <1>9, <1>10, <1>11, <1>12,
     <1>13, <1>14, <1>15 DEF Next, Binding, EventLoop

\* The inductive invariant holds in every reachable state of SyncSession.
THEOREM SessionInvariant == Spec => []SessionInv
BY InitInv, NextKeeps, PTL DEF Spec

\* A session that is up watches the handlers that wait, one that waits for a
\* token has a request that will bring it, and an active one has announced every
\* commit, for any number of waiters, commits, errors, deaths and revivals.
THEOREM NothingLeftBehind == Spec => []NothingIsLeftBehind
<1>1. SessionInv => NothingIsLeftBehind
  BY DEF SessionInv
<1> QED
  BY <1>1, SessionInvariant, PTL

-------------------------------------------------------------------------------
\* What a step does to handlers and to what they were told.

\* Reviving a session leaves its handlers alone and forgets no wait.
LEMMA ReviveSpares ==
  ASSUME Typed, NEW o \in SessionType, Revive(o), Bounded, o.state = "dying" => o.sync # 0
  PROVE  self'.handlers = o.handlers /\ client.waits \subseteq client'.waits
<1>1. self'.handlers = o.handlers
  BY DEF Revive, EnterWaiting, SessionType
<1>2. CASE client' = Watching(client, o, announced) /\ o.sync # 0
  <2>1. announced \in Nat /\ committed \in Nat /\ client \in ClientType
        /\ Watching(client, o, announced).begun <= MaxWaits
    BY <1>2, Numbers DEF Typed, Bounded
  <2> QED
    BY <1>1, <1>2, <2>1, WatchingAdds
<1>3. CASE client' = client
  BY <1>1, <1>3
<1> QED
  BY <1>2, <1>3 DEF Revive, EnterWaiting

\* Handlers that wait in the session or aside.
Pending == self.handlers \cup loop.aside

\* Some handlers of the session, and no others, are told something; those that
\* are told nothing stay or are set aside.
TellsSome ==
  \E ws \in SUBSET self.handlers, outcome \in {"ok", "aborted"} :
    /\ told' = Told(ws, outcome)
    /\ Pending \subseteq Pending' \cup ws

\* Nobody is told anything, and no handler leaves but those of an object that is
\* gone and those that a resync writes over.
TellsNone ==
  /\ told' = told
  /\ \A w \in Pending \ Pending' :
       \/ ~self.registered
       \/ loop.at = "restore" /\ (loop.old \/ w \notin loop.aside)

LEMMA InactiveTells ==
  ASSUME Typed, NEW c \in ClientType, NEW o, NEW hold, EnterInactive(c, o, hold),
         o.handlers = self.handlers, hold \subseteq loop'.aside,
         loop.aside \subseteq loop'.aside
  PROVE  TellsSome /\ client'.waits = c.waits
<1>1. told' = Told(self.handlers \ hold, "aborted")
  BY DEF EnterInactive
<1>2. TellsSome
  BY <1>1 DEF TellsSome, Pending
<1>3. client'.waits = c.waits
  BY DEF EnterInactive, ClientType
<1> QED
  BY <1>2, <1>3

\* What the binding does tells handlers only when the session becomes inactive,
\* and then no wait is forgotten.
LEMMA BindingTells ==
  ASSUME SessionInv, Binding, Bounded
  PROVE  TellsNone \/ (TellsSome /\ client'.waits = client.waits)
<1>1. Typed /\ StatesAreSound
  BY InvTyped DEF SessionInv
<1>2. self \in SessionType /\ client \in ClientType /\ {} \subseteq loop'.aside
      /\ (self.state = "dying" => self.sync # 0)
  BY <1>1 DEF Typed, StatesAreSound, Up
<1>3. CASE OpenRealm
  BY <1>1, <1>2, <1>3, ReviveSpares DEF OpenRealm, TellsNone, Pending, Typed, LoopType
<1>4. CASE CloseRealm
  <2>1. CASE EnterInactive(client, self, {})
    BY <1>1, <1>2, <1>4, <2>1, InactiveTells DEF CloseRealm
  <2>2. CASE told' = told
             /\ \/ self' = [self EXCEPT !.deferredClose = TRUE]
                \/ self' = [self EXCEPT !.state = "dying", !.deathCount = @ + 1]
                \/ self' = self
                \/ self' = [self EXCEPT !.registered = FALSE]
    BY <1>2, <1>4, <2>2 DEF TellsNone, Pending, SessionType, CloseRealm
  <2> QED
    BY <1>4, <2>1, <2>2 DEF CloseRealm
<1>5. CASE LogOut
  BY <1>1, <1>2, <1>5, InactiveTells DEF LogOut
<1>6. CASE Resume
  BY <1>1, <1>2, <1>6, ReviveSpares DEF Resume, TellsNone, Pending
<1>7. CASE HandleReconnect
  BY <1>7 DEF HandleReconnect, TellsNone, Pending
<1>8. CASE RefreshAccessToken
  <2>1. CASE self.state = "waiting" /\ Activate
    <3>1. requests' <= MaxRequests
      BY DEF Bounded
    <3>2. self'.handlers = self.handlers
      BY <2>1, <3>1, ActivateShapes
    <3> QED
      BY <1>8, <3>2 DEF RefreshAccessToken, TellsNone, Pending
  <2> QED
    BY <1>8, <2>1 DEF RefreshAccessToken, TellsNone, Pending
<1>9. CASE Commit
  <2>1. self'.handlers = self.handlers
    BY <1>2, <1>9 DEF Commit, SessionType
  <2> QED
    BY <1>9, <2>1 DEF Commit, TellsNone, Pending
<1>10. CASE \E w \in Waiters : WaitForUpload(w)
  BY <1>2, <1>10 DEF WaitForUpload, TellsNone, Pending, SessionType
<1> QED
  BY <1>3, <1>4, <1>5, <1>6, <1>7, <1>8, <1>9, <1>10 DEF Binding

\* Nor is a wait forgotten when the event loop thread tells handlers, but for the
\* one that is called back.
LEMMA EventLoopTells ==
  ASSUME SessionInv, EventLoop, Bounded, ~WaitEnds
  PROVE  TellsNone \/ (TellsSome /\ client.waits \subseteq client'.waits)
<1>1. Typed /\ StatesAreSound /\ HandlersAreSound
  BY InvTyped DEF SessionInv
<1>2. self \in SessionType /\ client \in ClientType /\ {} \subseteq loop'.aside
      /\ (self.state = "dying" => self.sync # 0)
  BY <1>1 DEF Typed, StatesAreSound, Up
<1>3. CASE Upload
  BY <1>3 DEF Upload, TellsNone, Pending
<1>4. CASE Terminate
  BY <1>4 DEF Terminate, TellsNone, Pending
<1>5. CASE \E kind \in ErrorKinds : TakeError(kind)
  <2>1. loop.aside = {}
    BY <1>5 DEF TakeError, Idle
  <2>2. CASE EnterInactive(client, self, {})
    BY <1>1, <1>2, <2>1, <2>2, InactiveTells
  <2>3. CASE UNCHANGED <<self, requests, told, aborted>>
    BY <2>1, <2>3 DEF TellsNone, Pending
  <2> QED
    BY <1>5, <2>2, <2>3 DEF TakeError
<1>6. CASE ActOnError
  <2>6. loop.aside = {}
    BY <1>1, <1>6 DEF ActOnError, HandlersAreSound
  <2>1. CASE Expire
    BY <1>2, <2>1, <2>6 DEF Expire, EnterWaiting, TellsNone, Pending, SessionType
  <2>2. CASE CancelWaits
    <3>1. CASE loop.old
      <4>1. self' = [self EXCEPT !.handlers = self.handlers] /\ told' = Told({}, "aborted")
        BY <2>2, <3>1 DEF CancelWaits
      <4>2. self'.handlers = self.handlers
        BY <1>2, <4>1 DEF SessionType
      <4>3. told' = told
        BY <1>1, <4>1 DEF Typed, ToldType, Told
      <4> QED
        BY <2>6, <4>2, <4>3 DEF TellsNone, Pending
    <3>2. CASE ~loop.old
      <4>1. told' = Told(self.handlers, "aborted") /\ client' = client
        BY <2>2, <3>2 DEF CancelWaits
      <4> QED
        BY <2>6, <4>1 DEF TellsSome, Pending
    <3> QED
      BY <3>1, <3>2
  <2>3. CASE Abort
    BY <2>3, <2>6 DEF Abort, TellsNone, Pending
  <2>4. CASE EnterInactive(client, self, {})
    BY <1>1, <1>2, <2>4, <2>6, InactiveTells
  <2>5. CASE /\ loop.kind = "client_reset" /\ ResyncMode = "Recover" /\ ~Gone
             /\ EnterInactive(client, [self EXCEPT !.resyncCounter = @ + 1], self.handlers)
    <3>1. loop' = [Idle EXCEPT !.at = "restore", !.aside = self.handlers]
      BY <1>6, <2>5 DEF ActOnError
    <3>2. self.handlers \subseteq loop'.aside
      BY <3>1 DEF Idle
    <3>3. [self EXCEPT !.resyncCounter = @ + 1].handlers = self.handlers
      BY <1>2 DEF SessionType
    <3> QED
      BY <1>1, <1>2, <2>5, <2>6, <3>2, <3>3, InactiveTells
  <2> QED
    BY <1>6, <2>1, <2>2, <2>3, <2>4, <2>5 DEF ActOnError, Resync, Deny
<1>7. CASE Restore
  <2>1. CASE loop.old
    BY <1>7, <2>1 DEF Restore, TellsNone, Pending
  <2>2. CASE ~loop.old
    <3> DEFINE o == [self EXCEPT !.handlers = loop.aside]
    <3>1. Revive(o) /\ told' = told /\ loop.at = "restore"
      BY <1>7, <2>2 DEF Restore
    <3>2. o \in SessionType /\ o.handlers = loop.aside
          /\ (o.state = "dying" => o.sync # 0)
      BY <1>1, <1>2, Fields DEF SessionType
    <3> HIDE DEF o
    <3>3. self'.handlers = loop.aside
      BY <1>1, <3>1, <3>2, ReviveSpares
    <3> QED
      BY <3>1, <3>3 DEF TellsNone, Pending
  <2> QED
    BY <2>1, <2>2
<1> QED
  BY <1>3, <1>4, <1>5, <1>6, <1>7 DEF EventLoop

\* The callback of a wait tells all handlers or none.
LEMMA WaitEndsTells ==
  ASSUME SessionInv, WaitEnds PROVE TellsNone \/ TellsSome
<1>1. Typed
  BY InvTyped
<1>2. PICK op \in client.waits : DeathComes(op) \/ CompletionComes(op)
  BY DEF WaitEnds
<1>3. CASE DeathComes(op)
  <2>1. Without(op) \in ClientType /\ {} \subseteq loop'.aside /\ loop' = loop
    BY <1>1, <1>3, WithoutType DEF DeathComes
  <2>2. CASE EnterInactive(Without(op), self, {})
    BY <1>1, <2>1, <2>2, InactiveTells
  <2> QED
    BY <1>3, <2>2 DEF DeathComes, TellsNone, Pending
<1>4. CASE CompletionComes(op)
  <2>1. PICK outcome \in Outcomes(op) :
          told' = IF Answers(op) THEN Told(self.handlers, outcome) ELSE told
    BY <1>4 DEF CompletionComes
  <2>2. outcome \in {"ok", "aborted"} /\ loop' = loop
    BY <1>4, <2>1 DEF Outcomes, CompletionComes
  <2>3. CASE Answers(op)
    BY <2>1, <2>2, <2>3 DEF TellsSome, Pending
  <2>4. CASE ~Answers(op)
    BY <1>4, <2>1, <2>4 DEF CompletionComes, TellsNone, Pending
  <2> QED
    BY <2>3, <2>4
<1> QED
  BY <1>2, <1>3, <1>4

\* Every step tells some handlers or none.
LEMMA StepTells ==
  ASSUME SessionInv, [Next]_vars PROVE TellsNone \/ TellsSome
<1>1. CASE UNCHANGED vars
  BY <1>1 DEF vars, TellsNone, Pending
<1> QED
  BY <1>1, BindingTells, EventLoopTells, WaitEndsTells DEF Next

-------------------------------------------------------------------------------
\* Action properties.

\* What a handler was told is never followed by another call.
THEOREM ToldAtMostOnce == Spec => ToldOnce
<1>1. SessionInv /\ [Next]_vars => [\A w \in Waiters : told[w] # "nothing" => told'[w] = told[w]]_vars
  <2> SUFFICES ASSUME SessionInv, [Next]_vars, NEW w \in Waiters, told[w] # "nothing"
               PROVE  told'[w] = told[w]
    OBVIOUS
  <2>1. w \notin self.handlers
    BY DEF SessionInv, HandlersAreSound
  <2>2. CASE TellsNone
    BY <2>2 DEF TellsNone
  <2>3. CASE TellsSome
    BY <2>1, <2>3 DEF TellsSome, Told
  <2> QED
    BY <2>2, <2>3, StepTells
<1> QED
  BY <1>1, SessionInvariant, PTL DEF Spec, ToldOnce

\* A handler that no longer waits was called, but for those of an object that is
\* destroyed or replaced and those that a client resync writes over, which are
\* named in NoneForgotten: no other step loses one.
THEOREM NoneIsForgotten == Spec => NoneForgotten
<1>1. SessionInv /\ [Next]_vars =>
        [\A w \in (self.handlers \cup loop.aside) \ (self'.handlers \cup loop'.aside) :
           told'[w] = "nothing" =>
             \/ ~self.registered
             \/ loop.at = "restore" /\ (loop.old \/ w \notin loop.aside)]_vars
  <2> SUFFICES ASSUME SessionInv, [Next]_vars, NEW w \in Pending \ Pending',
                      told'[w] = "nothing"
               PROVE  \/ ~self.registered
                      \/ loop.at = "restore" /\ (loop.old \/ w \notin loop.aside)
    BY DEF Pending
  <2>1. w \in Waiters
    BY InvTyped, Fields DEF Pending
  <2>2. CASE TellsNone
    BY <2>2 DEF TellsNone
  <2>3. CASE TellsSome
    <3>1. PICK ws \in SUBSET self.handlers, outcome \in {"ok", "aborted"} :
            told' = Told(ws, outcome) /\ Pending \subseteq Pending' \cup ws
      BY <2>3 DEF TellsSome
    <3>2. w \in ws
      BY <3>1
    <3>3. told'[w] \in {"ok", "aborted", "twice"}
      BY <2>1, <3>1, <3>2 DEF Told
    <3> QED
      BY <3>3
  <2> QED
    BY <2>2, <2>3, StepTells
<1> QED
  BY <1>1, SessionInvariant, PTL DEF Spec, NoneForgotten

\* A session that ends because its death was called back has uploaded all that
\* was committed: only the wait of the last death ends it, no wait ends well
\* before its version is uploaded, and nothing was committed since.
THEOREM DeathHasUploaded == Spec => DeathUploadsAll
<1>1. SessionInv /\ [Next]_vars =>
        [WaitEnds /\ self.state = "dying" /\ self'.state = "inactive"
           => uploaded = committed]_vars
  <2> SUFFICES ASSUME SessionInv, WaitEnds, self.state = "dying",
                      self'.state = "inactive"
               PROVE  uploaded = committed
    OBVIOUS
  <2>1. Typed /\ WaitsAreSound /\ VersionsAreSound
    BY InvTyped DEF SessionInv
  <2>2. PICK op \in client.waits : DeathComes(op) \/ CompletionComes(op)
    BY DEF WaitEnds
  <2>3. ~CompletionComes(op)
    BY <2>1 DEF CompletionComes, Typed, SessionType
  <2>4. Dies(op) /\ Outcomes(op) # {}
    BY <2>2, <2>3 DEF DeathComes
  <2>5. op.sync = self.sync /\ op.upTo = committed
    BY <2>1, <2>4 DEF WaitsAreSound
  <2>6. uploaded >= committed
    BY <2>4, <2>5 DEF Outcomes
  <2> QED
    BY <2>1, <2>6 DEF VersionsAreSound, Typed
<1> QED
  BY <1>1, SessionInvariant, PTL DEF Spec, DeathUploadsAll

\* A wait tells the handlers it was begun for only that what was committed when
\* it began is uploaded, and only when it is: the waits of a sync::Session that is
\* gone find no such handler, or a client resync has silenced them.
THEOREM WaitsTellTruth == Spec => WaitsTellTheTruth
<1>1. SessionInv /\ [Next]_vars =>
        [\A op \in client.waits \ client'.waits : \A w \in op.ws :
           told'[w] # told[w] => told'[w] = "ok" /\ uploaded >= op.due]_vars
  <2> SUFFICES ASSUME SessionInv, [Next]_vars, NEW op \in client.waits \ client'.waits,
                      NEW w \in op.ws, told'[w] # told[w]
               PROVE  told'[w] = "ok" /\ uploaded >= op.due
    OBVIOUS
  <2>1. Typed /\ WaitersAreSound /\ HandlersAreSound /\ op \in Wait
    BY InvTyped, CountersTyped DEF SessionInv
  <2>2. CASE WaitEnds
    <3>1. PICK e \in client.waits : DeathComes(e) \/ CompletionComes(e)
      BY <2>2 DEF WaitEnds
    <3>2. Without(e) \in ClientType /\ Without(e).waits = client.waits \ {e}
      BY <2>1, WithoutType
    <3>3. CASE DeathComes(e)
      <4>1. client'.waits = client.waits \ {e}
        BY <3>2, <3>3 DEF DeathComes, EnterInactive, ClientType
      <4>2. op = e
        BY <4>1
      <4> QED
        BY <2>1, <3>3, <4>2 DEF DeathComes, WaitersAreSound
    <3>4. CASE CompletionComes(e)
      <4>1. op = e
        BY <3>2, <3>4 DEF CompletionComes
      <4>2. PICK outcome \in Outcomes(op) :
              told' = IF Answers(op) THEN Told(self.handlers, outcome) ELSE told
        BY <3>4, <4>1 DEF CompletionComes
      <4>3. op.tag = self.resyncCounter /\ told' = Told(self.handlers, outcome)
        BY <4>2 DEF Answers
      <4>4. w \in Waiters
        BY <2>1, WaitFields
      <4>5. w \in self.handlers /\ told[w] = "nothing" /\ told'[w] = outcome
        BY <2>1, <4>3, <4>4 DEF HandlersAreSound, Told
      <4>6. op.tag \in Nat
        BY <2>1, WaitFields
      <4>7. op.sync = self.sync
        BY <2>1, <4>3, <4>5, <4>6 DEF WaitersAreSound
      <4>8. outcome = "ok" /\ uploaded >= op.upTo
        BY <4>2, <4>7 DEF Outcomes
      <4>9. op.due <= op.upTo /\ op.due \in Nat /\ op.upTo \in Nat /\ uploaded \in Nat
        BY <2>1, WaitFields, Numbers DEF WaitersAreSound, Typed
      <4> QED
        BY <4>5, <4>8, <4>9
    <3> QED
      BY <3>1, <3>3, <3>4
  <2>3. CASE UNCHANGED vars
    BY <2>3 DEF vars
  <2>4. CASE Binding /\ Bounded
    BY <2>4, BindingTells DEF TellsNone
  <2>5. CASE EventLoop /\ Bounded /\ ~WaitEnds
    BY <2>5, EventLoopTells DEF TellsNone
  <2> QED
    BY <2>2, <2>3, <2>4, <2>5 DEF Next
<1> QED
  BY <1>1, SessionInvariant, PTL DEF Spec, WaitsTellTheTruth
===============================================================================
