----------------------------- MODULE SyncSession -----------------------------
(***************************************************************************)
(* One realm::SyncSession (sync_session.cpp): its four states, the         *)
(* sync::Session it makes and destroys, the handlers that wait for uploads *)
(* to complete, and the event loop thread of the sync client, which calls  *)
(* back into it.                                                           *)
(*                                                                         *)
(* A public member function is one critical section of m_state_mutex and   *)
(* one action; so is a callback of the event loop thread, except           *)
(* handle_error, which gives the mutex up between looking at the state and *)
(* acting on the error.  Handlers are called when the mutex is released,   *)
(* in the action that took them.  Waiting for downloads works like waiting *)
(* for uploads and is left out; threads that race for the one external     *)
(* reference are the subject of SyncManager.                               *)
(*                                                                         *)
(* The client is external.  By its contract (sync/client.hpp) every wait   *)
(* is called back, with an error if its session was destroyed, and         *)
(* callbacks of a destroyed session may come until it has terminated.      *)
(***************************************************************************)
EXTENDS Integers

CONSTANTS
  Waiters,      \* handlers given to wait_for_upload_completion
  StopPolicies, \* the SyncSessionStopPolicy values Realms are opened with
  ResyncMode,   \* ClientResyncMode; "Recover" stands for both automatic ones
  ErrorKinds,   \* errors the server sends
  MaxSessions, MaxWaits, MaxCommits, MaxResyncs, MaxRequests  \* bounds, see Bounded

ASSUME SessionAssumption ==
  /\ StopPolicies \subseteq {"Immediately", "LiveIndefinitely", "AfterChangesUploaded"}
  /\ ResyncMode \in {"Manual", "Recover"}
  /\ ErrorKinds \subseteq {"token_expired", "client_reset", "denied", "fatal"}
  /\ {MaxSessions, MaxWaits, MaxCommits, MaxResyncs, MaxRequests} \subseteq Nat

VARIABLES
  self,       \* the SyncSession, see Fresh
  open,       \* an external reference to it exists
  requests,   \* bind_session_handler calls the binding has yet to answer
  client,     \* the sync client, see ClientInit
  loop,       \* the event loop thread, inside handle_error or not
  committed, announced, uploaded,  \* versions of the Realm
  told,       \* history: what a waiter was told
  overtaken,  \* history: handlers a resync brought back to an active session
  aborted     \* a REALM_ASSERT failed

versions == <<committed, announced, uploaded>>
vars == <<self, open, requests, client, loop, versions, told, overtaken, aborted>>

\* A new object. sync is m_session, the number of a sync::Session or 0;
\* registered: it is in SyncManager's map.
Fresh ==
  [state |-> "inactive", sync |-> 0, deferredClose |-> FALSE,
   deferredCommit |-> 0, deathCount |-> 0, resyncCounter |-> 0,
   handlers |-> {}, registered |-> FALSE, stopPolicy |-> "Immediately"]

\* Sessions made, waits begun and not called back, sessions destroyed and not
\* terminated; running: the session has a valid token and is not suspended.
ClientInit == [made |-> 0, begun |-> 0, waits |-> {}, ending |-> {}, running |-> FALSE]

\* old: the object was replaced while its error was handled.
Idle == [at |-> "idle", kind |-> "none", old |-> FALSE, aside |-> {}]

Init ==
  /\ self = Fresh /\ open = FALSE /\ requests = 0
  /\ client = ClientInit /\ loop = Idle
  /\ committed = 0 /\ announced = 0 /\ uploaded = 0
  /\ told = [w \in Waiters |-> "nothing"] /\ overtaken = {}
  /\ aborted = FALSE

Up == self.state \in {"active", "dying"}

-------------------------------------------------------------------------------
\* Operators on the object, the client and what waiters were told.

Told(ws, outcome) ==
  [w \in Waiters |-> IF w \notin ws THEN told[w]
                    ELSE IF told[w] = "nothing" THEN outcome ELSE "twice"]

\* The client after session s is told to call back when upTo is uploaded; ws and
\* due are history: the handlers there are and what was committed.
Waiting(c, kind, s, tag, upTo, ws) ==
  [c EXCEPT !.begun = @ + 1,
            !.waits = @ \cup {[id |-> c.begun + 1, kind |-> kind, sync |-> s,
                               tag |-> tag, upTo |-> upTo, ws |-> ws,
                               due |-> committed]}]

\* Faulty: the handlers that wait are not registered with the new session.
NotWatching(c, o, upTo) == c

\* Active::enter_state: add_completion_callback if a handler waits.
Watching(c, o, upTo) ==
  IF o.handlers = {} THEN c
  ELSE Waiting(c, "completion", o.sync, o.resyncCounter, upTo, o.handlers)

\* Faulty: the number of the death is taken before it is counted.
UncountedDeath(c, o, upTo) == Waiting(c, "death", o.sync, o.deathCount, upTo, {})

\* Dying::enter_state. (A session that is up has its sync::Session.)
Death(c, o, upTo) == Waiting(c, "death", o.sync, o.deathCount + 1, upTo, {})

\* Faulty: nothing is told to the handlers that wait.
DropHandlers(c, o, hold) ==
  /\ self' = [o EXCEPT !.state = "inactive", !.sync = 0, !.handlers = {},
                       !.registered = open']
  /\ client' = [c EXCEPT !.running = FALSE,
                         !.ending = IF o.sync = 0 THEN @ ELSE @ \cup {o.sync}]
  /\ UNCHANGED <<requests, aborted, told>>

\* Faulty: the handlers are told and kept.
KeepHandlers(c, o, hold) ==
  /\ self' = [o EXCEPT !.state = "inactive", !.sync = 0, !.registered = open']
  /\ client' = [c EXCEPT !.running = FALSE,
                         !.ending = IF o.sync = 0 THEN @ ELSE @ \cup {o.sync}]
  /\ told' = Told(o.handlers \ hold, "aborted")
  /\ UNCHANGED <<requests, aborted>>

\* Inactive::enter_state; hold: handlers set aside first. An object without an
\* external reference leaves the map.
EnterInactive(c, o, hold) ==
  /\ self' = [o EXCEPT !.state = "inactive", !.sync = 0, !.handlers = {},
                       !.registered = open']
  /\ client' = [c EXCEPT !.running = FALSE,
                         !.ending = IF o.sync = 0 THEN @ ELSE @ \cup {o.sync}]
  /\ told' = Told(o.handlers \ hold, "aborted")
  /\ UNCHANGED <<requests, aborted>>

\* WaitingForAccessToken::enter_state, and the call of the binding after it.
EnterWaiting(o) ==
  /\ self' = [o EXCEPT !.state = "waiting", !.deferredClose = FALSE]
  /\ requests' = requests + 1
  /\ UNCHANGED client

\* SyncSession::revive_if_needed
Revive(o) ==
  \/ o.state = "inactive" /\ EnterWaiting(o)
  \/ /\ o.state = "waiting"
     /\ self' = [o EXCEPT !.deferredClose = FALSE]
     /\ UNCHANGED <<requests, client>>
  \/ /\ o.state = "dying"
     /\ self' = [o EXCEPT !.state = "active"]
     /\ client' = Watching(client, o, announced)
     /\ UNCHANGED requests
  \/ /\ o.state = "active"
     /\ self' = o
     /\ UNCHANGED <<requests, client>>

-------------------------------------------------------------------------------
\* What the binding does.

\* A Realm is opened: SyncManager::get_session and external_reference. A new
\* object is not known to the callbacks of the one before, which hold that one
\* weakly, and the binding drops its requests.
OpenRealm ==
  /\ ~open
  /\ open' = TRUE
  /\ \/ /\ self.registered
        /\ Revive(self) /\ UNCHANGED loop
     \/ /\ ~self.registered /\ self.state = "inactive"
        /\ \E policy \in StopPolicies :
             self' = [Fresh EXCEPT !.state = "waiting", !.registered = TRUE,
                                   !.stopPolicy = policy]
        /\ requests' = 1
        /\ client' = [client EXCEPT !.waits = {}, !.ending = {}]
        /\ loop' = [loop EXCEPT !.old = loop # Idle]
  /\ UNCHANGED <<versions, told, overtaken, aborted>>

\* The last reference goes: did_drop_external_reference and State::close.
CloseRealm ==
  /\ open
  /\ open' = FALSE
  /\ UNCHANGED <<loop, versions, overtaken>>
  /\ \/ self.state \in {"waiting", "active"} /\ self.stopPolicy = "Immediately"
        /\ EnterInactive(client, self, {})
     \/ self.state = "waiting" /\ self.stopPolicy # "Immediately"
        /\ self' = [self EXCEPT !.deferredClose = TRUE]
        /\ UNCHANGED <<requests, client, told, aborted>>
     \/ self.state = "active" /\ self.stopPolicy = "AfterChangesUploaded"
        /\ self' = [self EXCEPT !.state = "dying", !.deathCount = @ + 1]
        /\ client' = Death(client, self, announced)
        /\ UNCHANGED <<requests, told, aborted>>
     \/ self.state = "active" /\ self.stopPolicy = "LiveIndefinitely"
        /\ UNCHANGED <<self, requests, client, told, aborted>>
     \/ self.state = "inactive"
        /\ self' = [self EXCEPT !.registered = FALSE]
        /\ UNCHANGED <<requests, client, told, aborted>>

\* SyncSession::log_out: the user logs out, or -[RLMSyncSession suspend].
LogOut ==
  /\ self.state # "inactive"
  /\ UNCHANGED <<open, loop, versions, overtaken>>
  /\ EnterInactive(client, self, {})

\* The user logs in again, or -[RLMSyncSession resume].
Resume ==
  /\ open
  /\ UNCHANGED <<open, loop, versions, told, overtaken, aborted>>
  /\ Revive(self)

\* SyncManager::reconnect reaches a session that waits for its token.
HandleReconnect ==
  /\ self.state = "waiting"
  /\ requests' = requests + 1
  /\ UNCHANGED <<self, open, client, loop, versions, told, overtaken, aborted>>

\* What the client knows of when the session is active: binding announces all
\* there is, a deferred commit announces what was committed meanwhile.
AnnouncedWhenActive ==
  IF self.sync = 0 THEN committed
  ELSE IF self.deferredCommit # 0 THEN self.deferredCommit ELSE announced

\* WaitingForAccessToken::refresh_access_token: create_sync_session and bind,
\* or refresh; the deferred commit; Active::enter_state; the deferred close.
Activate ==
  LET sync == IF self.sync = 0 THEN client.made + 1 ELSE self.sync
      active == [self EXCEPT !.state = "active", !.sync = sync,
                             !.deferredCommit = 0]
      running == [client EXCEPT !.made = IF self.sync = 0 THEN sync ELSE @,
                                !.running = TRUE]
      upTo == AnnouncedWhenActive
  IN  /\ announced' = upTo
      /\ IF self.deferredClose /\ self.stopPolicy = "AfterChangesUploaded"
         THEN /\ self' = [active EXCEPT !.state = "dying", !.deathCount = @ + 1]
              /\ client' = Death(Watching(running, active, upTo), active, upTo)
         ELSE /\ self' = active
              /\ client' = Watching(running, active, upTo)

\* The binding answers: SyncSession::refresh_access_token.
RefreshAccessToken ==
  /\ requests > 0
  /\ requests' = requests - 1
  /\ \/ self.state = "waiting" /\ Activate
     \/ self.state = "active"
        /\ client' = [client EXCEPT !.running = TRUE]
        /\ UNCHANGED <<self, announced>>
     \/ self.state \in {"dying", "inactive"}
        /\ UNCHANGED <<self, client, announced>>
  /\ UNCHANGED <<open, loop, committed, uploaded, told, overtaken, aborted>>

\* A local transaction: SyncSession::nonsync_transact_notify.
Commit ==
  /\ open /\ committed < MaxCommits
  /\ committed' = committed + 1
  /\ self' = IF self.state = "waiting"
             THEN [self EXCEPT !.deferredCommit = committed'] ELSE self
  /\ announced' = IF self.state = "active" THEN committed' ELSE announced
  /\ UNCHANGED <<open, requests, client, loop, uploaded, told, overtaken, aborted>>

\* SyncSession::wait_for_upload_completion. Every call has a handler of its own.
WaitForUpload(w) ==
  /\ open
  /\ told[w] = "nothing" /\ w \notin self.handlers \cup loop.aside
  /\ \A op \in client.waits : w \notin op.ws
  /\ self' = [self EXCEPT !.handlers = @ \cup {w}]
  /\ UNCHANGED <<open, requests, loop, versions, told, overtaken, aborted>>
  /\ client' = IF self.handlers = {} /\ Up
               THEN Waiting(client, "completion", self.sync, self.resyncCounter,
                            announced, {w})
               ELSE client

-------------------------------------------------------------------------------
\* The event loop thread of the sync client.

\* The server acknowledges a version.
Upload ==
  /\ self.sync # 0 /\ client.running /\ uploaded < announced
  /\ uploaded' = uploaded + 1
  /\ UNCHANGED <<self, open, requests, client, loop, committed, announced, told, overtaken, aborted>>

\* A wait ends well when all it was about is uploaded, in error when its
\* session was destroyed.
Outcomes(op) ==
  (IF uploaded >= op.upTo THEN {"ok"} ELSE {})
    \cup (IF op.sync # self.sync THEN {"aborted"} ELSE {})

Without(op) == [client EXCEPT !.waits = @ \ {op}]

\* Faulty: any death ends a session that is dying.
DiesByAny(op) == op.kind = "death" /\ self.state = "dying"

\* The callback of Dying::enter_state: a revived session does not die of it.
Dies(op) ==
  op.kind = "death" /\ self.state = "dying" /\ op.tag = self.deathCount

DeathComes(op) ==
  /\ Outcomes(op) # {} /\ op.kind = "death"
  /\ UNCHANGED <<open, loop, versions, overtaken>>
  /\ IF Dies(op) THEN EnterInactive(Without(op), self, {})
     ELSE /\ client' = Without(op)
          /\ UNCHANGED <<self, requests, told, aborted>>

\* Faulty: the wait of any sync::Session answers.
AnswersAlways(op) == TRUE

\* The callback of add_completion_callback is ignored after a client resync.
Answers(op) == op.tag = self.resyncCounter

CompletionComes(op) ==
  /\ op.kind = "completion"
  /\ \E outcome \in Outcomes(op) :
       told' = IF Answers(op) THEN Told(self.handlers, outcome) ELSE told
  /\ self' = IF Answers(op) THEN [self EXCEPT !.handlers = {}] ELSE self
  /\ client' = Without(op)
  /\ UNCHANGED <<open, requests, loop, versions, overtaken, aborted>>

WaitEnds ==
  /\ loop = Idle
  /\ \E op \in client.waits : DeathComes(op) \/ CompletionComes(op)

\* sync::Sessions whose callbacks may come.
Calling == (IF self.sync = 0 THEN {} ELSE {self.sync}) \cup client.ending

\* All callbacks of a destroyed session have come.
Terminate ==
  /\ loop = Idle
  /\ \E s \in client.ending :
       /\ \A op \in client.waits : op.sync # s
       /\ client' = [client EXCEPT !.ending = @ \ {s}]
  /\ UNCHANGED <<self, open, requests, loop, versions, told, overtaken, aborted>>

\* The listener with an error, and the first half of handle_error: a session
\* that is dying ends on a fatal error and ignores another.
TakeError(kind) ==
  /\ loop = Idle /\ Calling # {}
  /\ UNCHANGED <<open, versions, overtaken>>
  /\ IF self.state = "dying" /\ kind # "token_expired"
     THEN EnterInactive(client, self, {}) /\ UNCHANGED loop
     ELSE /\ client' = [client EXCEPT !.running = FALSE]
          /\ loop' = IF self.state = "dying" THEN Idle
                     ELSE [Idle EXCEPT !.at = "act", !.kind = kind]
          /\ UNCHANGED <<self, requests, told, aborted>>

\* advance_state asserts that the state changes.
Abort ==
  /\ aborted' = TRUE
  /\ UNCHANGED <<self, requests, client, told>>

Gone == self.state = "inactive" \/ loop.old

Expire ==
  /\ IF self.state = "active" /\ ~loop.old
     THEN EnterWaiting(self) ELSE UNCHANGED <<self, requests, client>>
  /\ UNCHANGED <<told, aborted>>

CancelWaits ==
  LET cancelled == IF loop.old THEN {} ELSE self.handlers
  IN  /\ self' = [self EXCEPT !.handlers = @ \ cancelled]
      /\ told' = Told(cancelled, "aborted")
      /\ UNCHANGED <<requests, client, aborted>>

Deny == IF Gone THEN Abort ELSE EnterInactive(client, self, {})

\* The first part of a client resync: handlers are moved aside.
Resync ==
  IF Gone THEN Abort
  ELSE EnterInactive(client, [self EXCEPT !.resyncCounter = @ + 1], self.handlers)

\* The second half of handle_error.
ActOnError ==
  /\ loop.at = "act"
  /\ LET resyncs == loop.kind = "client_reset" /\ ResyncMode = "Recover"
     IN  /\ loop' = IF resyncs /\ ~Gone
                    THEN [Idle EXCEPT !.at = "restore", !.aside = self.handlers]
                    ELSE Idle
         /\ UNCHANGED <<open, versions, overtaken>>
         /\ CASE loop.kind = "token_expired" -> Expire
              [] loop.kind = "fatal" -> CancelWaits
              [] resyncs -> Resync
              [] OTHER -> Deny

\* The second part: the handlers come back, without the mutex and over any that
\* came meanwhile, which nobody ever calls, and the session is revived.
Restore ==
  /\ loop.at = "restore"
  /\ loop' = Idle
  /\ overtaken' = IF ~loop.old /\ self.state = "active"
                  THEN overtaken \cup loop.aside ELSE overtaken
  /\ UNCHANGED <<open, versions, told, aborted>>
  /\ IF loop.old THEN UNCHANGED <<self, requests, client>>
     ELSE Revive([self EXCEPT !.handlers = loop.aside])

-------------------------------------------------------------------------------
Bounded ==
  /\ client'.made <= MaxSessions /\ client'.begun <= MaxWaits
  /\ requests' <= MaxRequests /\ self'.resyncCounter <= MaxResyncs

\* What the binding does and what the event loop thread does.
Binding ==
  \/ OpenRealm \/ CloseRealm \/ LogOut \/ Resume
  \/ HandleReconnect \/ RefreshAccessToken \/ Commit
  \/ \E w \in Waiters : WaitForUpload(w)

EventLoop ==
  \/ Upload \/ WaitEnds \/ Terminate
  \/ \E kind \in ErrorKinds : TakeError(kind)
  \/ ActOnError \/ Restore

Next == ~aborted /\ (Binding \/ EventLoop) /\ Bounded

Spec == Init /\ [][Next]_vars

\* The event loop thread runs until it has nothing to do, the server answers a
\* session it hears of and the binding answers each request; what the user and
\* the network do is not fair.
FairSpec ==
  /\ Spec
  /\ WF_vars(~aborted /\ Upload)
  /\ WF_vars(~aborted /\ WaitEnds)
  /\ WF_vars(~aborted /\ (ActOnError \/ Restore) /\ Bounded)
  /\ WF_vars(~aborted /\ RefreshAccessToken /\ Bounded)

-------------------------------------------------------------------------------
States == {"inactive", "waiting", "active", "dying"}

TypeOK ==
  /\ self \in [state : States, sync : 0 .. MaxSessions, deferredClose : BOOLEAN,
               deferredCommit : 0 .. MaxCommits, deathCount : 0 .. MaxWaits,
               resyncCounter : Nat, handlers : SUBSET Waiters,
               registered : BOOLEAN,
               stopPolicy : StopPolicies \cup {Fresh.stopPolicy}]
  /\ open \in BOOLEAN /\ aborted \in BOOLEAN
  /\ requests \in 0 .. MaxRequests
  /\ {committed, announced, uploaded} \subseteq 0 .. MaxCommits
  /\ client.made \in 0 .. MaxSessions /\ client.begun \in 0 .. MaxWaits
  /\ client.ending \subseteq 1 .. MaxSessions /\ client.running \in BOOLEAN
  /\ \A op \in client.waits : op.kind \in {"completion", "death"} /\ op.sync > 0
  /\ loop.at \in {"idle", "act", "restore"} /\ loop.aside \subseteq Waiters
  /\ told \in [Waiters -> {"nothing", "ok", "aborted", "twice"}]
  /\ overtaken \subseteq Waiters

\* While the session is up, handlers that wait have a wait on the sync::Session
\* of now that will call them: reviving a dying session, a new token, new handlers
\* and a client resync never leave them unwatched, but in one case.  When the
\* session was revived and active again before the resync brought its handlers
\* back, nothing registers them with the new sync::Session.
HandlersAreWatched ==
  Up /\ self.handlers # {} /\ self.handlers \cap overtaken = {} =>
    \E op \in client.waits :
      op.kind = "completion" /\ op.sync = self.sync /\ op.tag = self.resyncCounter

\* A session waits for a token only while the binding has a request for one to
\* answer, whatever revives, expires and reconnects came before.
TokenIsAskedFor == self.state = "waiting" => requests > 0

\* When the session is active the client knows of every commit, those made
\* while it was logged out or waited for a token included.
CommitsAreAnnounced == self.state = "active" => announced = committed

\* Nothing that somebody waits for is left behind in a state that will not
\* bring it about: handlers, a token, commits.
NothingIsLeftBehind ==
  TypeOK /\ HandlersAreWatched /\ TokenIsAskedFor /\ CommitsAreAnnounced

\* A session that ends because its uploads are complete has uploaded all that
\* was ever committed, although it may have been revived and closed again and
\* although the waits of older sync::Sessions are called back late.
DeathUploadsAll ==
  [][WaitEnds /\ self.state = "dying" /\ self'.state = "inactive"
       => uploaded = committed]_vars

\* A handler is called at most once: what it was told is never followed by
\* another call, although revived sessions register redundant waits.
ToldOnce == [][\A w \in Waiters : told[w] # "nothing" => told'[w] = told[w]]_vars

\* A handler that leaves the session, and those a client resync set aside with it,
\* was called, but in two cases: the object is destroyed, inactive and with no
\* Realm open, or replaced while the resync was under way; or the handler came
\* between the two halves of a resync, which then writes over it.
NoneForgotten ==
  [][\A w \in (self.handlers \cup loop.aside) \ (self'.handlers \cup loop'.aside) :
       told'[w] = "nothing" =>
         \/ ~self.registered
         \/ loop.at = "restore" /\ (loop.old \/ w \notin loop.aside)]_vars

\* What a wait tells the handlers it was begun for is true: their uploads are
\* complete, those committed while the session had no token included.  A wait of a
\* sync::Session that a log-out, the death or a client resync destroyed tells
\* them nothing, however late it ends and although a resync takes them along to
\* the next one.  (Handlers that come later are called with the others, and
\* share what these waited for.)
WaitsTellTheTruth ==
  [][\A op \in client.waits \ client'.waits : \A w \in op.ws :
       told'[w] # told[w] => told'[w] = "ok" /\ uploaded >= op.due]_vars

\* Neither a handler of a session that is up nor a session that is dying waits
\* for ever for a server that listens to it.  (Handlers that a client resync brought
\* back late may, see HandlersAreWatched; the event loop thread may have come to an assertion
\* that fails or, in the model, to a bound.)
WaitsEnd ==
  []<>(\/ ~Up \/ ~client.running \/ aborted \/ loop # Idle
       \/ /\ self.handlers = {} \/ self.handlers \cap overtaken # {}
          /\ self.state # "dying")
===============================================================================
